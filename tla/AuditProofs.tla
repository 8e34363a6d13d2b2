------------------------------ MODULE AuditProofs ------------------------------
(***************************************************************************)
(* What a published verdict is worth (AuditPublication), for any number of *)
(* jobs, publication runs, pushes and faults: PublicationInv says that one *)
(* run works at a time, that a run past its verification is of a sealed job *)
(* nobody has published yet, that a run which asked for its receipt has    *)
(* seen the head after writing, and that what the labelers took up or a job *)
(* reports stems from a run that ended well.  Then whom the lock lets in   *)
(* that an audit takes before it (AuditLock), what is read of the comments *)
(* behind it (CommentHistory), and what the gate makes of it (MergeGate).  *)
(***************************************************************************)
EXTENDS AuditLock, AuditPublication, CommentHistory, MergeGate,
        FiniteSetTheorems, SequenceTheorems, WellFoundedInduction, TLAPS

JobPcs == {"idle", "prepared", "review", "stage", "seal", "submit", "waiting", "published", "failed"}
JobRecs == [pc : JobPcs, head : Commits, last : Commits,
            verdict : {"none", "PASS", "BLOCKED", "UNKNOWN"}, sealed : BOOLEAN]
RunPcs == Active \cup {"none", "queued", "success", "failure"}
PublisherRecs == [pc : RunPcs, job : Jobs \cup {NoJob}, receipt : BOOLEAN]
Comments == {"none", "pending", "full", "closed", "deleted"}
Notices == {"none", "told", "read", "ended"}

PublicationTypes ==
    /\ branch \in Commits /\ aged \in SUBSET Jobs /\ faults \in 0..MaxFaults
    /\ job \in [Jobs -> JobRecs] /\ run \in [Runs -> PublisherRecs]
    /\ comment \in [Runs -> Comments] /\ notice \in [Runs -> Notices]
    /\ confirmed \in SUBSET Runs /\ labelled \in SUBSET Runs
    /\ \A r \in Runs : run[r].job = NoJob <=> run[r].pc = "none"

\* The concurrency group.
AloneInv == \A r, s \in Runs : run[r].pc \in Active /\ run[s].pc \in Active => r = s

\* A sealed artifact is of one unchanged head, and nothing changes it.
SealInv == \A j \in Jobs : job[j].sealed =>
    /\ job[j].verdict \in {"PASS", "BLOCKED"} /\ job[j].head = job[j].last
    /\ job[j].pc \notin {"idle", "prepared", "review"}

\* What a run has established by the step it has come to.
Verified == (Active \ {"verify", "cleanup"}) \cup {"success"}
SourceInv == \A r \in Runs :
    /\ run[r].pc \in Verified => job[run[r].job].sealed
    /\ run[r].pc \in {"receipt", "notify", "success"} => r \in confirmed
    /\ run[r].pc \in {"notify", "success"} => run[r].receipt

\* Nobody has published the job of a run that works past its verification.
OnceInv ==
    /\ \A r, s \in Runs : /\ run[r].pc \in Active \ {"verify"} /\ run[s].pc = "success"
                          => run[r].job # run[s].job
    /\ \A r, s \in Runs : /\ run[r].pc = "success" /\ run[s].pc = "success"
                          /\ run[r].job = run[s].job
                          => r = s

\* The labelers took up a notice of a run that had ended well.
NoticeInv == \A r \in Runs : notice[r] = "read" \/ r \in labelled => run[r].pc = "success"

PublicationInv == PublicationTypes /\ AloneInv /\ SealInv /\ SourceInv /\ OnceInv /\ NoticeInv /\ SubmittedIsPublished
-----------------------------------------------------------------------------
(* What the steps change.                                                  *)

\* A run that only moves on.
LEMMA RunMoves ==
    ASSUME PublicationTypes, NEW r \in Runs, NEW p \in RunPcs, Becomes(r, p)
    PROVE  /\ run'[r] = [run[r] EXCEPT !.pc = p]
           /\ run'[r].pc = p /\ run'[r].job = run[r].job /\ run'[r].receipt = run[r].receipt
           /\ \A s \in Runs \ {r} : run'[s] = run[s]
           /\ run[r].pc # "none" /\ p # "none" => run' \in [Runs -> PublisherRecs]
                 /\ \A s \in Runs : run'[s].job = NoJob <=> run'[s].pc = "none"
<1>1. run' = [run EXCEPT ![r].pc = p] /\ run[r] \in PublisherRecs
  BY DEF Becomes, PublicationTypes
<1> QED
  BY <1>1 DEF PublicationTypes, PublisherRecs

\* A job that only moves on.
LEMMA JobMoves ==
    ASSUME PublicationTypes, NEW j \in Jobs, NEW p \in JobPcs, Goes(j, p)
    PROVE  /\ job' \in [Jobs -> JobRecs]
           /\ job'[j] = [job[j] EXCEPT !.pc = p]
           /\ job'[j].pc = p /\ job'[j].sealed = job[j].sealed
           /\ job'[j].head = job[j].head /\ job'[j].last = job[j].last
           /\ job'[j].verdict = job[j].verdict
           /\ \A i \in Jobs \ {j} : job'[i] = job[i]
<1>1. job' = [job EXCEPT ![j].pc = p] /\ job[j] \in JobRecs
  BY DEF Goes, PublicationTypes
<1> QED
  BY <1>1 DEF PublicationTypes, JobRecs

\* A request takes a new run into the queue, which fails the one before it.
LEMMA QueuedMoves ==
    ASSUME PublicationAssumption, PublicationTypes, NEW j \in Jobs, Queued(j)
    PROVE  /\ run' \in [Runs -> PublisherRecs]
           /\ \A s \in Runs : run'[s].job = NoJob <=> run'[s].pc = "none"
           /\ \A s \in Runs : \/ run'[s] = run[s]
                              \/ /\ run[s].pc \in {"none", "queued"}
                                 /\ run'[s].pc \in {"queued", "failure"}
<1>1. PICK r \in Runs :
        /\ run[r].pc = "none"
        /\ run' = [s \in Runs |-> CASE s = r -> [NewRun EXCEPT !.pc = "queued", !.job = j]
                                    [] run[s].pc = "queued" -> [run[s] EXCEPT !.pc = "failure"]
                                    [] OTHER -> run[s]]
  BY DEF Queued
<1>2. [NewRun EXCEPT !.pc = "queued", !.job = j] \in PublisherRecs
  BY DEF NewRun, PublisherRecs, RunPcs
<1>3. /\ run'[r] = [NewRun EXCEPT !.pc = "queued", !.job = j]
      /\ run'[r].pc = "queued" /\ run'[r].job = j /\ j # NoJob
  <2>1. run'[r] = [NewRun EXCEPT !.pc = "queued", !.job = j]
    BY <1>1
  <2>2. [NewRun EXCEPT !.pc = "queued", !.job = j].pc = "queued"
    BY DEF NewRun
  <2>3. [NewRun EXCEPT !.pc = "queued", !.job = j].job = j
    BY DEF NewRun
  <2>4. j # NoJob
    BY DEF PublicationAssumption
  <2> QED
    BY <2>1, <2>2, <2>3, <2>4
<1>4. ASSUME NEW s \in Runs, s # r
      PROVE  /\ run'[s] \in PublisherRecs
             /\ run'[s].job = NoJob <=> run'[s].pc = "none"
             /\ \/ run'[s] = run[s]
                \/ run[s].pc = "queued" /\ run'[s].pc = "failure"
  <2>1. run[s] \in PublisherRecs /\ (run[s].job = NoJob <=> run[s].pc = "none")
    BY DEF PublicationTypes
  <2>2. CASE run[s].pc = "queued"
    <3>1. run'[s] = [run[s] EXCEPT !.pc = "failure"]
      BY <1>1, <1>4, <2>2
    <3> QED
      BY <2>1, <2>2, <3>1 DEF PublisherRecs, RunPcs
  <2>3. CASE run[s].pc # "queued"
    BY <1>1, <1>4, <2>1, <2>3
  <2> QED
    BY <2>2, <2>3
<1> QED
  BY <1>1, <1>2, <1>3, <1>4
-----------------------------------------------------------------------------
(* What keeps the invariant.                                               *)

\* A run that has ended well stays so, and its comment can only be deleted.
Kept(r) == /\ run'[r].pc = "success" /\ run'[r].job = run[r].job
           /\ run'[r].receipt = run[r].receipt
           /\ comment'[r] \in {comment[r], "deleted"}

LEMMA SubmittedKept ==
    ASSUME PublicationInv, confirmed \subseteq confirmed',
           \A r \in Runs : run[r].pc = "success" => Kept(r),
           \A j \in Jobs : job'[j].pc = "published" => job[j].pc = "published"
    PROVE  SubmittedIsPublished'
<1> SUFFICES ASSUME NEW j \in Jobs, job'[j].pc = "published"
             PROVE  \E r \in Succeeded(j)' : /\ comment'[r] \in {"full", "deleted"}
                                             /\ r \in confirmed'
  BY DEF SubmittedIsPublished
<1>1. PICK r \in Succeeded(j) : comment[r] \in {"full", "deleted"} /\ r \in confirmed
  BY DEF PublicationInv, SubmittedIsPublished
<1>2. r \in Runs /\ run[r].job = j /\ run[r].pc = "success" /\ run[r].receipt
  BY <1>1 DEF Succeeded
<1>3. Kept(r)
  BY <1>2
<1>4. r \in Succeeded(j)' /\ comment'[r] \in {"full", "deleted"} /\ r \in confirmed'
  BY <1>1, <1>2, <1>3 DEF Succeeded, Kept
<1> QED
  BY <1>4

\* A job goes its way: what it sealed stays, and it reports a publication only
\* for a run that ended well.
LEMMA JobStep ==
    ASSUME PublicationInv, PublicationTypes', NEW j \in Jobs,
           UNCHANGED <<run, comment, notice, confirmed, labelled>>,
           \A i \in Jobs \ {j} : job'[i] = job[i],
           job[j].sealed => job'[j].sealed,
           job'[j].sealed => /\ job'[j].verdict \in {"PASS", "BLOCKED"}
                             /\ job'[j].head = job'[j].last
                             /\ job'[j].pc \notin {"idle", "prepared", "review"},
           job'[j].pc = "published" =>
              \E r \in Succeeded(j) : comment[r] \in {"full", "deleted"} /\ r \in confirmed
    PROVE  PublicationInv'
<1>1. AloneInv' /\ OnceInv' /\ NoticeInv'
  BY DEF PublicationInv, AloneInv, OnceInv, NoticeInv
<1>2. SealInv'
  BY DEF PublicationInv, SealInv
<1>3. SourceInv'
  <2>1. \A i \in Jobs : job[i].sealed => job'[i].sealed
    OBVIOUS
  <2>2. \A r \in Runs : run[r].pc \in Verified => run[r].job \in Jobs
    BY DEF PublicationInv, PublicationTypes, PublisherRecs, Verified, Active
  <2> QED
    BY <2>1, <2>2 DEF PublicationInv, SourceInv
<1>4. SubmittedIsPublished'
  <2>1. \A i \in Jobs : Succeeded(i)' = Succeeded(i)
    BY DEF Succeeded
  <2> QED
    BY <2>1 DEF PublicationInv, SubmittedIsPublished
<1> QED
  BY <1>1, <1>2, <1>3, <1>4 DEF PublicationInv

\* A run goes its way: it may work, or end well, only on what it established.
LEMMA RunStep ==
    ASSUME PublicationInv, PublicationTypes', NEW r \in Runs, NEW p \in RunPcs,
           UNCHANGED <<job, labelled>>,
           run'[r].pc = p, run'[r].job = run[r].job,
           \A s \in Runs \ {r} : run'[s] = run[s] /\ comment'[s] = comment[s],
           confirmed \subseteq confirmed',
           run[r].pc # "success", run[r].pc \in Active \/ Vacant,
           p \in Verified => job[run[r].job].sealed,
           p \in {"receipt", "notify", "success"} => r \in confirmed',
           p \in {"notify", "success"} => run'[r].receipt,
           p \in (Active \ {"verify"}) \cup {"success"} =>
              \A s \in Runs : run[s].pc = "success" => run[r].job # run[s].job,
           \A s \in Runs : notice'[s] = "read" => notice[s] = "read"
    PROVE  PublicationInv'
<1>1. AloneInv'
  BY DEF PublicationInv, AloneInv, Vacant
<1>2. SealInv'
  BY DEF PublicationInv, SealInv
<1>3. SourceInv'
  BY DEF PublicationInv, SourceInv
<1>4. OnceInv'
  <2>1. \A s \in Runs \ {r} : p = "success" => run[s].pc \notin Active
    BY <1>1 DEF PublicationInv, AloneInv, Vacant
  <2> QED
    BY <2>1 DEF PublicationInv, OnceInv, Active
<1>5. NoticeInv'
  BY DEF PublicationInv, NoticeInv
<1>6. SubmittedIsPublished'
  <2>1. \A s \in Runs : run[s].pc = "success" => Kept(s)
    BY DEF Kept
  <2> QED
    BY <2>1, SubmittedKept
<1> QED
  BY <1>1, <1>2, <1>3, <1>4, <1>5, <1>6 DEF PublicationInv
-----------------------------------------------------------------------------
(* The steps.                                                              *)

LEMMA PublicationTypesNext ==
    ASSUME PublicationAssumption, PublicationTypes, [PublicationNext]_publicationVars
    PROVE  PublicationTypes'
<1> USE DEF Commits
<1>1. ASSUME NEW j \in Jobs, Job(j) \/ Age(j) PROVE PublicationTypes'
  <2>0. job[j] \in JobRecs /\ branch \in 0..MaxPush
    BY DEF PublicationTypes
  <2>1. CASE PrepareReview(j)
    <3>1. [job[j] EXCEPT !.pc = "prepared", !.head = branch] \in JobRecs
      BY <2>0 DEF JobRecs, JobPcs
    <3>2. job' \in [Jobs -> JobRecs]
      <4>1. job' = [job EXCEPT ![j] = [job[j] EXCEPT !.pc = "prepared", !.head = branch]]
        BY <2>1 DEF PrepareReview
      <4> QED
        BY <3>1, <4>1 DEF PublicationTypes
    <3> QED
      BY <2>1, <3>2 DEF PrepareReview, Local, Fine, PublicationTypes, recorded
  <2>2. CASE VerifyCheckout(j) \/ Stage(j) \/ Await(j)
    <3>1. job' \in [Jobs -> JobRecs] /\ Local /\ faults' \in 0..MaxFaults
      <4>1. \E p \in {"failed", "review", "seal", "published"} : Goes(j, p)
        BY <2>2 DEF VerifyCheckout, Stage, Await
      <4>2. \A p \in {"failed", "review", "seal", "published"} : p \in JobPcs
        BY DEF JobPcs
      <4>3. Local /\ (Fine \/ Fault)
        BY <2>2 DEF VerifyCheckout, Stage, Await
      <4>4. faults' \in 0..MaxFaults
        BY <4>3 DEF PublicationAssumption, Fine, Fault, PublicationTypes
      <4> QED
        BY <4>1, <4>2, <4>3, <4>4, JobMoves
    <3> QED
      BY <3>1 DEF Local, PublicationTypes, recorded
  <2>3. CASE Review(j)
    <3>1. PICK v \in {"PASS", "BLOCKED", "UNKNOWN"} :
            job' = [job EXCEPT ![j] = [job[j] EXCEPT !.pc = "stage", !.verdict = v, !.last = branch]]
      BY <2>3 DEF Review
    <3>2. [job[j] EXCEPT !.pc = "stage", !.verdict = v, !.last = branch] \in JobRecs
      BY <2>0 DEF JobRecs, JobPcs
    <3>3. job' \in [Jobs -> JobRecs]
      BY <3>1, <3>2 DEF PublicationTypes
    <3> QED
      BY <2>3, <3>3 DEF Review, Local, Fine, PublicationTypes, recorded
  <2>4. CASE PrepareSeal(j)
    <3>1. [job[j] EXCEPT !.pc = "submit", !.sealed = TRUE] \in JobRecs
      BY <2>0 DEF JobRecs, JobPcs
    <3>2. job' \in [Jobs -> JobRecs]
      <4>1. \/ job' = [job EXCEPT ![j] = [job[j] EXCEPT !.pc = "submit", !.sealed = TRUE]]
            \/ Goes(j, "failed")
        BY <2>4 DEF PrepareSeal
      <4> QED
        BY <3>1, <4>1, JobMoves DEF PublicationTypes, JobPcs
    <3> QED
      BY <2>4, <3>2 DEF PrepareSeal, Local, Fine, PublicationTypes, recorded
  <2>5. CASE Submit(j)
    <3>1. job' \in [Jobs -> JobRecs]
      BY <2>5, JobMoves DEF Submit, JobPcs
    <3>2. /\ run' \in [Runs -> PublisherRecs]
          /\ \A s \in Runs : run'[s].job = NoJob <=> run'[s].pc = "none"
      BY <2>5, QueuedMoves DEF Submit, PublicationTypes
    <3>3. faults' \in 0..MaxFaults
      BY <2>5 DEF PublicationAssumption, Submit, Fine, Fault, PublicationTypes
    <3> QED
      BY <2>5, <3>1, <3>2, <3>3 DEF Submit, PublicationTypes, recorded
  <2>6. CASE Redispatch(j)
    <3>1. faults' \in 0..MaxFaults
      BY <2>6 DEF PublicationAssumption, Redispatch, Fault, PublicationTypes
    <3> QED
      BY <2>6, <3>1, QueuedMoves DEF Redispatch, PublicationTypes, recorded
  <2>7. CASE Age(j)
    <3>1. faults' \in 0..MaxFaults
      BY <2>7 DEF PublicationAssumption, Age, Fault, PublicationTypes
    <3> QED
      BY <2>7, <3>1 DEF Age, PublicationTypes, recorded
  <2> QED
    BY <1>1, <2>1, <2>2, <2>3, <2>4, <2>5, <2>6, <2>7 DEF Job
<1>2. ASSUME NEW r \in Runs, Publish(r) PROVE PublicationTypes'
  <2>1. /\ run' \in [Runs -> PublisherRecs]
        /\ \A s \in Runs : run'[s].job = NoJob <=> run'[s].pc = "none"
    <3>1. CASE NotifyEarly(r)
      BY <3>1 DEF NotifyEarly, PublicationTypes
    <3>2. CASE Receipt(r)
      <4>1. /\ run' = [run EXCEPT ![r] = [run[r] EXCEPT !.pc = "notify", !.receipt = TRUE]]
            /\ run[r] \in PublisherRecs /\ run[r].pc = "receipt"
        BY <3>2 DEF Receipt, PublicationTypes
      <4>2. [run[r] EXCEPT !.pc = "notify", !.receipt = TRUE] \in PublisherRecs
        BY <4>1 DEF PublisherRecs, RunPcs, Active
      <4>3. /\ run'[r] = [run[r] EXCEPT !.pc = "notify", !.receipt = TRUE]
            /\ \A s \in Runs \ {r} : run'[s] = run[s]
            /\ run' \in [Runs -> PublisherRecs]
        BY <4>1, <4>2 DEF PublicationTypes
      <4>4. run'[r].pc = "notify" /\ run'[r].job = run[r].job
        BY <4>1, <4>3 DEF PublisherRecs
      <4> QED
        BY <4>1, <4>3, <4>4 DEF PublicationTypes
    <3>3. CASE ~NotifyEarly(r) /\ ~Receipt(r)
      <4>1. run[r].pc # "none"
        BY <1>2, <3>3 DEF Publish, Start, VerifyRun, Look, Reserve, Check, Write, Recheck,
                          Cleanup, Notify, Killed, Active
      <4>2. \E p \in RunPcs \ {"none"} : Becomes(r, p)
        BY <1>2, <3>3 DEF Publish, Start, VerifyRun, Look, Reserve, Check, Write, Recheck,
                          Cleanup, Notify, Killed, Active, RunPcs
      <4> QED
        BY <4>1, <4>2, RunMoves
    <3> QED
      BY <3>1, <3>2, <3>3
  <2>2. faults' \in 0..MaxFaults
    <3>1. Fine \/ Fault
      BY <1>2 DEF Publish, Start, VerifyRun, Look, Reserve, Check, Write, Recheck, Cleanup,
                  Receipt, Notify, NotifyEarly, Killed
    <3> QED
      BY <3>1 DEF PublicationAssumption, Fine, Fault, PublicationTypes
  <2>3. comment' \in [Runs -> Comments]
    BY <1>2 DEF Publish, Start, VerifyRun, Look, Reserve, Check, Write, Recheck, Cleanup,
                Receipt, Notify, NotifyEarly, Killed, Quiet, Patches, PublicationTypes, Comments
  <2>4. notice' \in [Runs -> Notices] /\ UNCHANGED <<branch, job, aged, labelled>>
    BY <1>2 DEF Publish, Start, VerifyRun, Look, Reserve, Check, Write, Recheck, Cleanup,
                Receipt, Notify, NotifyEarly, Killed, Remote, PublicationTypes, Notices
  <2>5. confirmed' \in SUBSET Runs
    BY <1>2 DEF Publish, Start, VerifyRun, Look, Reserve, Check, Write, Recheck, Cleanup,
                Receipt, Notify, NotifyEarly, Killed, Quiet, PublicationTypes
  <2> QED
    BY <2>1, <2>2, <2>3, <2>4, <2>5 DEF PublicationTypes
<1>3. ASSUME NEW r \in Runs, LabelReads(r) \/ LabelAccepts(r) PROVE PublicationTypes'
  BY <1>3 DEF LabelReads, LabelAccepts, Elsewhere, Fine, Told, PublicationTypes, Notices
<1>4. ASSUME NEW r \in Runs, DeleteComment(r) PROVE PublicationTypes'
  <2>1. faults' \in 0..MaxFaults
    BY <1>4 DEF PublicationAssumption, DeleteComment, Fault, PublicationTypes
  <2> QED
    BY <1>4, <2>1 DEF DeleteComment, PublicationTypes, Comments, recorded
<1>5. CASE PushCommit
  BY <1>5 DEF PublicationAssumption, PushCommit, PublicationTypes, recorded
<1>6. CASE UNCHANGED publicationVars
  BY <1>6 DEF publicationVars, PublicationTypes, recorded
<1> QED
  BY <1>1, <1>2, <1>3, <1>4, <1>5, <1>6 DEF PublicationNext

\* A job seals what it reviewed, and reports what it saw to be published.
LEMMA JobSteps ==
    ASSUME PublicationInv, PublicationTypes', NEW j \in Jobs,
           \/ PrepareReview(j) \/ VerifyCheckout(j) \/ Review(j) \/ Stage(j)
           \/ PrepareSeal(j) \/ Await(j)
    PROVE  PublicationInv'
<1> DEFINE Sealed(k) == /\ k.verdict \in {"PASS", "BLOCKED"} /\ k.head = k.last
                        /\ k.pc \notin {"idle", "prepared", "review"}
<1>0. PublicationTypes /\ job[j] \in JobRecs /\ (job[j].sealed => Sealed(job[j]))
  BY DEF PublicationInv, PublicationTypes, SealInv
<1>1. UNCHANGED <<run, comment, notice, confirmed, labelled>>
  BY DEF PrepareReview, VerifyCheckout, Review, Stage, PrepareSeal, Await, Local, Refuses, recorded
<1>2. CASE PrepareReview(j) \/ Review(j)
  <2>1. ~job[j].sealed
    BY <1>0, <1>2 DEF PrepareReview, Review
  <2>2. /\ job'[j].sealed = job[j].sealed /\ job'[j].pc \in {"prepared", "stage"}
        /\ \A i \in Jobs \ {j} : job'[i] = job[i]
    BY <1>0, <1>2 DEF PrepareReview, Review, PublicationTypes, JobRecs
  <2> QED
    BY <1>1, <2>1, <2>2, JobStep
<1>3. CASE VerifyCheckout(j) \/ Stage(j)
  <2>1. PICK p \in {"review", "seal", "failed"} : Goes(j, p)
    BY <1>3 DEF VerifyCheckout, Stage
  <2>2. p \in JobPcs /\ (p = "review" => job[j].pc = "prepared")
    BY <1>3, <2>1, <1>0, JobMoves DEF VerifyCheckout, Stage, JobPcs
  <2>3. /\ job'[j].pc = p /\ job'[j].sealed = job[j].sealed /\ job'[j].head = job[j].head
        /\ job'[j].last = job[j].last /\ job'[j].verdict = job[j].verdict
        /\ \A i \in Jobs \ {j} : job'[i] = job[i]
    BY <1>0, <2>1, <2>2, JobMoves
  <2> QED
    BY <1>0, <1>1, <2>2, <2>3, JobStep
<1>4. CASE PrepareSeal(j)
  <2>1. CASE Goes(j, "failed")
    <3>1. /\ job'[j].pc = "failed" /\ job'[j].sealed = job[j].sealed
          /\ job'[j].head = job[j].head
          /\ job'[j].last = job[j].last /\ job'[j].verdict = job[j].verdict
          /\ \A i \in Jobs \ {j} : job'[i] = job[i]
      BY <1>0, <2>1, JobMoves DEF JobPcs
    <3> QED
      BY <1>0, <1>1, <3>1, JobStep
  <2>2. CASE ~Goes(j, "failed")
    <3>1. /\ Valid(j)
          /\ job' = [job EXCEPT ![j] = [job[j] EXCEPT !.pc = "submit", !.sealed = TRUE]]
      BY <1>4, <2>2 DEF PrepareSeal
    <3>2. /\ job'[j].pc = "submit" /\ job'[j].sealed /\ job'[j].head = job[j].head
          /\ job'[j].last = job[j].last /\ job'[j].verdict = job[j].verdict
          /\ \A i \in Jobs \ {j} : job'[i] = job[i]
      BY <1>0, <3>1 DEF PublicationTypes, JobRecs
    <3> QED
      BY <1>1, <3>1, <3>2, JobStep DEF Valid
  <2> QED
    BY <2>1, <2>2
<1>5. CASE Await(j)
  <2>1. PICK p \in {"published", "failed"} :
          /\ Goes(j, p)
          /\ p = "published" => \E r \in Reservations(j) : Attested(r, job[j].head)
    BY <1>5 DEF Await
  <2>2. /\ job'[j].pc = p /\ job'[j].sealed = job[j].sealed /\ job'[j].head = job[j].head
        /\ job'[j].last = job[j].last /\ job'[j].verdict = job[j].verdict
        /\ \A i \in Jobs \ {j} : job'[i] = job[i]
    BY <1>0, <2>1, JobMoves DEF JobPcs
  <2>3. p = "published" => \E r \in Succeeded(j) : /\ comment[r] \in {"full", "deleted"}
                                                   /\ r \in confirmed
    BY <2>1 DEF Attested, Reservations, Succeeded, PublicationInv, SourceInv
  <2> QED
    BY <1>0, <1>1, <2>2, <2>3, JobStep
<1> QED
  BY <1>2, <1>3, <1>4, <1>5

\* A request for a publication: the queue changes and a job waits or gives up.
LEMMA RequestSteps ==
    ASSUME PublicationAssumption, PublicationInv, PublicationTypes', NEW j \in Jobs,
           Submit(j) \/ Redispatch(j)
    PROVE  PublicationInv'
<1>0. PublicationTypes /\ job[j] \in JobRecs
  BY DEF PublicationInv, PublicationTypes
<1>1. UNCHANGED <<comment, notice, confirmed, labelled>>
  BY DEF Submit, Redispatch, recorded
<1>2. \A s \in Runs : \/ run'[s] = run[s]
                      \/ /\ run[s].pc \in {"none", "queued"}
                         /\ run'[s].pc \in {"queued", "failure"}
  BY <1>0, QueuedMoves DEF Submit, Redispatch
<1>3. \A s \in Runs : /\ run'[s].pc \in Active \cup {"success"} => run'[s] = run[s]
                      /\ run[s].pc = "success" => run'[s] = run[s]
  BY <1>2 DEF Active
<1>4. \A i \in Jobs : /\ job'[i].sealed = job[i].sealed /\ job'[i].head = job[i].head
                      /\ job'[i].last = job[i].last /\ job'[i].verdict = job[i].verdict
                      /\ \/ job'[i].pc = job[i].pc
                         \/ job'[i].pc \in {"waiting", "failed"}
  <2>1. CASE Redispatch(j)
    BY <2>1 DEF Redispatch
  <2>2. CASE Submit(j)
    <3>1. PICK p \in {"waiting", "failed"} : Goes(j, p)
      BY <2>2 DEF Submit
    <3> QED
      BY <1>0, <3>1, JobMoves DEF JobPcs
  <2> QED
    BY <2>1, <2>2
<1>5. AloneInv'
  BY <1>3 DEF PublicationInv, AloneInv
<1>6. SealInv'
  BY <1>4 DEF PublicationInv, SealInv
<1>7. SourceInv'
  <2> SUFFICES ASSUME NEW r \in Runs, run'[r].pc \in Active \cup {"success"}
               PROVE  /\ run'[r].pc \in Verified => job'[run'[r].job].sealed
                      /\ run'[r].pc \in {"receipt", "notify", "success"} => r \in confirmed'
                      /\ run'[r].pc \in {"notify", "success"} => run'[r].receipt
    BY DEF SourceInv, Verified, Active
  <2>1. run'[r] = run[r] /\ run[r].job \in Jobs
    BY <1>0, <1>3 DEF PublicationTypes, PublisherRecs, Active
  <2> QED
    BY <1>1, <1>4, <2>1 DEF PublicationInv, SourceInv
<1>8. OnceInv'
  BY <1>3 DEF PublicationInv, OnceInv
<1>9. NoticeInv'
  BY <1>1, <1>3 DEF PublicationInv, NoticeInv
<1>10. SubmittedIsPublished'
  BY <1>1, <1>3, <1>4, SubmittedKept DEF Kept
<1> QED
  BY <1>5, <1>6, <1>7, <1>8, <1>9, <1>10 DEF PublicationInv

\* A run starts alone and goes on only with a sealed job nobody has published.
LEMMA EntrySteps ==
    ASSUME PublicationInv, PublicationTypes', NEW r \in Runs, Start(r) \/ VerifyRun(r) \/ Killed(r)
    PROVE  PublicationInv'
<1>0. PublicationTypes
  BY DEF PublicationInv
<1>1. UNCHANGED <<job, labelled, notice, comment, confirmed>>
  BY DEF Start, VerifyRun, Killed, Remote, Quiet
<1>2. PICK p \in {"verify", "look", "failure"} : Becomes(r, p)
  BY DEF Start, VerifyRun, Killed
<1>3. /\ p \in RunPcs /\ run'[r].pc = p /\ run'[r].job = run[r].job
      /\ \A s \in Runs \ {r} : run'[s] = run[s]
  BY <1>0, <1>2, RunMoves DEF RunPcs, Active
<1>4. run[r].pc # "success" /\ (run[r].pc \in Active \/ Vacant)
  BY DEF Start, VerifyRun, Killed, Active
<1>5. p = "look" => /\ job[run[r].job].sealed
                    /\ \A s \in Runs : run[s].pc = "success" => run[r].job # run[s].job
  <2> SUFFICES ASSUME p = "look"
               PROVE  /\ job[run[r].job].sealed
                      /\ \A s \in Runs : run[s].pc = "success" => run[r].job # run[s].job
    OBVIOUS
  <2>1. VerifyRun(r)
    BY <1>0, <1>2, <1>3 DEF Start, Killed, Becomes, PublicationTypes, PublisherRecs
  <2>2. VerifySource(Of(r)) /\ ~Replayed(r)
    BY <1>0, <1>3, <2>1 DEF VerifyRun, Becomes, PublicationTypes, PublisherRecs
  <2> QED
    BY <2>2 DEF VerifySource, Of, Replayed, Succeeded, PublicationInv, SourceInv
<1>6. p \notin {"receipt", "notify", "success"} /\ (p \in Active \ {"verify"} => p = "look")
      /\ (p \in Verified => p = "look")
  BY DEF Active, Verified
<1> QED
  BY <1>1, <1>3, <1>4, <1>5, <1>6, RunStep

\* A run past its verification goes on to its receipt, or gives up.
LEMMA WorkSteps ==
    ASSUME PublicationInv, PublicationTypes', NEW r \in Runs,
           Look(r) \/ Reserve(r) \/ Check(r) \/ Write(r) \/ Recheck(r) \/ Cleanup(r)
    PROVE  PublicationInv'
<1>0. PublicationTypes
  BY DEF PublicationInv
<1>1. UNCHANGED <<job, labelled, notice>> /\ confirmed \subseteq confirmed'
  BY DEF Look, Reserve, Check, Write, Recheck, Cleanup, Remote, Quiet
<1>2. \A s \in Runs \ {r} : comment'[s] = comment[s]
  BY <1>0 DEF Look, Reserve, Check, Write, Recheck, Cleanup, Quiet, Patches, PublicationTypes
<1>3. PICK p \in {"reserve", "check", "write", "recheck", "receipt", "cleanup", "failure"} :
        /\ Becomes(r, p) /\ (p = "receipt" => r \in confirmed')
        /\ p \in Verified => run[r].pc # "cleanup"
  BY DEF Look, Reserve, Check, Write, Recheck, Cleanup, Verified, Active
<1>4. /\ p \in RunPcs /\ run'[r].pc = p /\ run'[r].job = run[r].job
      /\ \A s \in Runs \ {r} : run'[s] = run[s]
  BY <1>0, <1>3, RunMoves DEF RunPcs, Active
<1>5. run[r].pc \in {"look", "reserve", "check", "write", "recheck", "cleanup"}
  BY DEF Look, Reserve, Check, Write, Recheck, Cleanup
<1>6. /\ run[r].pc \in Active \ {"verify"} /\ run[r].pc # "success"
      /\ run[r].pc # "cleanup" => run[r].pc \in Verified
  BY <1>5 DEF Active, Verified
<1>7. \A s \in Runs : run[s].pc = "success" => run[r].job # run[s].job
  BY <1>6 DEF PublicationInv, OnceInv
<1>8. p \in Verified => job[run[r].job].sealed
  BY <1>3, <1>6 DEF PublicationInv, SourceInv
<1>9. p \notin {"notify", "success"}
  OBVIOUS
<1> QED
  BY <1>1, <1>2, <1>3, <1>4, <1>6, <1>7, <1>8, <1>9, RunStep

\* A run with its receipt tells the labelers and ends well.
LEMMA EndSteps ==
    ASSUME PublicationInv, PublicationTypes', NEW r \in Runs, Receipt(r) \/ Notify(r)
    PROVE  PublicationInv'
<1>0. PublicationTypes /\ run[r] \in PublisherRecs
  BY DEF PublicationInv, PublicationTypes
<1>1. UNCHANGED <<job, labelled, comment, confirmed>>
  BY DEF Receipt, Notify, Remote, Quiet
<1>2. run[r].pc \in {"receipt", "notify"}
  BY DEF Receipt, Notify
<1>3. /\ run'[r].pc \in {"notify", "success"} /\ run'[r].job = run[r].job
      /\ run'[r].receipt
      /\ \A s \in Runs \ {r} : run'[s] = run[s]
  <2>1. CASE Receipt(r)
    <3>1. run' = [run EXCEPT ![r] = [run[r] EXCEPT !.pc = "notify", !.receipt = TRUE]]
      BY <2>1 DEF Receipt
    <3> QED
      BY <1>0, <3>1 DEF PublicationTypes, PublisherRecs
  <2>2. CASE Notify(r)
    <3>1. Becomes(r, "success") /\ run[r].receipt
      BY <2>2 DEF Notify, PublicationInv, SourceInv
    <3> QED
      BY <1>0, <3>1, RunMoves DEF RunPcs
  <2> QED
    BY <2>1, <2>2
<1>4. run[r].pc \in Active \ {"verify"} /\ run[r].pc \in Verified /\ run[r].pc # "success"
  BY <1>2 DEF Active, Verified
<1>5. /\ job[run[r].job].sealed /\ r \in confirmed
      /\ \A s \in Runs : run[s].pc = "success" => run[r].job # run[s].job
  BY <1>2, <1>4 DEF PublicationInv, SourceInv, OnceInv
<1>6. run'[r].pc \in RunPcs
  BY <1>3 DEF RunPcs, Active
<1>7. \A s \in Runs : notice'[s] = "read" => notice[s] = "read"
  BY <1>0 DEF Receipt, Notify, Remote, PublicationTypes
<1> QED
  BY <1>1, <1>3, <1>4, <1>5, <1>6, <1>7, RunStep

\* The labelers take up only what they saw to have ended well.
LEMMA NoticeSteps ==
    ASSUME PublicationInv, PublicationTypes', NEW r \in Runs,
           LabelReads(r) \/ LabelAccepts(r) \/ NotifyEarly(r)
    PROVE  PublicationInv'
<1>1. UNCHANGED <<job, run, comment, confirmed>>
  BY DEF LabelReads, LabelAccepts, NotifyEarly, Elsewhere, Quiet
<1>2. NoticeInv'
  BY DEF PublicationInv, NoticeInv, LabelReads, LabelAccepts, NotifyEarly, Told, Elsewhere, Quiet,
      PublicationTypes
<1>3. AloneInv' /\ SealInv' /\ SourceInv' /\ OnceInv'
  BY <1>1 DEF PublicationInv, AloneInv, SealInv, SourceInv, OnceInv
<1>4. SubmittedIsPublished'
  BY <1>1, SubmittedKept DEF Kept
<1> QED
  BY <1>2, <1>3, <1>4 DEF PublicationInv

\* A push, a day, a deletion.
LEMMA WorldSteps ==
    ASSUME PublicationInv, PublicationTypes',
           PushCommit \/ (\E j \in Jobs : Age(j)) \/ (\E r \in Runs : DeleteComment(r)) \/ UNCHANGED publicationVars
    PROVE  PublicationInv'
<1>1. /\ UNCHANGED <<job, run, confirmed, labelled, notice>>
      /\ \A r \in Runs : comment'[r] \in {comment[r], "deleted"}
  BY DEF PushCommit, Age, DeleteComment, publicationVars, recorded, PublicationInv, PublicationTypes
<1>2. AloneInv' /\ SealInv' /\ SourceInv' /\ OnceInv' /\ NoticeInv'
  BY <1>1 DEF PublicationInv, AloneInv, SealInv, SourceInv, OnceInv, NoticeInv
<1>3. SubmittedIsPublished'
  BY <1>1, SubmittedKept DEF Kept
<1> QED
  BY <1>2, <1>3 DEF PublicationInv

LEMMA PublicationInitInv == PublicationAssumption /\ PublicationInit => PublicationInv
<1> SUFFICES ASSUME PublicationAssumption, PublicationInit PROVE PublicationInv
  OBVIOUS
<1>1. PublicationTypes
  BY DEF PublicationInit, PublicationTypes, JobRecs, JobPcs, PublisherRecs, RunPcs, NewJob,
      NewRun, Comments, Notices,
         Commits, PublicationAssumption
<1>2. \A r \in Runs : run[r].pc = "none" /\ notice[r] = "none"
  BY DEF PublicationInit, NewRun
<1>3. \A j \in Jobs : ~job[j].sealed /\ job[j].pc = "idle"
  BY DEF PublicationInit, NewJob
<1>4. AloneInv /\ SourceInv /\ OnceInv
  BY <1>2 DEF AloneInv, SourceInv, OnceInv, Active, Verified
<1>5. SealInv /\ NoticeInv /\ SubmittedIsPublished
  BY <1>2, <1>3 DEF PublicationInit, SealInv, NoticeInv, SubmittedIsPublished
<1> QED
  BY <1>1, <1>4, <1>5 DEF PublicationInv

LEMMA PublicationNextInv ==
    ASSUME PublicationAssumption, PublicationInv, [PublicationNext]_publicationVars
    PROVE  PublicationInv'
<1>1. PublicationTypes'
  BY PublicationTypesNext DEF PublicationInv
<1>2. ASSUME NEW j \in Jobs, Job(j) PROVE PublicationInv'
  BY <1>1, <1>2, JobSteps, RequestSteps DEF Job
<1>3. ASSUME NEW r \in Runs, Publish(r) PROVE PublicationInv'
  BY <1>1, <1>3, EntrySteps, WorkSteps, EndSteps, NoticeSteps DEF Publish
<1>4. ASSUME NEW r \in Runs, LabelReads(r) \/ LabelAccepts(r) PROVE PublicationInv'
  BY <1>1, <1>4, NoticeSteps
<1>5. CASE PushCommit \/ (\E j \in Jobs : Age(j)) \/ (\E r \in Runs : DeleteComment(r))
           \/ UNCHANGED publicationVars
  BY <1>1, <1>5, WorldSteps
<1> QED
  BY <1>2, <1>3, <1>4, <1>5 DEF PublicationNext
-----------------------------------------------------------------------------
(* What the invariant means.                                               *)

\* A set whose elements are all equal has at most one.
LEMMA AtMostOne ==
    ASSUME NEW S, \A x, y \in S : x = y
    PROVE  Cardinality(S) <= 1
<1>1. CASE S = {}
  BY <1>1, FS_EmptySet
<1>2. CASE S # {}
  <2>1. PICK x \in S : TRUE
    BY <1>2
  <2>2. S = {x}
    BY <2>1
  <2> QED
    BY <2>2, FS_Singleton
<1> QED
  BY <1>1, <1>2

LEMMA PublicationIsTyped == PublicationInv => PublicationTypeOK
<1> SUFFICES ASSUME PublicationInv PROVE PublicationTypeOK
  OBVIOUS
<1>1. Cardinality({r \in Runs : run[r].pc \in Active}) <= 1
  BY AtMostOne DEF PublicationInv, AloneInv
<1> QED
  BY <1>1 DEF PublicationInv, PublicationTypes, PublicationTypeOK, JobRecs, Comments, Notices

LEMMA PublicationIsSealed == PublicationInv => VerdictsAreSealed
<1> SUFFICES ASSUME PublicationInv PROVE VerdictsAreSealed
  OBVIOUS
<1>1. AuthorityIsSealed
  <2> SUFFICES ASSUME NEW r \in Runs, run[r].pc = "success"
               PROVE  /\ job[run[r].job].sealed /\ r \in confirmed
                      /\ job[run[r].job].verdict \in {"PASS", "BLOCKED"}
                      /\ job[run[r].job].head = job[run[r].job].last
    BY DEF AuthorityIsSealed, Attested, PublicationInv, NoticeInv
  <2>1. run[r].job \in Jobs
    BY DEF PublicationInv, PublicationTypes, PublisherRecs
  <2> QED
    BY <2>1 DEF PublicationInv, SourceInv, SealInv, Verified
<1>2. PublishedOnce
  <2> SUFFICES ASSUME NEW j \in Jobs PROVE Cardinality(Succeeded(j)) <= 1
    BY DEF PublishedOnce
  <2>1. \A r, s \in Succeeded(j) : r = s
    BY DEF Succeeded, PublicationInv, OnceInv
  <2> QED
    BY <2>1, AtMostOne
<1> QED
  BY <1>1, <1>2 DEF PublicationInv, VerdictsAreSealed

LEMMA PublicationInvariant == ASSUME PublicationAssumption PROVE PublicationSpec => []PublicationInv
<1>1. PublicationInit => PublicationInv
  BY PublicationInitInv
<1>2. PublicationInv /\ [PublicationNext]_publicationVars => PublicationInv'
  BY PublicationNextInv
<1> QED
  BY <1>1, <1>2, PTL DEF PublicationSpec

\* Every reachable state has its types, and one publication run works at a
\* time, for any number of jobs, runs, pushes and faults.
THEOREM PublicationTypeCorrect == ASSUME PublicationAssumption PROVE PublicationSpec => []PublicationTypeOK
BY PublicationInvariant, PublicationIsTyped, PTL

\* A verdict that counts was sealed by a job that saw one head from start to
\* end and written before the head was seen again; an artifact is published at
\* most once, and what a job reports published is (audit_publication.publish,
\* submit_value).
THEOREM SealedOnce == ASSUME PublicationAssumption PROVE PublicationSpec => []VerdictsAreSealed
BY PublicationInvariant, PublicationIsSealed, PTL
-----------------------------------------------------------------------------
(***************************************************************************)
(* The lock an audit takes.  The exclusive creation of its file lets in    *)
(* one audit at a time until a lock is judged stale.  The invariant also   *)
(* has to speak of the audit that has created the file and not yet written *)
(* it: from that step on the path names it.                                *)
(***************************************************************************)
LetIn == {a \in Audits : pc[a] \in {"write", "auditing", "finish"}}

AdmittedHoldsPath == reaped \/ \A a \in LetIn : file = a

LockInv == LockTypeOK /\ AdmittedHoldsPath

LEMMA LockInitInv == LockInit => LockInv
  BY ProcessAssumption DEF LockInit, LockInv, LockTypeOK, AdmittedHoldsPath, LetIn, Processes

\* Every step keeps the types.
LEMMA LockTypeStep == LockTypeOK /\ [LockNext]_lockVars => LockTypeOK'
<1> SUFFICES ASSUME LockTypeOK, [LockNext]_lockVars PROVE LockTypeOK'
  OBVIOUS
<1> USE ProcessAssumption DEF LockTypeOK, Goto, Processes
<1>1. ASSUME NEW a \in Audits, StartLock(a) PROVE LockTypeOK'
  BY <1>1 DEF StartLock
<1>2. ASSUME NEW a \in Audits, Create(a) PROVE LockTypeOK'
  BY <1>2 DEF Create
<1>3. ASSUME NEW a \in Audits, LostRace(a) PROVE LockTypeOK'
  BY <1>3 DEF LostRace
<1>4. ASSUME NEW a \in Audits, WriteLock(a) PROVE LockTypeOK'
  BY <1>4 DEF WriteLock
<1>5. ASSUME NEW a \in Audits, Finish(a) PROVE LockTypeOK'
  BY <1>5 DEF Finish
<1>6. ASSUME NEW a \in Audits, FinishUnlink(a) PROVE LockTypeOK'
  BY <1>6 DEF FinishUnlink
<1>7. ASSUME NEW a \in Audits, FinishRaises(a) PROVE LockTypeOK'
  BY <1>7 DEF FinishRaises
<1>8. ASSUME NEW a \in Audits, Die(a) PROVE LockTypeOK'
  BY <1>8 DEF Die, Forgotten
<1>9. ASSUME NEW v \in Viewers, List(v) PROVE LockTypeOK'
  BY <1>9 DEF List
<1>10. ASSUME NEW p \in Processes, Load(p) PROVE LockTypeOK'
  BY <1>10 DEF Load, Readable
<1>11. ASSUME NEW p \in Processes, LoadRaises(p) PROVE LockTypeOK'
  BY <1>11 DEF LoadRaises
<1>12. ASSUME NEW p \in Processes, FindsActive(p) PROVE LockTypeOK'
  BY <1>12 DEF FindsActive, Forgotten
<1>13. ASSUME NEW p \in Processes, FindsStale(p) PROVE LockTypeOK'
  BY <1>13 DEF FindsStale
<1>14. ASSUME NEW p \in Processes, Unlink(p) PROVE LockTypeOK'
  BY <1>14 DEF Unlink, Forgotten
<1>15. ASSUME NEW p \in Processes, UnlinkRaises(p) PROVE LockTypeOK'
  BY <1>15 DEF UnlinkRaises, Forgotten
<1>16. CASE UNCHANGED lockVars
  BY <1>16 DEF lockVars
<1> QED
  BY <1>1, <1>2, <1>3, <1>4, <1>5, <1>6, <1>7, <1>8, <1>9, <1>10, <1>11, <1>12,
     <1>13, <1>14, <1>15, <1>16 DEF LockNext

\* Only the creation of the file admits an audit, and it needs the path free,
\* so nobody else is admitted; only a reaper takes the path from one.
LEMMA LockPathStep == LockInv /\ [LockNext]_lockVars => AdmittedHoldsPath'
<1> SUFFICES ASSUME LockInv, [LockNext]_lockVars PROVE AdmittedHoldsPath'
  OBVIOUS
<1> USE ProcessAssumption DEF LockInv, LockTypeOK, AdmittedHoldsPath, LetIn, Goto, Processes
<1>1. ASSUME NEW a \in Audits, StartLock(a) PROVE AdmittedHoldsPath'
  BY <1>1 DEF StartLock
<1>2. ASSUME NEW a \in Audits, Create(a) PROVE AdmittedHoldsPath'
  BY <1>2 DEF Create, NobodyCreated
<1>3. ASSUME NEW a \in Audits, LostRace(a) PROVE AdmittedHoldsPath'
  BY <1>3 DEF LostRace
<1>4. ASSUME NEW a \in Audits, WriteLock(a) PROVE AdmittedHoldsPath'
  BY <1>4 DEF WriteLock
<1>5. ASSUME NEW a \in Audits, Finish(a) PROVE AdmittedHoldsPath'
  BY <1>5 DEF Finish
<1>6. ASSUME NEW a \in Audits, FinishUnlink(a) PROVE AdmittedHoldsPath'
  BY <1>6 DEF FinishUnlink
<1>7. ASSUME NEW a \in Audits, FinishRaises(a) PROVE AdmittedHoldsPath'
  BY <1>7 DEF FinishRaises
<1>8. ASSUME NEW a \in Audits, Die(a) PROVE AdmittedHoldsPath'
  BY <1>8 DEF Die
<1>9. ASSUME NEW v \in Viewers, List(v) PROVE AdmittedHoldsPath'
  BY <1>9 DEF List
<1>10. ASSUME NEW p \in Processes, Load(p) PROVE AdmittedHoldsPath'
  BY <1>10 DEF Load
<1>11. ASSUME NEW p \in Processes, LoadRaises(p) PROVE AdmittedHoldsPath'
  BY <1>11 DEF LoadRaises
<1>12. ASSUME NEW p \in Processes, FindsActive(p) PROVE AdmittedHoldsPath'
  BY <1>12 DEF FindsActive
<1>13. ASSUME NEW p \in Processes, FindsStale(p) PROVE AdmittedHoldsPath'
  BY <1>13 DEF FindsStale
<1>14. ASSUME NEW p \in Processes, Unlink(p) PROVE AdmittedHoldsPath'
  BY <1>14 DEF Unlink
<1>15. ASSUME NEW p \in Processes, UnlinkRaises(p) PROVE AdmittedHoldsPath'
  BY <1>15 DEF UnlinkRaises
<1>16. CASE UNCHANGED lockVars
  BY <1>16 DEF lockVars
<1> QED
  BY <1>1, <1>2, <1>3, <1>4, <1>5, <1>6, <1>7, <1>8, <1>9, <1>10, <1>11, <1>12,
     <1>13, <1>14, <1>15, <1>16 DEF LockNext

LEMMA LockInvariance == LockSpec => []LockInv
<1>1. LockInv /\ [LockNext]_lockVars => LockInv'
  BY LockTypeStep, LockPathStep DEF LockInv
<1> QED
  BY LockInitInv, <1>1, PTL DEF LockSpec

(***************************************************************************)
(* Until a lock is reaped, the lock file names the only audit that `start` *)
(* let in, for any number of audits and of status readers.                 *)
(***************************************************************************)
THEOREM AuditIsExclusive == LockSpec => []ExclusiveUntilReaped
<1>1. LockInv => ExclusiveUntilReaped
  BY DEF LockInv, AdmittedHoldsPath, LetIn, ExclusiveUntilReaped, Auditing
<1> QED
  BY LockInvariance, <1>1, PTL

(***************************************************************************)
(* The reading of a comment history (CommentHistory), for any page size,   *)
(* budgets, sizes of comments and number of changes.                       *)
(***************************************************************************)
Items == [id : Nat, rev : Nat, size : Nat]
ReaderFields == {"pc", "pass", "size", "page", "items", "observed", "first", "requests", "bytes"}
IsReader(r) ==
    /\ r = [f \in ReaderFields |-> r[f]]
    /\ r.pc \in {"reading", "done", "changed", "refused"} /\ r.pass \in {1, 2}
    /\ r.size \in 1..PageSize /\ r.page \in Nat \ {0} /\ r.requests \in 0..MaxRequests
    /\ r.items \in Seq(Items) /\ Len(r.items) <= MaxItems
    /\ r.first \in Seq(Items) /\ r.observed \in SUBSET Items

HistoryTypes ==
    /\ comments \in Seq(Items) /\ written \in Nat /\ IsReader(reader)
    /\ \A i \in DOMAIN comments : comments[i].id <= written
    /\ \A i, j \in DOMAIN comments : i < j => comments[i].id < comments[j].id

MomentsInv == moments \in SUBSET Seq(Items) /\ IsFiniteSet(moments) /\ comments \in moments

\* The comments on the pages before page p.
Preceding(p, n) == (p - 1) * n
Read == Preceding(reader.page, reader.size)
Reading(pass) == reader.pc = "reading" /\ reader.pass = pass
IsRead == Read <= Len(comments) /\ reader.items = SubSeq(comments, 1, Read)

\* A comment that was read in a state it will never be in again.
Gone(x) ==
    /\ x \in Items /\ x.id <= written
    /\ \A i \in DOMAIN comments : comments[i].id = x.id => comments[i].rev > x.rev

\* A first reading holds the comments before its page, or one that is gone.
FirstInv == Reading(1) => IsRead \/ \E x \in ToSet(reader.items) : Gone(x)

\* A second reading repeats a history there was, or will miss one that is gone.
SecondInv == Reading(2) =>
    \/ reader.first \in moments
    \/ \E x \in ToSet(reader.first) : Gone(x) /\ x \notin ToSet(reader.items)

\* The comments of page p when there are n to a page.
PageOf(p, n) == SubSeq(comments, Preceding(p, n) + 1, Min({Preceding(p, n) + n, Len(comments)}))
PageFits(p, n) == Weight(PageOf(p, n)) <= MaxResponse

\* What a reading has found while nothing changes.
Still == moments = {comments}
StillInv == Still =>
    /\ reader.pc # "changed"
    /\ reader.pc = "reading" => IsRead /\ reader.observed \subseteq ToSet(comments)
    /\ Reading(1) => \A p \in 1..(reader.page - 1) : PageFits(p, reader.size)
    /\ Reading(2) =>
        /\ reader.first = comments
        /\ \A p \in Nat \ {0} : Preceding(p, reader.size) <= Len(comments) => PageFits(p, reader.size)

HistoryInv ==
    /\ HistoryTypes /\ MomentsInv /\ FirstInv /\ SecondInv /\ StillInv
    /\ HistoryIsOneMoment

LEMMA BeforeLaws ==
    ASSUME NEW p \in Nat \ {0}, NEW n \in Nat \ {0}
    PROVE  /\ Preceding(p, n) \in Nat /\ Preceding(1, n) = 0
           /\ Preceding(p + 1, n) = Preceding(p, n) + n
           /\ \A q \in Nat \ {0} : p < q => Preceding(p + 1, n) <= Preceding(q, n)
<1>1. Preceding(p, n) \in Nat /\ Preceding(1, n) = 0 /\ Preceding(p + 1, n) = Preceding(p, n) + n
    BY DEF Preceding
<1>2. ASSUME NEW q \in Nat \ {0}, p < q PROVE Preceding(p + 1, n) <= Preceding(q, n)
  <2>1. PICK d \in Nat : q = p + 1 + d
      BY <1>2
  <2>2. Preceding(q, n) = Preceding(p + 1, n) + d * n
      BY <2>1 DEF Preceding
  <2>3. d * n >= 0 /\ d * n \in Nat
      OBVIOUS
  <2> QED BY <2>2, <2>3, <1>1
<1> QED BY <1>1, <1>2

LEMMA LeastOfTwo == ASSUME NEW a \in Nat, NEW b \in Nat PROVE Min({a, b}) = IF a <= b THEN a ELSE b
<1>1. \A x \in {a, b} : (\A y \in {a, b} : x <= y) <=> x = IF a <= b THEN a ELSE b
    OBVIOUS
<1>2. (IF a <= b THEN a ELSE b) \in {a, b}
    OBVIOUS
<1> QED BY <1>1, <1>2 DEF Min

\* What is on a page, counted from the comments before it.
LEMMA PageLaws ==
    ASSUME HistoryTypes, NEW p \in Nat \ {0}, NEW n \in Nat \ {0}
    PROVE  LET b == Preceding(p, n) IN
           /\ PageOf(p, n) \in Seq(Items)
           /\ ToSet(PageOf(p, n)) \subseteq ToSet(comments)
           /\ \A i \in DOMAIN PageOf(p, n) : b + i \in DOMAIN comments /\ PageOf(p, n)[i] = comments[b + i]
           /\ b <= Len(comments) =>
                Len(PageOf(p, n)) = IF b + n <= Len(comments) THEN n ELSE Len(comments) - b
           /\ b > Len(comments) => Len(PageOf(p, n)) = 0
<1> DEFINE b == Preceding(p, n)
           u == IF b + n <= Len(comments) THEN b + n ELSE Len(comments)
<1> HIDE DEF b
<1>1. b \in Nat /\ Len(comments) \in Nat /\ comments \in Seq(Items)
  <2>1. b \in Nat
      BY BeforeLaws DEF b
  <2>2. comments \in Seq(Items)
      BY DEF HistoryTypes
  <2> QED BY <2>1, <2>2
<1>2. PageOf(p, n) = SubSeq(comments, b + 1, u) /\ u \in Nat /\ u <= Len(comments)
  <2>1. PageOf(p, n) = SubSeq(comments, b + 1, Min({b + n, Len(comments)}))
      BY DEF PageOf, b
  <2>2. Min({b + n, Len(comments)}) = u
      BY <1>1, LeastOfTwo DEF u
  <2>3. u \in Nat /\ u <= Len(comments)
      BY <1>1 DEF u
  <2> QED BY <2>1, <2>2, <2>3
<1> HIDE DEF u
<1>3. /\ PageOf(p, n) \in Seq(Items)
      /\ Len(PageOf(p, n)) = IF b + 1 <= u THEN u - b ELSE 0
      /\ \A i \in 1..Len(PageOf(p, n)) : PageOf(p, n)[i] = comments[b + i]
  <2>1. \A i \in (b + 1)..u : comments[i] \in Items
      BY <1>1, <1>2
  <2> QED BY <1>1, <1>2, <2>1
<1>4. \A i \in DOMAIN PageOf(p, n) : b + i \in DOMAIN comments /\ PageOf(p, n)[i] = comments[b + i]
    BY <1>1, <1>2, <1>3
<1>5. ToSet(PageOf(p, n)) \subseteq ToSet(comments)
    BY <1>4 DEF ToSet
<1> QED BY <1>1, <1>3, <1>4, <1>5 DEF b, u

LEMMA RawIsPage == Raw = PageOf(reader.page, reader.size) /\ (Fits <=> PageFits(reader.page, reader.size))
    BY DEF Raw, PageOf, Preceding, Fits, Bytes, PageFits

\* No two comments have one id.
LEMMA OneById ==
    ASSUME HistoryTypes, NEW i \in DOMAIN comments, NEW j \in DOMAIN comments,
           comments[i].id = comments[j].id
    PROVE  i = j
<1>1. comments[i].id \in Nat /\ comments[j].id \in Nat /\ i \in Nat /\ j \in Nat
  <2>1. comments \in Seq(Items)
      BY DEF HistoryTypes
  <2>2. comments[i] \in Items /\ comments[j] \in Items /\ i \in Nat /\ j \in Nat
      BY <2>1
  <2> QED BY <2>2 DEF Items
<1>2. ~ i < j /\ ~ j < i
    BY <1>1 DEF HistoryTypes
<1> QED BY <1>1, <1>2

(***************************************************************************)
(* What a change does: the types hold, no comment that is gone comes back, *)
(* and every beginning of the list stays or holds one that is gone now.    *)
(***************************************************************************)
ChangeIsSeen ==
    /\ HistoryTypes' /\ comments' # comments
    /\ \A x \in Items : Gone(x) => Gone(x)'
    /\ \A k \in 0..Len(comments) :
        \/ k <= Len(comments') /\ SubSeq(comments', 1, k) = SubSeq(comments, 1, k)
        \/ \E x \in Items : x \in ToSet(SubSeq(comments, 1, k)) /\ Gone(x)'

LEMMA CommentTyped ==
    ASSUME HistoryTypes, NEW i \in DOMAIN comments
    PROVE  i \in 1..Len(comments) /\ comments[i] \in Items /\ comments[i].id \in Nat
           /\ comments[i].rev \in Nat /\ comments[i].id <= written
<1>1. comments \in Seq(Items)
    BY DEF HistoryTypes
<1>2. i \in 1..Len(comments) /\ comments[i] \in Items
    BY <1>1
<1> QED BY <1>2 DEF HistoryTypes, Items

LEMMA Beginning ==
    ASSUME HistoryTypes, NEW k \in 0..Len(comments)
    PROVE  /\ SubSeq(comments, 1, k) \in Seq(Items) /\ Len(SubSeq(comments, 1, k)) = k
           /\ \A i \in 1..k : SubSeq(comments, 1, k)[i] = comments[i]
           /\ \A i \in 1..k : comments[i] \in ToSet(SubSeq(comments, 1, k))
<1>1. comments \in Seq(Items)
    BY DEF HistoryTypes
<1>2. /\ SubSeq(comments, 1, k) \in Seq(Items) /\ Len(SubSeq(comments, 1, k)) = k
      /\ DOMAIN SubSeq(comments, 1, k) = 1..k
      /\ \A i \in 1..k : SubSeq(comments, 1, k)[i] = comments[i]
    BY <1>1
<1> QED BY <1>2 DEF ToSet

LEMMA AddLaws ==
    ASSUME HistoryAssumption, HistoryTypes, AddComment
    PROVE  ChangeIsSeen
<1>1. PICK n \in Sizes : comments' = Append(comments, Comment(written + 1, 0, n))
                         /\ written' = written + 1 /\ reader' = reader
    BY DEF AddComment, Shows
<1> DEFINE new == Comment(written + 1, 0, n)
<1>2. new \in Items /\ new.id = written + 1 /\ comments \in Seq(Items) /\ written \in Nat
    BY DEF HistoryAssumption, HistoryTypes, Comment, Items
<1> HIDE DEF new
<1>3. /\ comments' \in Seq(Items) /\ Len(comments') = Len(comments) + 1
      /\ DOMAIN comments' = 1..(Len(comments) + 1)
      /\ \A i \in DOMAIN comments : i \in 1..Len(comments) /\ comments'[i] = comments[i]
      /\ comments'[Len(comments) + 1] = new
    BY <1>1, <1>2 DEF new
<1>4. HistoryTypes'
  <2>1. \A i \in DOMAIN comments' : i \in DOMAIN comments \/ i = Len(comments) + 1
      BY <1>2, <1>3
  <2>2. \A i \in DOMAIN comments' : comments'[i].id <= written'
      BY <1>1, <1>2, <1>3, <2>1, CommentTyped
  <2>3. ASSUME NEW i \in DOMAIN comments', NEW j \in DOMAIN comments', i < j
        PROVE  comments'[i].id < comments'[j].id
    <3>1. i \in DOMAIN comments
        BY <1>2, <1>3, <2>3
    <3>2. CASE j \in DOMAIN comments
        BY <1>3, <2>3, <3>1, <3>2 DEF HistoryTypes
    <3>3. CASE j = Len(comments) + 1
        BY <1>2, <1>3, <3>1, <3>3, CommentTyped
    <3> QED BY <2>1, <3>2, <3>3
  <2> QED BY <1>1, <1>2, <1>3, <2>2, <2>3 DEF HistoryTypes, IsReader
<1>5. ASSUME NEW x \in Items, Gone(x) PROVE Gone(x)'
  <2>1. x.id <= written /\ x.id \in Nat
      BY <1>5 DEF Gone, Items
  <2>2. ASSUME NEW i \in DOMAIN comments', comments'[i].id = x.id PROVE comments'[i].rev > x.rev
    <3>1. i \in DOMAIN comments
        BY <1>2, <1>3, <2>1, <2>2
    <3> QED BY <1>3, <1>5, <2>2, <3>1 DEF Gone
  <2> QED BY <1>1, <1>2, <1>5, <2>1, <2>2 DEF Gone
<1>6. ASSUME NEW k \in 0..Len(comments)
      PROVE  k <= Len(comments') /\ SubSeq(comments', 1, k) = SubSeq(comments, 1, k)
    BY <1>2, <1>3
<1> QED BY <1>2, <1>3, <1>4, <1>5, <1>6 DEF ChangeIsSeen

LEMMA ReviseLaws ==
    ASSUME HistoryAssumption, HistoryTypes, ReviseComment
    PROVE  ChangeIsSeen
<1>1. PICK e \in DOMAIN comments, n \in Sizes :
        /\ comments' = [comments EXCEPT ![e] = Comment(@.id, @.rev + 1, n)]
        /\ written' = written /\ reader' = reader
    BY DEF ReviseComment, Shows
<1>2. comments \in Seq(Items) /\ comments[e] \in Items /\ n \in Nat /\ e \in 1..Len(comments)
    BY CommentTyped DEF HistoryAssumption, HistoryTypes
<1>3. Comment(comments[e].id, comments[e].rev + 1, n) \in Items
    BY <1>2 DEF Comment, Items
<1>4. /\ comments' \in Seq(Items) /\ DOMAIN comments' = DOMAIN comments /\ Len(comments') = Len(comments)
      /\ comments'[e].id = comments[e].id /\ comments'[e].rev = comments[e].rev + 1
      /\ \A i \in DOMAIN comments : i # e => comments'[i] = comments[i]
    BY <1>1, <1>2, <1>3 DEF Comment
<1>5. \A i \in DOMAIN comments : comments'[i].id = comments[i].id
    BY <1>4
<1>6. HistoryTypes'
  <2>1. \A i \in DOMAIN comments' : comments'[i].id <= written'
      BY <1>1, <1>4, <1>5, CommentTyped
  <2>2. \A i, j \in DOMAIN comments' : i < j => comments'[i].id < comments'[j].id
      BY <1>4, <1>5 DEF HistoryTypes
  <2> QED BY <1>1, <1>4, <2>1, <2>2 DEF HistoryTypes, IsReader
<1>7. \A i \in DOMAIN comments : comments'[i].rev >= comments[i].rev /\ comments'[i].rev \in Nat
    BY <1>4, CommentTyped
<1>8. ASSUME NEW x \in Items, Gone(x) PROVE Gone(x)'
  <2>1. ASSUME NEW i \in DOMAIN comments', comments'[i].id = x.id PROVE comments'[i].rev > x.rev
    <3>1. comments[i].rev > x.rev /\ x.rev \in Nat /\ comments[i].rev \in Nat
        BY <1>4, <1>5, <1>8, <2>1, CommentTyped DEF Gone, Items
    <3> QED BY <1>4, <1>7, <3>1
  <2> QED BY <1>1, <1>8, <2>1 DEF Gone
<1> DEFINE old == comments[e]
<1>9. ASSUME NEW x \in Items, x = old PROVE Gone(x)'
  <2>1. ASSUME NEW i \in DOMAIN comments', comments'[i].id = x.id
        PROVE  comments'[i].rev > x.rev
    <3>1. i = e
        BY <1>4, <1>5, <1>9, <2>1, OneById
    <3> QED BY <1>4, <1>9, <3>1, CommentTyped
  <2> QED BY <1>1, <1>2, <1>9, <2>1, CommentTyped DEF Gone
<1>10. ASSUME NEW k \in 0..Len(comments)
       PROVE  \/ k <= Len(comments') /\ SubSeq(comments', 1, k) = SubSeq(comments, 1, k)
              \/ \E x \in Items : x \in ToSet(SubSeq(comments, 1, k)) /\ Gone(x)'
  <2>1. CASE e <= k
    <3>1. old \in ToSet(SubSeq(comments, 1, k))
        BY <1>2, <2>1, Beginning
    <3> QED BY <1>2, <1>9, <3>1
  <2>2. CASE ~ e <= k
    <3>1. \A i \in 1..k : comments'[i] = comments[i]
        BY <1>2, <1>4, <2>2
    <3> QED BY <1>2, <1>4, <3>1
  <2> QED BY <2>1, <2>2
<1>11. comments' # comments
  <2>1. comments'[e].rev # comments[e].rev
      BY <1>4, CommentTyped
  <2> QED BY <2>1
<1> QED BY <1>6, <1>8, <1>10, <1>11 DEF ChangeIsSeen

LEMMA Joined ==
    ASSUME NEW S, NEW a \in Seq(S), NEW b \in Seq(S)
    PROVE  /\ a \o b \in Seq(S) /\ Len(a \o b) = Len(a) + Len(b)
           /\ \A i \in 1..(Len(a) + Len(b)) : (a \o b)[i] = IF i <= Len(a) THEN a[i] ELSE b[i - Len(a)]
    OBVIOUS

LEMMA RemoveLaws ==
    ASSUME HistoryAssumption, HistoryTypes, RemoveComment
    PROVE  ChangeIsSeen
<1>1. PICK e \in DOMAIN comments : /\ comments' = RemoveAt(comments, e)
                                   /\ written' = written /\ reader' = reader
    BY DEF RemoveComment, Shows
<1> DEFINE old == comments[e]
           At(i) == IF i < e THEN i ELSE i + 1
<1>2. comments \in Seq(Items) /\ old \in Items /\ e \in 1..Len(comments)
    BY CommentTyped DEF HistoryTypes
<1>3. /\ comments' \in Seq(Items) /\ DOMAIN comments' = 1..(Len(comments) - 1)
      /\ Len(comments') = Len(comments) - 1
      /\ \A i \in DOMAIN comments' : At(i) \in DOMAIN comments /\ comments'[i] = comments[At(i)]
  <2> DEFINE a == SubSeq(comments, 1, e - 1)
             b == SubSeq(comments, e + 1, Len(comments))
  <2>1. /\ a \in Seq(Items) /\ Len(a) = e - 1
        /\ \A i \in 1..(e - 1) : a[i] = comments[i]
      BY <1>2
  <2>2. /\ b \in Seq(Items) /\ Len(b) = Len(comments) - e
        /\ \A i \in 1..(Len(comments) - e) : b[i] = comments[e + i]
      BY <1>2
  <2>3. comments' = a \o b
      BY <1>1 DEF RemoveAt
  <2> HIDE DEF a, b
  <2>4. /\ comments' \in Seq(Items) /\ Len(comments') = Len(comments) - 1
        /\ DOMAIN comments' = 1..(Len(comments) - 1)
        /\ \A i \in 1..(e - 1) : comments'[i] = a[i]
        /\ \A i \in e..(Len(comments) - 1) : comments'[i] = b[i - (e - 1)]
    <3>1. /\ comments' \in Seq(Items) /\ Len(comments') = Len(comments) - 1
          /\ DOMAIN comments' = 1..(Len(comments) - 1)
      <4>1. comments' \in Seq(Items) /\ Len(comments') = Len(a) + Len(b)
          BY <2>1, <2>2, <2>3, Joined
      <4>2. Len(a) + Len(b) = Len(comments) - 1
          BY <1>2, <2>1, <2>2
      <4> QED BY <4>1, <4>2
    <3>2. \A i \in 1..(e - 1) : comments'[i] = a[i]
        BY <1>2, <2>1, <2>2, <2>3
    <3>3. ASSUME NEW i \in e..(Len(comments) - 1) PROVE comments'[i] = b[i - (e - 1)]
      <4>1. i \in 1..(Len(a) + Len(b)) /\ ~ i <= Len(a)
          BY <1>2, <2>1, <2>2
      <4>2. (a \o b)[i] = b[i - Len(a)]
          BY <2>1, <2>2, <4>1, Joined
      <4>3. i - Len(a) = i - (e - 1) /\ (a \o b)[i] = comments'[i]
          BY <2>1, <2>3
      <4> QED BY <4>2, <4>3
    <3> QED BY <3>1, <3>2, <3>3
  <2>5. ASSUME NEW i \in DOMAIN comments'
        PROVE At(i) \in DOMAIN comments /\ comments'[i] = comments[At(i)]
    <3>1. CASE i < e
        BY <1>2, <2>1, <2>4, <2>5, <3>1
    <3>2. CASE ~ i < e
      <4>1. i \in e..(Len(comments) - 1) /\ i - (e - 1) \in 1..(Len(comments) - e)
          BY <1>2, <2>4, <2>5, <3>2
      <4>2. comments'[i] = b[i - (e - 1)] /\ b[i - (e - 1)] = comments[e + (i - (e - 1))]
          BY <2>2, <2>4, <4>1
      <4> QED BY <1>2, <3>2, <4>1, <4>2
    <3> QED BY <3>1, <3>2
  <2> QED BY <2>4, <2>5
<1>4. \A i \in DOMAIN comments' : At(i) \in Nat /\ At(i) # e
    BY <1>2, <1>3
<1>5. \A i, j \in DOMAIN comments' : i < j => At(i) < At(j)
    BY <1>2, <1>3
<1> HIDE DEF At
<1>6. HistoryTypes'
  <2>1. \A i \in DOMAIN comments' : comments'[i].id <= written'
      BY <1>1, <1>3, CommentTyped
  <2>2. \A i, j \in DOMAIN comments' : i < j => comments'[i].id < comments'[j].id
      BY <1>3, <1>5 DEF HistoryTypes
  <2> QED BY <1>1, <1>3, <2>1, <2>2 DEF HistoryTypes, IsReader
<1>7. ASSUME NEW x \in Items, Gone(x) PROVE Gone(x)'
    BY <1>1, <1>3, <1>7 DEF Gone
<1>8. ASSUME NEW x \in Items, x = old PROVE Gone(x)'
  <2>1. \A i \in DOMAIN comments' : comments'[i].id # x.id
      BY <1>3, <1>4, <1>8, OneById
  <2> QED BY <1>1, <1>8, <2>1, CommentTyped DEF Gone
<1>9. ASSUME NEW k \in 0..Len(comments)
      PROVE  \/ k <= Len(comments') /\ SubSeq(comments', 1, k) = SubSeq(comments, 1, k)
             \/ \E x \in Items : x \in ToSet(SubSeq(comments, 1, k)) /\ Gone(x)'
  <2>1. CASE e <= k
    <3>1. old \in ToSet(SubSeq(comments, 1, k))
        BY <1>2, <2>1, Beginning
    <3> QED BY <1>2, <1>8, <3>1
  <2>2. CASE ~ e <= k
    <3>1. \A i \in 1..k : i \in DOMAIN comments' /\ comments'[i] = comments[i]
        BY <1>2, <1>3, <2>2 DEF At
    <3>2. k <= Len(comments')
        BY <1>2, <1>3, <2>2
    <3> QED BY <1>2, <1>3, <3>1, <3>2
  <2> QED BY <2>1, <2>2
<1>10. comments' # comments
    BY <1>2, <1>3
<1> QED BY <1>6, <1>7, <1>9, <1>10 DEF ChangeIsSeen

LEMMA ChangeLaws ==
    ASSUME HistoryAssumption, HistoryInv, AddComment \/ ReviseComment \/ RemoveComment
    PROVE  HistoryInv' /\ ~Still'
<1>1. /\ ChangeIsSeen /\ reader' = reader /\ moments' = moments \cup {comments'}
      /\ reader.pc = "reading" /\ HistoryTypes
  <2>1. HistoryTypes
      BY DEF HistoryInv
  <2> QED BY <2>1, AddLaws, ReviseLaws, RemoveLaws
          DEF AddComment, ReviseComment, RemoveComment, Shows
<1>2. HistoryTypes' /\ comments' # comments
    BY <1>1 DEF ChangeIsSeen
<1>3. MomentsInv'
  <2>1. comments' \in Seq(Items)
      BY <1>2 DEF HistoryTypes
  <2> QED BY <1>1, <2>1, FS_AddElement DEF HistoryInv, MomentsInv
<1>4. ~Still'
    BY <1>1, <1>2 DEF HistoryInv, MomentsInv, Still
<1>5. FirstInv'
  <2> SUFFICES ASSUME Reading(1) PROVE (IsRead \/ \E x \in ToSet(reader.items) : Gone(x))'
      BY <1>1 DEF FirstInv, Reading
  <2>1. Read' = Read /\ Read \in Nat
      BY <1>1, BeforeLaws DEF HistoryTypes, IsReader, Read
  <2>2. CASE IsRead
    <3>1. Read \in 0..Len(comments)
        BY <1>1, <2>1, <2>2 DEF IsRead, HistoryTypes
    <3> QED BY <1>1, <2>1, <2>2, <3>1 DEF ChangeIsSeen, IsRead
  <2>3. CASE \E x \in ToSet(reader.items) : Gone(x)
      BY <1>1, <2>3 DEF ChangeIsSeen, Gone
  <2> QED BY <2>2, <2>3 DEF HistoryInv, FirstInv
<1>6. SecondInv'
  <2>1. \A x : Gone(x) => Gone(x)'
      BY <1>1 DEF ChangeIsSeen, Gone
  <2> QED BY <1>1, <2>1 DEF HistoryInv, SecondInv, Reading
<1> QED BY <1>1, <1>2, <1>3, <1>4, <1>5, <1>6 DEF HistoryInv, StillInv, HistoryIsOneMoment

(***************************************************************************)
(* What a request does.                                                    *)
(***************************************************************************)
LEMMA RawLaws ==
    ASSUME HistoryTypes
    PROVE  /\ Raw \in Seq(Items) /\ Len(Raw) \in Nat /\ ToSet(Raw) \subseteq ToSet(comments)
           /\ Read \in Nat /\ Read + reader.size \in Nat
           /\ \A i \in DOMAIN Raw : Read + i \in DOMAIN comments /\ Raw[i] = comments[Read + i]
           /\ Read <= Len(comments) =>
                Len(Raw) = IF Read + reader.size <= Len(comments)
                           THEN reader.size ELSE Len(comments) - Read
<1>1. reader.page \in Nat \ {0} /\ reader.size \in Nat \ {0}
    BY DEF HistoryTypes, IsReader
<1>2. Read \in Nat /\ Read + reader.size \in Nat
  <2>1. Read \in Nat
      BY <1>1, BeforeLaws DEF Read
  <2> QED BY <1>1, <2>1
<1>3. Len(Raw) \in Nat
    BY <1>1, PageLaws, RawIsPage
<1> QED BY <1>1, <1>2, <1>3, PageLaws, RawIsPage DEF Read

LEMMA Beyond ==
    ASSUME NEW a \in Nat, NEW b \in Nat, NEW i \in 1..(a + b), i \notin 1..a
    PROVE  i - a \in 1..b /\ i = a + (i - a)
    OBVIOUS

\* What was read so far and one page more.
LEMMA TakenLaws ==
    ASSUME HistoryTypes
    PROVE  LET more == reader.items \o Raw IN
           /\ more \in Seq(Items) /\ Len(more) = Len(reader.items) + Len(Raw)
           /\ ToSet(more) = ToSet(reader.items) \cup ToSet(Raw)
           /\ IsRead /\ Len(Raw) = reader.size =>
                /\ Read + reader.size <= Len(comments)
                /\ more = SubSeq(comments, 1, Read + reader.size)
           /\ IsRead /\ Len(Raw) < reader.size =>
                more = comments /\ Len(comments) < Read + reader.size
<1> DEFINE more == reader.items \o Raw
<1>1. reader.items \in Seq(Items) /\ comments \in Seq(Items) /\ reader.size \in Nat \ {0}
    BY DEF HistoryTypes, IsReader
<1>2. /\ more \in Seq(Items) /\ Len(more) = Len(reader.items) + Len(Raw)
      /\ \A i \in 1..Len(reader.items) : more[i] = reader.items[i]
      /\ \A i \in 1..Len(Raw) : more[Len(reader.items) + i] = Raw[i]
    BY <1>1, RawLaws
<1>3. ToSet(more) = ToSet(reader.items) \cup ToSet(Raw)
  <2>1. \A i \in DOMAIN more : i \in 1..Len(reader.items) \/ \E j \in 1..Len(Raw) : i = Len(reader.items) + j
    <3>1. ASSUME NEW i \in DOMAIN more, i \notin 1..Len(reader.items)
          PROVE  \E j \in 1..Len(Raw) : i = Len(reader.items) + j
      <4>1. i - Len(reader.items) \in 1..Len(Raw) /\ i = Len(reader.items) + (i - Len(reader.items))
        <5>1. Len(reader.items) \in Nat /\ Len(Raw) \in Nat /\ i \in 1..(Len(reader.items) + Len(Raw))
            BY <1>1, <1>2, RawLaws
        <5> QED BY <3>1, <5>1, Beyond
      <4> QED BY <4>1
    <3> QED BY <3>1
  <2>2. \A i \in 1..Len(reader.items) : i \in DOMAIN more
      BY <1>1, <1>2, RawLaws
  <2>3. \A i \in 1..Len(Raw) : Len(reader.items) + i \in DOMAIN more
      BY <1>1, <1>2, RawLaws
  <2>4. DOMAIN reader.items = 1..Len(reader.items) /\ DOMAIN Raw = 1..Len(Raw)
      BY <1>1, RawLaws
  <2> HIDE DEF more
  <2>5. ToSet(more) \subseteq ToSet(reader.items) \cup ToSet(Raw)
    <3>1. ASSUME NEW i \in DOMAIN more PROVE more[i] \in ToSet(reader.items) \cup ToSet(Raw)
      <4>1. CASE i \in 1..Len(reader.items)
          BY <1>2, <2>4, <4>1 DEF ToSet
      <4>2. CASE \E j \in 1..Len(Raw) : i = Len(reader.items) + j
          BY <1>2, <2>4, <4>2 DEF ToSet
      <4> QED BY <2>1, <4>1, <4>2
    <3> QED BY <3>1 DEF ToSet
  <2>6. ToSet(reader.items) \subseteq ToSet(more)
      BY <1>2, <2>2, <2>4 DEF ToSet
  <2>7. ToSet(Raw) \subseteq ToSet(more)
      BY <1>2, <2>3, <2>4 DEF ToSet
  <2> QED BY <2>5, <2>6, <2>7
<1>4. ASSUME IsRead, NEW k \in 0..Len(comments), Len(more) = k
      PROVE  more = SubSeq(comments, 1, k)
  <2>1. Len(reader.items) = Read /\ \A i \in 1..Read : reader.items[i] = comments[i]
      BY <1>1, <1>4, Beginning, RawLaws DEF IsRead
  <2>2. ASSUME NEW i \in 1..k PROVE more[i] = comments[i]
    <3>1. CASE i <= Read
        BY <1>2, <2>1, <2>2, <3>1, RawLaws
    <3>2. CASE ~ i <= Read
      <4>1. i - Read \in 1..Len(Raw) /\ i = Read + (i - Read) /\ i - Read \in DOMAIN Raw
        <5>1. /\ Read \in Nat /\ Len(Raw) \in Nat /\ DOMAIN Raw = 1..Len(Raw)
              /\ k = Read + Len(Raw) /\ i \in 1..k
            BY <1>2, <1>4, <2>1, RawLaws
        <5>2. i \in 1..(Read + Len(Raw)) /\ i \notin 1..Read
            BY <3>2, <5>1
        <5> QED BY <5>1, <5>2, Beyond
      <4>2. more[Len(reader.items) + (i - Read)] = Raw[i - Read]
          BY <1>2, <4>1
      <4>3. Raw[i - Read] = comments[Read + (i - Read)]
          BY <4>1, RawLaws
      <4> QED BY <2>1, <4>1, <4>2, <4>3
    <3> QED BY <3>1, <3>2
  <2> HIDE DEF more
  <2> QED BY <1>1, <1>2, <1>4, <2>2
<1>5. ASSUME IsRead, Len(Raw) = reader.size
      PROVE  Read + reader.size <= Len(comments) /\ more = SubSeq(comments, 1, Read + reader.size)
  <2>1. Read + reader.size <= Len(comments) /\ Read + reader.size \in 0..Len(comments)
      BY <1>1, <1>5, RawLaws DEF IsRead
  <2>2. Len(more) = Read + reader.size
      BY <1>1, <1>2, <1>5, Beginning, RawLaws DEF IsRead
  <2> QED BY <1>4, <1>5, <2>1, <2>2
<1>6. ASSUME IsRead, Len(Raw) < reader.size
      PROVE  more = comments /\ Len(comments) < Read + reader.size
  <2>1. Len(comments) < Read + reader.size /\ Len(Raw) = Len(comments) - Read
      BY <1>1, <1>6, RawLaws DEF IsRead
  <2>2. Len(more) = Len(comments) /\ Len(comments) \in 0..Len(comments)
      BY <1>1, <1>2, <1>6, <2>1, Beginning, RawLaws DEF IsRead
  <2>3. more = SubSeq(comments, 1, Len(comments))
      BY <1>4, <1>6, <2>2
  <2>4. SubSeq(comments, 1, Len(comments)) = comments
      BY <1>1
  <2> QED BY <2>1, <2>3, <2>4
<1> QED BY <1>2, <1>3, <1>5, <1>6

\* A comment that is gone is not read again.
LEMMA NoneReturns == ASSUME NEW x, Gone(x) PROVE x \notin ToSet(comments)
<1>1. ASSUME NEW i \in DOMAIN comments, x = comments[i] PROVE FALSE
  <2>1. x.rev > x.rev /\ x.rev \in Nat
      BY <1>1 DEF Gone, Items
  <2> QED BY <2>1
<1> QED BY <1>1 DEF ToSet

\* While nothing changes, no page repeats or contradicts what was read.
LEMMA NoneRepeats ==
    ASSUME HistoryTypes, IsRead, reader.observed \subseteq ToSet(comments)
    PROVE  ~Repeats /\ ~Contradicts
<1>1. ASSUME NEW i \in DOMAIN Raw, NEW j \in DOMAIN reader.items, Raw[i].id = reader.items[j].id
      PROVE  FALSE
  <2>1. Read \in 0..Len(comments)
    <3>1. Read \in Nat /\ Read <= Len(comments)
        BY RawLaws DEF IsRead
    <3>2. Len(comments) \in Nat
        BY DEF HistoryTypes
    <3> QED BY <3>1, <3>2
  <2>2. j \in 1..Read /\ reader.items[j] = comments[j] /\ j \in DOMAIN comments
      BY <1>1, <2>1, Beginning DEF IsRead, HistoryTypes
  <2>3. Read + i \in DOMAIN comments /\ Raw[i] = comments[Read + i] /\ i \in Nat \ {0}
      BY <1>1, RawLaws
  <2>4. Read + i = j
      BY <1>1, <2>2, <2>3, OneById
  <2> QED BY <2>1, <2>2, <2>3, <2>4
<1>2. ~Repeats
    BY <1>1 DEF Repeats, Ids
<1>3. ~Contradicts
  <2>1. ASSUME NEW c \in ToSet(comments), NEW o \in ToSet(comments), c.id = o.id PROVE c = o
      BY <2>1, OneById DEF ToSet
  <2> QED BY <2>1, RawLaws DEF Contradicts
<1> QED BY <1>2, <1>3

\* A request leaves the pull request as it is.
LEMMA RequestLeaves ==
    ASSUME HistoryInv, UNCHANGED github
    PROVE  /\ MomentsInv' /\ (Still' <=> Still) /\ HistoryTypes
           /\ IsReader(reader') => HistoryTypes'
           /\ \A x : Gone(x) => Gone(x)'
    BY DEF HistoryInv, MomentsInv, HistoryTypes, github, Still, Gone

LEMMA EndLaws ==
    ASSUME HistoryInv, UNCHANGED github, IsReader(reader'),
           reader.pc' = "refused" \/ (reader.pc' = "changed" /\ ~Still)
    PROVE  HistoryInv'
    BY RequestLeaves DEF HistoryInv, FirstInv, SecondInv, StillInv, HistoryIsOneMoment, Reading

\* Starting over with half the page.
LEMMA RestartLaws ==
    ASSUME HistoryInv, Reading(1), UNCHANGED github, IsReader(reader'), Reading(1)',
           reader.items' = <<>>, reader.page' = 1, reader.observed' = reader.observed
    PROVE  HistoryInv'
<1>1. comments \in Seq(Items) /\ reader.size' \in Nat \ {0}
    BY DEF HistoryInv, HistoryTypes, IsReader
<1>2. reader.pc' = "reading" /\ reader.pass' = 1
    BY DEF Reading
<1>3. HistoryTypes' /\ MomentsInv' /\ (Still' <=> Still)
    BY RequestLeaves
<1>4. IsRead'
  <2>1. Read' = 0
      BY <1>1, BeforeLaws DEF Read
  <2>2. SubSeq(comments, 1, 0) = <<>> /\ Len(comments) >= 0
      BY <1>1
  <2> QED BY <1>2, <2>1, <2>2 DEF IsRead, github
<1>5. FirstInv' /\ SecondInv' /\ HistoryIsOneMoment'
    BY <1>2, <1>4 DEF FirstInv, SecondInv, HistoryIsOneMoment, Reading
<1>6. StillInv'
  <2> SUFFICES ASSUME Still PROVE /\ reader.observed' \subseteq ToSet(comments')
                                  /\ \A p \in 1..(reader.page' - 1) : PageFits(p, reader.size)'
      BY <1>2, <1>3, <1>4 DEF StillInv, Reading
  <2> QED BY <1>2 DEF HistoryInv, StillInv, Reading, github
<1> QED BY <1>3, <1>5, <1>6 DEF HistoryInv

\* One full page more.
LEMMA MoreLaws ==
    ASSUME HistoryInv, reader.pc = "reading", UNCHANGED github, Fits, Len(Raw) = reader.size,
           IsReader(reader'), reader.items' = reader.items \o Raw, reader.page' = reader.page + 1,
           reader.size' = reader.size, reader.pc' = reader.pc, reader.pass' = reader.pass,
           reader.observed' = reader.observed \cup ToSet(Raw), reader.first' = reader.first
    PROVE  HistoryInv'
<1>1. HistoryTypes /\ IsReader(reader) /\ comments \in Seq(Items) /\ reader.size \in Nat \ {0}
      /\ reader.page \in Nat \ {0} /\ reader.pass \in {1, 2}
    BY DEF HistoryInv, HistoryTypes, IsReader
<1> DEFINE more == reader.items \o Raw
<1>2. /\ reader.items' = more /\ ToSet(more) = ToSet(reader.items) \cup ToSet(Raw)
      /\ ToSet(Raw) \subseteq ToSet(comments)
    BY <1>1, TakenLaws, RawLaws
<1> HIDE DEF more
<1>4. HistoryTypes' /\ MomentsInv' /\ (Still' <=> Still) /\ \A x : Gone(x) => Gone(x)'
    BY <1>2, RequestLeaves
<1>5. Read' = Read + reader.size
    BY <1>1, BeforeLaws DEF Read
<1>6. IsRead => IsRead'
    BY <1>1, <1>5, TakenLaws DEF IsRead, github, more
<1>7. FirstInv'
    BY <1>2, <1>4, <1>6 DEF HistoryInv, FirstInv, Reading
<1>8. SecondInv'
  <2> SUFFICES ASSUME Reading(2)'
        PROVE  \/ reader.first' \in moments'
               \/ \E x \in ToSet(reader.first') : Gone(x)' /\ x \notin ToSet(reader.items')
      BY DEF SecondInv
  <2>1. ASSUME NEW x \in ToSet(reader.first), Gone(x), x \notin ToSet(reader.items)
        PROVE  Gone(x)' /\ x \notin ToSet(more)
      BY <1>2, <1>4, <2>1, NoneReturns
  <2>2. reader.first \in moments \/ \E x \in ToSet(reader.first) : Gone(x) /\ x \notin ToSet(reader.items)
      BY DEF HistoryInv, SecondInv, Reading
  <2> QED BY <1>2, <2>1, <2>2 DEF github
<1>9. StillInv'
  <2> SUFFICES ASSUME Still
        PROVE  /\ IsRead' /\ reader.observed' \subseteq ToSet(comments')
               /\ Reading(1)' => \A p \in 1..(reader.page' - 1) : PageFits(p, reader.size)'
               /\ Reading(2)' =>
                    /\ reader.first' = comments'
                    /\ \A p \in Nat \ {0} :
                        Preceding(p, reader.size)' <= Len(comments') => PageFits(p, reader.size)'
      BY <1>4 DEF StillInv, Reading
  <2>1. IsRead /\ reader.observed \subseteq ToSet(comments)
      BY DEF HistoryInv, StillInv
  <2>2. \A p : (PageFits(p, reader.size)' <=> PageFits(p, reader.size))
               /\ Preceding(p, reader.size)' = Preceding(p, reader.size)
      BY DEF PageFits, PageOf, Preceding, github
  <2>3. Reading(1) => \A p \in 1..reader.page : PageFits(p, reader.size)
    <3>1. PageFits(reader.page, reader.size)
        BY RawIsPage
    <3>2. \A p \in 1..reader.page : p = reader.page \/ p \in 1..(reader.page - 1)
        BY <1>1
    <3> QED BY <3>1, <3>2 DEF HistoryInv, StillInv
  <2>4. 1..(reader.page' - 1) = 1..reader.page /\ (Reading(1)' <=> Reading(1)) /\ (Reading(2)' <=> Reading(2))
      BY <1>1 DEF Reading
  <2>5. Reading(1)' => \A p \in 1..(reader.page' - 1) : PageFits(p, reader.size)'
      BY <2>2, <2>3, <2>4
  <2>6. Reading(2)' =>
            /\ reader.first' = comments'
            /\ \A p \in Nat \ {0} : Preceding(p, reader.size)' <= Len(comments') => PageFits(p, reader.size)'
      BY <2>2, <2>4 DEF HistoryInv, StillInv, github
  <2> QED BY <1>2, <1>6, <2>1, <2>5, <2>6 DEF github
<1> QED BY <1>4, <1>7, <1>8, <1>9 DEF HistoryInv, HistoryIsOneMoment

\* The first reading is over, and the second begins.
LEMMA AgainLaws ==
    ASSUME HistoryInv, Reading(1), UNCHANGED github, Fits, Len(Raw) < reader.size,
           IsReader(reader'), Reading(2)', reader.first' = reader.items \o Raw, reader.items' = <<>>,
           reader.page' = 1, reader.size' = reader.size,
           reader.observed' = reader.observed \cup ToSet(Raw)
    PROVE  HistoryInv'
<1>1. HistoryTypes /\ comments \in Seq(Items) /\ reader.size \in Nat \ {0} /\ reader.page \in Nat \ {0}
    BY DEF HistoryInv, HistoryTypes, IsReader
<1>2. /\ ToSet(reader.items \o Raw) = ToSet(reader.items) \cup ToSet(Raw)
      /\ IsRead => reader.items \o Raw = comments /\ Len(comments) < Read + reader.size
      /\ ToSet(Raw) \subseteq ToSet(comments)
    BY <1>1, TakenLaws, RawLaws
<1>3. HistoryTypes' /\ MomentsInv' /\ (Still' <=> Still) /\ \A x : Gone(x) => Gone(x)'
    BY RequestLeaves
<1>4. reader.pc' = "reading" /\ reader.pass' = 2 /\ ToSet(<<>>) = {}
    BY DEF Reading, ToSet
<1>5. FirstInv' /\ HistoryIsOneMoment'
    BY <1>4 DEF FirstInv, HistoryIsOneMoment, Reading
<1>6. SecondInv'
  <2> SUFFICES \/ reader.first' \in moments'
               \/ \E x \in ToSet(reader.first') : Gone(x)' /\ x \notin ToSet(reader.items')
      BY DEF SecondInv
  <2>1. IsRead \/ \E x \in ToSet(reader.items) : Gone(x)
      BY DEF HistoryInv, FirstInv
  <2>2. CASE IsRead
      BY <1>2, <2>2 DEF HistoryInv, MomentsInv, github
  <2>3. CASE \E x \in ToSet(reader.items) : Gone(x)
      BY <1>2, <1>3, <1>4, <2>3
  <2> QED BY <2>1, <2>2, <2>3
<1>7. ASSUME Still
      PROVE  /\ IsRead' /\ reader.observed' \subseteq ToSet(comments') /\ reader.first' = comments'
             /\ \A p \in Nat \ {0} : Preceding(p, reader.size)' <= Len(comments') => PageFits(p, reader.size)'
  <2>1. /\ IsRead /\ reader.observed \subseteq ToSet(comments)
        /\ \A p \in 1..(reader.page - 1) : PageFits(p, reader.size)
      BY <1>7 DEF HistoryInv, StillInv, Reading
  <2>2. IsRead'
    <3>1. Read' = 0
        BY <1>1, BeforeLaws DEF Read
    <3>2. SubSeq(comments, 1, 0) = <<>> /\ Len(comments) >= 0
        BY <1>1
    <3> QED BY <3>1, <3>2 DEF IsRead, github
  <2>3. ASSUME NEW p \in Nat \ {0}, Preceding(p, reader.size) <= Len(comments)
        PROVE  PageFits(p, reader.size)
    <3>1. CASE reader.page < p
      <4>1. Read + reader.size <= Preceding(p, reader.size)
        <5>1. Preceding(reader.page + 1, reader.size) <= Preceding(p, reader.size)
            BY <1>1, <3>1, BeforeLaws
        <5>2. Preceding(reader.page + 1, reader.size) = Read + reader.size
            BY <1>1, BeforeLaws DEF Read
        <5> QED BY <5>1, <5>2
      <4>2. Preceding(p, reader.size) \in Nat /\ Read \in Nat
          BY <1>1, BeforeLaws, RawLaws
      <4> QED BY <1>1, <1>2, <2>1, <2>3, <4>1, <4>2
    <3>2. CASE p = reader.page
        BY <3>2, RawIsPage
    <3>3. CASE p < reader.page
        BY <1>1, <2>1, <3>3
    <3> QED BY <1>1, <3>1, <3>2, <3>3
  <2>4. \A p : (PageFits(p, reader.size)' <=> PageFits(p, reader.size))
               /\ Preceding(p, reader.size)' = Preceding(p, reader.size)
      BY DEF PageFits, PageOf, Preceding, github
  <2> QED BY <1>2, <2>1, <2>2, <2>3, <2>4 DEF github
<1>8. StillInv'
    BY <1>3, <1>4, <1>7 DEF StillInv, Reading
<1> QED BY <1>3, <1>5, <1>6, <1>8 DEF HistoryInv

\* The second reading is the first again.
LEMMA DoneLaws ==
    ASSUME HistoryInv, Reading(2), UNCHANGED github, reader.items \o Raw = reader.first,
           IsReader(reader'), reader.pc' = "done", reader.items' = reader.first
    PROVE  HistoryInv'
<1>1. HistoryTypes' /\ MomentsInv' /\ (Still' <=> Still) /\ HistoryTypes
    BY RequestLeaves
<1>2. reader.first \in moments
  <2>1. ASSUME NEW x \in ToSet(reader.first), Gone(x), x \notin ToSet(reader.items) PROVE FALSE
      BY <1>1, <2>1, TakenLaws, RawLaws, NoneReturns
  <2> QED BY <2>1 DEF HistoryInv, SecondInv
<1> QED BY <1>1, <1>2 DEF HistoryInv, FirstInv, SecondInv, StillInv, HistoryIsOneMoment, Reading,
    github

LEMMA EndedTyped ==
    ASSUME NEW r, IsReader(r), NEW how \in {"reading", "done", "changed", "refused"}
    PROVE  LET s == [r EXCEPT !.pc = how] IN
           /\ IsReader(s) /\ s.pc = how /\ s.items = r.items /\ s.first = r.first
    BY DEF IsReader, ReaderFields

LEMMA ChargedTyped ==
    ASSUME HistoryAssumption, IsReader(reader), Asks
    PROVE  /\ IsReader(Charged) /\ Charged.pc = "reading" /\ Charged.pass = reader.pass
           /\ Charged.size = reader.size /\ Charged.page = reader.page /\ Charged.items = reader.items
           /\ Charged.observed = reader.observed /\ Charged.first = reader.first
<1>1. /\ Charged = [f \in ReaderFields |-> Charged[f]]
      /\ Charged.pc = reader.pc /\ Charged.pass = reader.pass /\ Charged.requests = reader.requests + 1
      /\ Charged.size = reader.size /\ Charged.page = reader.page /\ Charged.items = reader.items
      /\ Charged.observed = reader.observed /\ Charged.first = reader.first
    BY DEF IsReader, ReaderFields, Charged
<1>2. reader.requests + 1 \in 0..MaxRequests
    BY DEF IsReader, HistoryAssumption, Asks
<1> QED BY <1>1, <1>2 DEF IsReader, Asks

LEMMA TakenTyped ==
    ASSUME HistoryAssumption, HistoryTypes, Asks, ~TooMany
    PROVE  /\ IsReader(Taken) /\ Taken.pc = "reading" /\ Taken.pass = reader.pass
           /\ Taken.size = reader.size /\ Taken.page = reader.page
           /\ Taken.items = reader.items \o Raw
           /\ Taken.observed = reader.observed \cup ToSet(Raw) /\ Taken.first = reader.first
<1>1. /\ IsReader(Charged) /\ Charged.pc = "reading" /\ Charged.pass = reader.pass
      /\ Charged.size = reader.size /\ Charged.page = reader.page /\ Charged.items = reader.items
      /\ Charged.observed = reader.observed /\ Charged.first = reader.first
    BY ChargedTyped DEF HistoryTypes
<1> DEFINE more == reader.items \o Raw
<1>2. /\ more \in Seq(Items) /\ Len(more) <= MaxItems /\ ToSet(Raw) \subseteq Items
  <2>1. comments \in Seq(Items) /\ IsReader(reader)
      BY DEF HistoryTypes
  <2>2. ToSet(comments) \subseteq Items
      BY <2>1 DEF ToSet
  <2>3. Len(reader.items) \in Nat /\ MaxItems \in Nat
      BY <2>1 DEF IsReader, HistoryAssumption
  <2> QED BY <2>2, <2>3, TakenLaws, RawLaws DEF TooMany
<1> HIDE DEF more
<1>3. /\ Taken = [f \in ReaderFields |-> Taken[f]]
      /\ Taken.pc = "reading" /\ Taken.pass = reader.pass /\ Taken.requests = Charged.requests
      /\ Taken.size = reader.size /\ Taken.page = reader.page /\ Taken.items = more
      /\ Taken.observed = reader.observed \cup ToSet(Raw) /\ Taken.first = reader.first
    BY <1>1 DEF IsReader, ReaderFields, Taken, more
<1>4. IsReader(Taken)
    BY <1>1, <1>2, <1>3 DEF IsReader
<1> QED BY <1>3, <1>4 DEF more

LEMMA Ending ==
    ASSUME HistoryInv, NEW r, IsReader(r), NEW how \in {"refused", "changed"}, Ends(how, r),
           how = "refused" \/ ~Still
    PROVE  HistoryInv'
<1>1. IsReader(reader') /\ reader.pc' = how /\ UNCHANGED github
    BY EndedTyped DEF Ends, Becoming
<1> QED BY <1>1, EndLaws

LEMMA TooLargeLaws ==
    ASSUME HistoryAssumption, HistoryInv, TooLarge
    PROVE  HistoryInv'
<1>1. HistoryTypes /\ IsReader(reader) /\ Asks /\ ~Fits /\ reader.pc = "reading" /\ reader.pass \in {1, 2}
    BY DEF HistoryInv, HistoryTypes, IsReader, TooLarge, Asks
<1>2. IsReader(Charged) /\ Charged.size = reader.size /\ Charged.pc = "reading"
      /\ Charged.pass = reader.pass /\ Charged.observed = reader.observed
    BY <1>1, ChargedTyped
<1>3. CASE Ends("refused", Charged)
    BY <1>2, <1>3, Ending
<1>4. CASE reader.pass = 2 /\ Ends("changed", Charged)
  <2>1. ~Still
    <3>1. ASSUME Still PROVE FALSE
      <4>1. Read <= Len(comments) /\ reader.page \in Nat \ {0}
          BY <1>1, <3>1 DEF HistoryInv, StillInv, IsRead, IsReader
      <4>2. PageFits(reader.page, reader.size)
          BY <1>1, <1>4, <3>1, <4>1 DEF HistoryInv, StillInv, Reading, Read
      <4> QED BY <1>1, <4>2, RawIsPage
    <3> QED BY <3>1
  <2> QED BY <1>2, <1>4, <2>1, Ending
<1>5. CASE /\ ~Smallest /\ reader.pass = 1
           /\ Becoming([Charged EXCEPT !.size = @ \div 2, !.page = 1, !.items = <<>>])
  <2>1. reader.size \div 2 \in 1..PageSize
    <3>1. reader.size \in 1..PageSize /\ reader.size # 1 /\ PageSize \in Nat
        BY <1>1, <1>5 DEF Smallest, IsReader, HistoryAssumption
    <3> QED BY <3>1
  <2>2. <<>> \in Seq(Items) /\ Len(<<>>) <= MaxItems
      BY DEF HistoryAssumption
  <2>3. /\ reader' = [f \in ReaderFields |-> reader'[f]]
        /\ reader.pc' = Charged.pc /\ reader.pass' = Charged.pass
        /\ reader.requests' = Charged.requests /\ reader.size' = Charged.size \div 2
        /\ reader.page' = 1 /\ reader.items' = <<>> /\ reader.observed' = Charged.observed
        /\ reader.first' = Charged.first
      BY <1>2, <1>5 DEF IsReader, ReaderFields, Becoming
  <2>4. IsReader(reader')
      BY <1>2, <2>1, <2>2, <2>3 DEF IsReader
  <2> QED BY <1>1, <1>2, <1>5, <2>3, <2>4, RestartLaws DEF Reading, Becoming
<1> QED BY <1>1, <1>3, <1>4, <1>5 DEF TooLarge

LEMMA PageStepLaws ==
    ASSUME HistoryAssumption, HistoryInv, Page
    PROVE  HistoryInv'
<1>1. /\ HistoryTypes /\ IsReader(reader) /\ Asks /\ Fits /\ reader.pc = "reading"
      /\ reader.pass \in {1, 2} /\ reader.size \in Nat
    BY DEF HistoryInv, HistoryTypes, IsReader, Page, Asks
<1>2. IsReader(Charged)
    BY <1>1, ChargedTyped
<1>3. CASE Ends("refused", Charged)
    BY <1>2, <1>3, Ending
<1>4. CASE (Repeats \/ Contradicts) /\ Ends("changed", Charged)
  <2>1. ~Still
      BY <1>1, <1>4, NoneRepeats DEF HistoryInv, StillInv
  <2> QED BY <1>2, <1>4, <2>1, Ending
<1>5. ASSUME ~TooMany
      PROVE  /\ IsReader(Taken) /\ Taken.pc = "reading" /\ Taken.pass = reader.pass
             /\ Taken.size = reader.size /\ Taken.page = reader.page
             /\ Taken.items = reader.items \o Raw
             /\ Taken.observed = reader.observed \cup ToSet(Raw) /\ Taken.first = reader.first
    BY <1>1, <1>5, TakenTyped
<1>6. CASE ~TooMany /\ Len(Raw) = reader.size /\ Becoming([Taken EXCEPT !.page = @ + 1])
  <2>1. /\ reader' = [f \in ReaderFields |-> reader'[f]]
        /\ reader.pc' = Taken.pc /\ reader.pass' = Taken.pass /\ reader.requests' = Taken.requests
        /\ reader.size' = Taken.size /\ reader.page' = Taken.page + 1 /\ reader.items' = Taken.items
        /\ reader.observed' = Taken.observed /\ reader.first' = Taken.first
      BY <1>5, <1>6 DEF IsReader, ReaderFields, Becoming
  <2>2. IsReader(reader')
      BY <1>5, <1>6, <2>1 DEF IsReader
  <2> QED BY <1>1, <1>5, <1>6, <2>1, <2>2, MoreLaws DEF Becoming
<1>7. CASE ~TooMany /\ Len(Raw) < reader.size /\ Accept(Taken)
  <2>1. CASE Unstable(Taken) /\ Ends("changed", Taken)
    <3>1. ASSUME Still PROVE ~Unstable(Taken)
      <4>1. IsRead /\ reader.observed \subseteq ToSet(comments) /\ (Reading(2) => reader.first = comments)
          BY <1>1, <3>1 DEF HistoryInv, StillInv
      <4>2. Taken.items = comments /\ ToSet(Raw) \subseteq ToSet(comments)
          BY <1>1, <1>5, <1>7, <4>1, TakenLaws, RawLaws
      <4> QED BY <1>1, <1>5, <1>7, <4>1, <4>2 DEF Unstable, Omits, Reading
    <3> QED BY <1>5, <1>7, <2>1, <3>1, Ending
  <2>2. CASE ~Unstable(Taken) /\ reader.pass = 1 /\ Becoming(ReadAgain(Taken))
    <3>1. /\ reader' = [f \in ReaderFields |-> reader'[f]]
          /\ reader.pc' = Taken.pc /\ reader.pass' = 2 /\ reader.requests' = Taken.requests
          /\ reader.size' = Taken.size /\ reader.page' = 1 /\ reader.items' = <<>>
          /\ reader.observed' = Taken.observed /\ reader.first' = Taken.items
        BY <1>5, <1>7, <2>2 DEF IsReader, ReaderFields, Becoming, ReadAgain
    <3>2. <<>> \in Seq(Items) /\ Len(<<>>) <= MaxItems
        BY DEF HistoryAssumption
    <3>3. IsReader(reader')
        BY <1>5, <1>7, <3>1, <3>2 DEF IsReader
    <3> QED BY <1>1, <1>5, <1>7, <2>2, <3>1, <3>3, AgainLaws DEF Reading, Becoming
  <2>3. CASE ~Unstable(Taken) /\ reader.pass = 2 /\ Ends("done", Taken)
    <3>1. IsReader(reader') /\ reader.pc' = "done" /\ reader.items' = Taken.items /\ UNCHANGED github
        BY <1>5, <1>7, <2>3, EndedTyped DEF Ends, Becoming
    <3>2. reader.items \o Raw = reader.first
        BY <1>5, <1>7, <2>3 DEF Unstable
    <3> QED BY <1>1, <1>5, <1>7, <2>3, <3>1, <3>2, DoneLaws DEF Reading
  <2> QED BY <1>1, <1>5, <1>7, <2>1, <2>2, <2>3 DEF Accept, Accepted, Ends
<1> QED BY <1>3, <1>4, <1>6, <1>7 DEF Page

LEMMA LostLaws ==
    ASSUME HistoryAssumption, HistoryInv, Exhausted \/ Lost
    PROVE  HistoryInv'
<1>1. IsReader(reader)
    BY DEF HistoryInv, HistoryTypes
<1>2. CASE Exhausted
    BY <1>1, <1>2, Ending DEF Exhausted
<1>3. CASE Lost
  <2>1. /\ reader' = [f \in ReaderFields |-> reader'[f]]
        /\ reader.pc' = "refused" /\ reader.pass' = reader.pass /\ reader.requests' = reader.requests + 1
        /\ reader.size' = reader.size /\ reader.page' = reader.page /\ reader.items' = reader.items
        /\ reader.observed' = reader.observed /\ reader.first' = reader.first
      BY <1>1, <1>3 DEF IsReader, ReaderFields, Becoming, Lost
  <2>2. reader.requests + 1 \in 0..MaxRequests
      BY <1>1, <1>3 DEF IsReader, HistoryAssumption, Asks, Lost
  <2>3. IsReader(reader')
      BY <1>1, <2>1, <2>2 DEF IsReader
  <2> QED BY <1>3, <2>1, <2>3, EndLaws DEF Lost, Becoming
<1> QED BY <1>2, <1>3

LEMMA HistoryInitInv == HistoryAssumption /\ HistoryInit => HistoryInv
<1> SUFFICES ASSUME HistoryAssumption, HistoryInit PROVE HistoryInv
    OBVIOUS
<1>1. PICK n \in 0..MaxStart : comments \in Histories(n)
    BY DEF HistoryInit
<1>2. PICK s \in [1..n -> Sizes] : comments = [i \in 1..n |-> Comment(i, 0, s[i])]
    BY <1>1 DEF Histories
<1>3. n \in Nat /\ \A i \in 1..n : Comment(i, 0, s[i]) \in Items /\ Comment(i, 0, s[i]).id = i
  <2>1. Sizes \subseteq Nat /\ MaxStart \in Nat
      BY DEF HistoryAssumption
  <2>2. n \in Nat
      BY <2>1
  <2>3. \A i \in 1..n : i \in Nat /\ s[i] \in Nat
    <3>1. \A i \in 1..n : i \in Nat /\ s[i] \in Sizes
        BY <2>2
    <3> QED BY <2>1, <3>1
  <2> QED BY <2>2, <2>3 DEF Comment, Items
<1>4. /\ comments \in Seq(Items) /\ Len(comments) = n /\ DOMAIN comments = 1..n
      /\ \A i \in DOMAIN comments : comments[i].id = i
    BY <1>2, <1>3
<1>5. /\ IsReader(reader) /\ reader.pc = "reading" /\ reader.pass = 1 /\ reader.page = 1
      /\ reader.items = <<>> /\ reader.observed = {} /\ reader.size \in Nat \ {0}
  <2>1. /\ reader = [f \in ReaderFields |-> reader[f]] /\ reader.pc = "reading" /\ reader.pass = 1
        /\ reader.size = PageSize /\ reader.page = 1 /\ reader.items = <<>> /\ reader.observed = {}
        /\ reader.first = <<>> /\ reader.requests = 0
      BY DEF HistoryInit, Begun, ReaderFields
  <2>2. <<>> \in Seq(Items) /\ Len(<<>>) <= MaxItems /\ PageSize \in 1..PageSize /\ 0 \in 0..MaxRequests
      BY DEF HistoryAssumption
  <2>3. {} \in SUBSET Items /\ 1 \in Nat \ {0} /\ PageSize \in Nat \ {0}
      BY DEF HistoryAssumption
  <2>4. IsReader(reader)
      BY <2>1, <2>2, <2>3 DEF IsReader
  <2> QED BY <2>1, <2>3, <2>4
<1>6. HistoryTypes
    BY <1>3, <1>4, <1>5 DEF HistoryTypes, HistoryInit
<1>7. MomentsInv
    BY <1>4, FS_Singleton DEF MomentsInv, HistoryInit
<1>8. IsRead
  <2>1. Read = 0
      BY <1>5, BeforeLaws DEF Read
  <2>2. SubSeq(comments, 1, 0) = <<>> /\ Len(comments) >= 0
      BY <1>3, <1>4
  <2> QED BY <1>5, <2>1, <2>2 DEF IsRead
<1> QED BY <1>5, <1>6, <1>7, <1>8
        DEF HistoryInv, FirstInv, SecondInv, StillInv, HistoryIsOneMoment, Reading

LEMMA HistoryNextInv == HistoryAssumption /\ HistoryInv /\ [HistoryNext]_historyVars => HistoryInv'
<1> SUFFICES ASSUME HistoryAssumption, HistoryInv, [HistoryNext]_historyVars PROVE HistoryInv'
    OBVIOUS
<1>1. CASE AddComment \/ ReviseComment \/ RemoveComment
    BY <1>1, ChangeLaws
<1>2. CASE TooLarge
    BY <1>2, TooLargeLaws
<1>3. CASE Page
    BY <1>3, PageStepLaws
<1>4. CASE Exhausted \/ Lost
    BY <1>4, LostLaws
<1>5. CASE UNCHANGED historyVars
    BY <1>5 DEF historyVars, HistoryInv, HistoryTypes, MomentsInv, FirstInv, SecondInv, StillInv,
        Still,
        HistoryIsOneMoment, Reading, IsRead, Read, Preceding, Gone, PageFits, PageOf
<1> QED BY <1>1, <1>2, <1>3, <1>4, <1>5 DEF HistoryNext

LEMMA HistoryInvIsWhole == HistoryInv => HistoryIsWhole
<1> SUFFICES ASSUME HistoryInv PROVE HistoryIsWhole
    OBVIOUS
<1>1. ASSUME reader.pc = "changed" PROVE Cardinality(moments) > 1
  <2>1. ~Still /\ comments \in moments /\ IsFiniteSet(moments)
      BY <1>1 DEF HistoryInv, StillInv, MomentsInv
  <2>2. Cardinality(moments) \in Nat
      BY <2>1, FS_CardinalityType
  <2>3. Cardinality(moments) # 0
      BY <2>1, FS_EmptySet
  <2>4. Cardinality(moments) # 1
      BY <2>1, FS_Singleton DEF Still
  <2> QED BY <2>2, <2>3, <2>4
<1> QED BY <1>1 DEF HistoryInv, HistoryIsWhole, BlamesAChange

LEMMA HistoryInvariance == ASSUME HistoryAssumption PROVE HistorySpec => []HistoryInv
<1>1. HistoryInit => HistoryInv
    BY HistoryInitInv
<1>2. HistoryInv /\ [HistoryNext]_historyVars => HistoryInv'
    BY HistoryNextInv
<1> QED BY <1>1, <1>2, PTL DEF HistorySpec

(* A history that is returned is one the pull request had at one moment of *)
(* the reading, and only a real change is reported as one, whatever the    *)
(* page size, the budgets and the comments (lineage_history).              *)
THEOREM HistoryReadWhole == ASSUME HistoryAssumption PROVE HistorySpec => []HistoryIsWhole
<1>1. HistorySpec => []HistoryInv
    BY HistoryInvariance
<1> QED BY <1>1, HistoryInvIsWhole, PTL

(* The comments stay in the order of their ids, and a reading keeps to its *)
(* page size, its requests and the items a history may have.               *)
THEOREM HistoryTypeCorrect == ASSUME HistoryAssumption PROVE HistorySpec => []HistoryTypeOK
<1>1. HistorySpec => []HistoryInv
    BY HistoryInvariance
<1>2. HistoryInv => HistoryTypeOK
    BY DEF HistoryInv, HistoryTypes, IsReader, HistoryTypeOK
<1> QED BY <1>1, <1>2, PTL

(***************************************************************************)
(* A green commit is earned, for any number of lanes, gate runs, audits    *)
(* and pushes.  The pieces a gate run reads at different moments are tied  *)
(* to one moment by the histories: verdicts and events are only appended,  *)
(* so what a run takes from the first n verdicts was so when the n-th was  *)
(* posted; and every head that has arrived while the owner's override      *)
(* label is there is one the owner applied it to, or that was pushed under *)
(* it.                                                                     *)
(***************************************************************************)
LaneNames == {L(l, kind) : l \in Lanes, kind \in Kinds}
Names == LaneNames \cup {AutoMerge, OverrideLabel, OwnerLabel}
RunRecs == [pc : {"none", "head", "labels", "comments", "add", "remove", "overflow", "ended"},
            head : Heads, add : Names \cup {None}, remove : SUBSET Names, labels : SUBSET Names]
GateRecs == [pc : {"none", "clear", "labels", "comments", "timeline", "pull", "runs", "post",
                   "auto", "merge", "ended"},
             trigger : {"event", "comment"}, sha : Heads, labels : SUBSET Names, seen : Nat,
             events : Nat, sticky : BOOLEAN, state : {"none", "pending", "failure", "success"},
             tries : Nat]
AuditRecs == [lane : Lanes, head : Heads, live : BOOLEAN, verdict : {"none", "done", "blocked"}]
Events == (Moves \X Heads) \cup ({"override"} \X {"owner", "other"})

Types ==
    /\ head \in Heads /\ labels \in SUBSET Names /\ timeline \in Seq(Events)
    /\ audits \in Seq(AuditRecs) /\ verdicts \in Seq(Nat)
    /\ labeler \in [1..MaxAudits -> RunRecs] /\ clearer \in [Lanes -> RunRecs]
    /\ gate \in [Gates -> GateRecs]
    /\ status \in [Heads -> {"none", "pending", "failure", "success"}]
    /\ queued \in BOOLEAN /\ merged \in Heads \cup {None}
    /\ clean \in SUBSET Heads /\ waived \in SUBSET Heads /\ carried \in SUBSET Heads

\* A label is added under its name, a lane's clear-stale run removes its own,
\* and a labeler works on a verdict that is there.
LabelInv ==
    /\ \A k \in 1..MaxAudits : /\ labeler[k].pc # "none" => k \in 1..Len(verdicts)
                               /\ labeler[k].pc = "add" => labeler[k].add \in LaneNames
    /\ \A l \in Lanes : /\ clearer[l].pc = "add" => clearer[l].add \in LaneNames
                        /\ clearer[l].remove \subseteq {L(l, k) : k \in Kinds}

\* A verdict comment is of an audit that has reached its verdict.
VerdictInv == \A k \in 1..Len(verdicts) :
    verdicts[k] \in 1..Len(audits) /\ audits[verdicts[k]].verdict # "none"

\* A head the first n verdicts pass was passed when the n-th was posted.
Passed(h, n) == /\ \A l \in Required : Latest(l, h, n) = "done"
                /\ \A l \in Lanes : Latest(l, h, n) # "blocked"
CleanInv == \A h \in Heads, n \in 1..Len(verdicts) : Passed(h, n) => h \in clean

\* The owner's label waives the gate for the heads that came before it, and those
\* that came later while it was there were pushed under it.
Arrived(h, n) == \E i \in 1..n : timeline[i] \in Moves \X {h}
WaivedInv ==
    /\ \A m \in 1..Len(timeline) : timeline[m] = <<"override", "owner">> =>
          \A i \in 1..(m - 1) : timeline[i][1] \in Moves => timeline[i][2] \in waived
    /\ UnderOverride => Appeared \subseteq waived \cup carried
    /\ Arrived(head, Len(timeline))

\* A gate run of an event is about a head that has arrived, by the time it reads
\* the timeline in what it read; the override label it saw is not the owner's
\* unless the owner let that head through; and its success is earned.
LetThrough(h) == h \in waived \cup carried
EventOk(p) ==
    /\ p.pc \notin {"none", "ended"} => Arrived(p.sha, Len(timeline))
    /\ p.pc \in {"comments", "timeline"} /\ Overridden(p) /\ OwnerApplied(Len(timeline)) =>
          LetThrough(p.sha)
    /\ p.pc \in {"pull", "runs"} => Arrived(p.sha, p.events)
    /\ p.pc \in {"pull", "runs"} /\ Overridden(p) /\ OwnerApplied(p.events) => LetThrough(p.sha)
RunOk(p) ==
    /\ p.seen <= Len(verdicts) /\ p.events <= Len(timeline) /\ p.tries <= MaxAttempts
    /\ p.trigger = "comment" => "comment" \in Triggers
    /\ p.trigger = "event" => EventOk(p)
    /\ p.state = "success" => p.pc \in {"post", "auto", "merge"}
    /\ p.state = "success" => p.sha \in clean \/ Waived(p.sha)
GateOk(g) == RunOk(gate[g])
GateInv == \A g \in Gates : GateOk(g)

Inv == Types /\ LabelInv /\ VerdictInv /\ CleanInv /\ WaivedInv /\ GateInv /\ GreenIsEarned
-----------------------------------------------------------------------------
\* A set of positions has a last one.
LEMMA MaxIsLast ==
    ASSUME NEW n \in Nat, NEW S, S \subseteq 1..n, S # {}
    PROVE  Max(S) \in S /\ \A k \in S : k <= Max(S)
<1> DEFINE R == OpToRel(<, Nat)
           Left == {n - k : k \in S}
<1>1. Left \subseteq Nat /\ Left # {}
  <2>1. \A k \in S : n - k \in Nat
    OBVIOUS
  <2> QED
    BY <2>1
<1>2. \E x \in Left : \A y \in Left : ~ (<<y, x>> \in R)
  BY <1>1, NatLessThanWellFounded, WFMin
<1>3. PICK x \in Left : \A y \in Left : ~ (<<y, x>> \in R)
  BY <1>2
<1>4. \A y \in Left : ~(y < x)
  BY <1>1, <1>3 DEF OpToRel
<1>5. PICK k \in S : x = n - k
  OBVIOUS
<1>6. \A j \in S : k >= j
  <2> SUFFICES ASSUME NEW j \in S PROVE k >= j
    OBVIOUS
  <2>1. n - j \in Left /\ ~(n - j < n - k)
    BY <1>4, <1>5
  <2> QED
    BY <2>1
<1>7. Max(S) \in S /\ \A j \in S : Max(S) >= j
  BY <1>6 DEF Max
<1> QED
  BY <1>7
-----------------------------------------------------------------------------
(* The types of what the steps write.                                      *)

LEMMA Bounds ==
    ASSUME GateAssumption
    PROVE  /\ MaxHead \in Nat /\ MaxAudits \in Nat /\ MaxAttempts \in Nat /\ None \notin Heads
           /\ 0 \in Heads /\ Triggers \subseteq {"event", "comment"}
BY DEF GateAssumption, Heads

\* Labels of a lane are not the override label; only people put that one there.
LEMMA NameFacts ==
    /\ OverrideLabel \in Names /\ OwnerLabel \in Names /\ AutoMerge \in Names
    /\ \A l \in Lanes, kind \in Kinds : L(l, kind) \in LaneNames /\ L(l, kind) \in Names
    /\ "needs" \in Kinds /\ "done" \in Kinds /\ "blocked" \in Kinds
    /\ OverrideLabel \notin LaneNames /\ OverrideLabel # OwnerLabel
BY DEF Names, LaneNames, Kinds, L, OverrideLabel, OwnerLabel, AutoMerge
Unraised == OverrideLabel \in labels' => OverrideLabel \in labels

\* The runs that work on labels: a step of one that adds or removes a label.
LEMMA AppliesTyped ==
    ASSUME GateAssumption, NEW p \in RunRecs, p.pc = "add" => p.add \in LaneNames,
           labels \in SUBSET Names,
           NEW q \in {Added(p)} \cup {Removed(p, x) : x \in p.remove}, Applies(p, q)
    PROVE  /\ q \in RunRecs /\ labels' \in SUBSET Names /\ Unraised
           /\ q.pc # "add" /\ p.pc # "none" /\ q.remove \subseteq p.remove
<1>1. /\ Ended \in RunRecs /\ Ended.pc = "ended" /\ Ended.remove = {}
  BY Bounds DEF Ended, Resting, RunRecs
<1> QED
  BY <1>1, NameFacts DEF Applies, Add, Added, Removed, RunRecs, Unraised, Names

LEMMA GateTyped ==
    ASSUME Types, NEW g \in Gates, NEW p \in GateRecs, GateGoes(g, p)
    PROVE  /\ gate' \in [Gates -> GateRecs] /\ gate'[g] = p
           /\ \A f \in Gates \ {g} : gate'[f] = gate[f]
BY DEF Types, GateGoes

LEMMA GateFields ==
    ASSUME GateAssumption, Types, NEW g \in Gates
    PROVE  /\ gate[g] \in GateRecs /\ GateEnded \in GateRecs
           /\ gate[g].sha \in Heads /\ gate[g].seen \in Nat /\ gate[g].events \in Nat
           /\ gate[g].tries \in Nat /\ GateEnded.pc = "ended" /\ GateEnded.state = "none"
           /\ GateEnded.tries = 0 /\ GateEnded.seen = 0 /\ GateEnded.events = 0
           /\ GateEnded.trigger = "event"
<1> QED
  BY Bounds DEF Types, GateRecs, GateEnded, NewGate

\* An audit keeps its lane and head for good, and its verdict once it has one.
AuditRuns == UNCHANGED verdicts /\ \A k \in 1..Len(verdicts) :
    /\ verdicts[k] \in 1..Len(audits')
    /\ audits'[verdicts[k]].lane = audits[verdicts[k]].lane
    /\ audits'[verdicts[k]].head = audits[verdicts[k]].head
    /\ audits'[verdicts[k]].verdict = audits[verdicts[k]].verdict

LEMMA AuditTyped ==
    ASSUME Types, NEW l \in Lanes, StartAudit(l)
    PROVE  audits' \in Seq(AuditRecs) /\ (VerdictInv => AuditRuns)
<1> DEFINE a == [lane |-> l, head |-> head, live |-> TRUE, verdict |-> "none"]
<1>1. a \in AuditRecs
  BY DEF AuditRecs, Types
<1>2. audits' = Append(audits, a) /\ audits \in Seq(AuditRecs) /\ UNCHANGED verdicts
  BY DEF StartAudit, Types
<1> HIDE DEF a
<1>3. /\ audits' \in Seq(AuditRecs) /\ Len(audits') = Len(audits) + 1 /\ Len(audits) \in Nat
      /\ \A i \in 1..Len(audits) : audits'[i] = audits[i]
  BY <1>1, <1>2, AppendProperties
<1> QED
  BY <1>2, <1>3 DEF VerdictInv, AuditRuns

LEMMA EndAuditTyped ==
    ASSUME Types, NEW a \in DOMAIN audits, EndAudit(a)
    PROVE  audits' \in Seq(AuditRecs) /\ (VerdictInv => AuditRuns)
<1>1. /\ audits \in Seq(AuditRecs) /\ a \in 1..Len(audits) /\ audits[a] \in AuditRecs
      /\ UNCHANGED verdicts
  BY DEF Types, EndAudit
<1> DEFINE e == [audits[a] EXCEPT !.live = FALSE]
<1>2. /\ e \in AuditRecs /\ e.lane = audits[a].lane /\ e.head = audits[a].head
      /\ e.verdict = audits[a].verdict
  BY <1>1 DEF AuditRecs
<1>3. audits' = [audits EXCEPT ![a] = e]
  BY DEF EndAudit
<1> HIDE DEF e
<1>4. /\ audits' \in Seq(AuditRecs) /\ Len(audits') = Len(audits)
      /\ \A i \in 1..Len(audits) : audits'[i] = IF i = a THEN e ELSE audits[i]
  BY <1>1, <1>2, <1>3, ExceptSeq
<1> QED
  BY <1>1, <1>2, <1>4 DEF VerdictInv, AuditRuns

LEMMA PostTyped ==
    ASSUME Types, VerdictInv, NEW a \in DOMAIN audits, PostVerdict(a)
    PROVE  /\ audits' \in Seq(AuditRecs) /\ verdicts' \in Seq(Nat)
           /\ Len(verdicts') = Len(verdicts) + 1 /\ verdicts'[Len(verdicts) + 1] = a
           /\ Len(audits') = Len(audits) /\ a \in 1..Len(audits)
           /\ audits'[a].verdict \in {"done", "blocked"}
           /\ \A k \in 1..Len(verdicts) : /\ verdicts'[k] = verdicts[k]
                                          /\ audits'[verdicts[k]] = audits[verdicts[k]]
<1>1. audits \in Seq(AuditRecs) /\ a \in 1..Len(audits) /\ audits[a] \in AuditRecs
  BY DEF Types
<1>2. PICK v \in {"done", "blocked"} : audits' = [audits EXCEPT ![a] = [audits[a] EXCEPT !.verdict = v]]
  BY DEF PostVerdict
<1> DEFINE e == [audits[a] EXCEPT !.verdict = v]
<1>3. e \in AuditRecs /\ e.verdict = v
  BY <1>1 DEF AuditRecs
<1>4. audits' = [audits EXCEPT ![a] = e]
  BY <1>2
<1> HIDE DEF e
<1>5. /\ audits' \in Seq(AuditRecs) /\ Len(audits') = Len(audits)
      /\ \A i \in 1..Len(audits) : audits'[i] = IF i = a THEN e ELSE audits[i]
  BY <1>1, <1>3, <1>4, ExceptSeq
<1>6. verdicts \in Seq(Nat) /\ a \in Nat /\ verdicts' = Append(verdicts, a)
  BY <1>1 DEF Types, PostVerdict
<1>7. /\ verdicts' \in Seq(Nat) /\ Len(verdicts') = Len(verdicts) + 1
      /\ \A i \in 1..Len(verdicts) : verdicts'[i] = verdicts[i]
      /\ verdicts'[Len(verdicts) + 1] = a
  BY <1>6, AppendProperties
<1>8. \A k \in 1..Len(verdicts) : verdicts[k] \in 1..Len(audits) /\ verdicts[k] # a
  BY DEF VerdictInv, PostVerdict
<1> QED
  BY <1>1, <1>3, <1>5, <1>7, <1>8
-----------------------------------------------------------------------------
(* What the histories keep.                                                *)

\* What was read of the first n verdicts stays so.
LEMMA LatestKept ==
    ASSUME Types, VerdictInv, NEW n \in 0..Len(verdicts), NEW l, NEW h,
           \A k \in 1..Len(verdicts) :
              /\ verdicts'[k] = verdicts[k]
              /\ audits'[verdicts[k]].lane = audits[verdicts[k]].lane
              /\ audits'[verdicts[k]].head = audits[verdicts[k]].head
              /\ audits'[verdicts[k]].verdict = audits[verdicts[k]].verdict
    PROVE  Latest(l, h, n)' = Latest(l, h, n)
<1>0. n \in Nat /\ 1..n \subseteq 1..Len(verdicts)
  BY DEF Types
<1>1. About(l, h, n)' = About(l, h, n)
  BY <1>0 DEF About
<1>2. CASE About(l, h, n) = {}
  BY <1>1, <1>2 DEF Latest
<1>3. CASE About(l, h, n) # {}
  <2>1. Max(About(l, h, n)) \in 1..n
    BY <1>0, <1>3, MaxIsLast DEF About
  <2> QED
    BY <1>0, <1>1, <1>3, <2>1 DEF Latest
<1> QED
  BY <1>2, <1>3

\* The histories only grow, and nothing that was granted is taken back.
Grow == /\ Len(timeline) <= Len(timeline')
        /\ \A i \in 1..Len(timeline) : timeline'[i] = timeline[i]
        /\ Len(verdicts) <= Len(verdicts')
        /\ clean \subseteq clean' /\ waived \subseteq waived' /\ carried \subseteq carried'
        /\ OwnerApplied(Len(timeline))' =>
              OwnerApplied(Len(timeline)) \/ Appeared \subseteq waived'

\* Who applied the label last in what was read, and whom it let through, stays so.
LEMMA OwnerKept ==
    ASSUME NEW n \in Nat, \A i \in 1..n : timeline'[i] = timeline[i]
    PROVE  OwnerApplied(n)' = OwnerApplied(n)
<1>1. Applied(n)' = Applied(n)
  BY DEF Applied
<1>2. Applied(n) # {} => Max(Applied(n)) \in 1..n
  BY MaxIsLast DEF Applied
<1>3. OwnerApplied(n)' = (Applied(n) # {} /\ timeline'[Max(Applied(n))][2] = "owner")
  BY <1>1 DEF OwnerApplied
<1>4. Applied(n) # {} => timeline'[Max(Applied(n))] = timeline[Max(Applied(n))]
  BY <1>2
<1> QED
  BY <1>3, <1>4 DEF OwnerApplied

LEMMA WaivedKept ==
    ASSUME Types, Types', Grow, NEW h, Waived(h)
    PROVE  Waived(h)'
<1>1. /\ Len(timeline) \in Nat /\ Len(timeline') \in Nat
      /\ DOMAIN timeline = 1..Len(timeline) /\ DOMAIN timeline' = 1..Len(timeline')
  BY DEF Types
<1>2. \A e : (\E i \in DOMAIN timeline : timeline[i] = e) =>
             \E i \in DOMAIN timeline' : timeline'[i] = e
  BY <1>1 DEF Grow
<1> QED
  BY <1>2 DEF Waived, Grow

\* A head that has arrived is one that appeared.
LEMMA ArrivedAppeared ==
    ASSUME Types, NEW h, Arrived(h, Len(timeline))
    PROVE  h \in Appeared
<1>1. PICK i \in 1..Len(timeline) : timeline[i] \in Moves \X {h}
  BY DEF Arrived
<1>2. i \in DOMAIN timeline /\ timeline[i][1] \in Moves /\ timeline[i][2] = h
  BY <1>1 DEF Types
<1> QED
  BY <1>2 DEF Appeared

LEMMA GateKept ==
    ASSUME GateAssumption, Types, Types', Grow, NEW g \in Gates, GateOk(g), gate'[g] = gate[g]
    PROVE  GateOk(g)'
<1> DEFINE p == gate[g]
<1>1. /\ Len(timeline) \in Nat /\ Len(timeline') \in Nat /\ Len(verdicts) \in Nat
      /\ Len(verdicts') \in Nat /\ p.seen \in Nat /\ p.events \in Nat /\ RunOk(p)
  BY GateFields DEF Types, GateOk
<1>2. /\ p.seen <= Len(verdicts') /\ p.events <= Len(timeline')
      /\ p.events <= Len(timeline) /\ p.tries <= MaxAttempts
  BY <1>1 DEF RunOk, Grow
<1>3. \A h : Arrived(h, Len(timeline)) => Arrived(h, Len(timeline))'
  BY <1>1 DEF Arrived, Grow
<1>4. \A i \in 1..p.events : timeline'[i] = timeline[i]
  BY <1>1, <1>2 DEF Grow
<1>5. gate'[g] = p
  OBVIOUS
<1> HIDE DEF p
<1>6. Arrived(p.sha, p.events) => \E i \in 1..p.events : timeline'[i] \in Moves \X {p.sha}
  BY <1>4 DEF Arrived
<1>7. ASSUME NEW m \in Nat, m = p.events PROVE OwnerApplied(m)' = OwnerApplied(m)
  BY <1>4, <1>7, OwnerKept
<1>8. \A h : LetThrough(h) => LetThrough(h)'
  BY DEF LetThrough, Grow
<1>9. p.trigger = "event" => EventOk(gate[g])'
  <2> SUFFICES ASSUME p.trigger = "event" PROVE EventOk(gate[g])'
    OBVIOUS
  <2>1. EventOk(p)
    BY <1>1 DEF RunOk
  <2>2. p.pc \in {"comments", "timeline"} /\ Overridden(p) /\ OwnerApplied(Len(timeline))' =>
           LetThrough(p.sha) \/ p.sha \in waived'
    <3>1. p.pc \notin {"none", "ended"} => p.sha \in Appeared
      BY <2>1, ArrivedAppeared DEF EventOk
    <3> QED
      BY <2>1, <3>1 DEF EventOk, Grow
  <2>3. PICK m \in Nat : m = p.events
    BY <1>1
  <2>4. OwnerApplied(m)' = OwnerApplied(m)
    BY <1>7, <2>3
  <2>5. OwnerApplied(gate[g].events)' = OwnerApplied(m)'
    BY <1>5, <2>3 DEF OwnerApplied, Applied
  <2>6. OwnerApplied(p.events) = OwnerApplied(m)
    BY <2>3
  <2>7. Overridden(gate[g])' = Overridden(p)
    BY <1>5 DEF Overridden
  <2>8. Arrived(gate[g].sha, Len(timeline))' = (\E i \in 1..Len(timeline') : timeline'[i] \in Moves \X {p.sha})
    BY <1>5 DEF Arrived
  <2>9. Arrived(p.sha, Len(timeline)) => \E i \in 1..Len(timeline') : timeline'[i] \in Moves \X {p.sha}
    BY <1>1 DEF Arrived, Grow
  <2>10. Arrived(gate[g].sha, gate[g].events)' = (\E i \in 1..p.events : timeline'[i] \in Moves \X {p.sha})
    BY <1>5 DEF Arrived
  <2>11. LetThrough(gate[g].sha)' = (p.sha \in waived' \cup carried')
    BY <1>5 DEF LetThrough
  <2>12. LetThrough(p.sha) => p.sha \in waived' \cup carried'
    BY DEF LetThrough, Grow
  <2> QED
    BY <1>5, <1>6, <2>1, <2>2, <2>4, <2>5, <2>6, <2>7, <2>8, <2>9, <2>10, <2>11, <2>12 DEF EventOk
<1>10. p.sha \in clean \/ Waived(p.sha) => (gate[g].sha \in clean \/ Waived(gate[g].sha))'
  <2>1. PICK h : h = p.sha
    OBVIOUS
  <2>2. Waived(h) => Waived(h)'
    BY WaivedKept
  <2>3. Waived(gate[g].sha)' = Waived(h)'
    BY <1>5, <2>1 DEF Waived
  <2> QED
    BY <1>5, <2>1, <2>2, <2>3 DEF Grow
<1> QED
  BY <1>1, <1>2, <1>5, <1>9, <1>10 DEF GateOk, RunOk

\* A step beside the gate that posts no verdict and adds no event.
Beside2 == /\ AuditRuns /\ Unraised
           /\ UNCHANGED <<head, timeline, gate, status, merged, clean, waived, carried>>

LEMMA BesideStep ==
    ASSUME GateAssumption, Inv, Types', LabelInv', Beside2
    PROVE  Inv'
<1>0. Types /\ VerdictInv /\ GateInv /\ AuditRuns
  BY DEF Inv, Beside2
<1>1. VerdictInv'
  BY <1>0 DEF VerdictInv, AuditRuns
<1>2. CleanInv'
  <2> SUFFICES ASSUME NEW h \in Heads, NEW n \in 1..Len(verdicts'), Passed(h, n)'
               PROVE  h \in clean'
    BY DEF CleanInv
  <2>1. n \in 1..Len(verdicts) /\ n \in 0..Len(verdicts)
    BY <1>0 DEF AuditRuns, Types
  <2>2. \A l : Latest(l, h, n)' = Latest(l, h, n)
    BY <1>0, <2>1, LatestKept DEF AuditRuns
  <2>3. Passed(h, n)
    BY <2>2 DEF Passed
  <2> QED
    BY <2>1, <2>3 DEF Inv, CleanInv, Beside2
<1>3. WaivedInv'
  BY <1>0 DEF Inv, WaivedInv, Beside2, Unraised, UnderOverride, OwnerApplied, Applied, Appeared, Arrived
<1>4. GateInv'
  <2>1. Grow
    BY <1>0 DEF Grow, Beside2, AuditRuns, Types, OwnerApplied, Applied
  <2> QED
    BY <1>0, <2>1, GateKept DEF GateInv, Beside2
<1>5. GreenIsEarned'
  BY DEF Inv, GreenIsEarned, Beside2, Waived
<1> QED
  BY <1>1, <1>2, <1>3, <1>4, <1>5 DEF Inv

\* The verdict just posted is what CleanWith looks at.
LEMMA PostStep ==
    ASSUME GateAssumption, Inv, Types', LabelInv', NEW a \in DOMAIN audits, PostVerdict(a)
    PROVE  Inv'
<1>0. Types /\ VerdictInv /\ GateInv
  BY DEF Inv
<1>1. /\ Len(verdicts') = Len(verdicts) + 1 /\ verdicts'[Len(verdicts) + 1] = a
      /\ Len(audits') = Len(audits) /\ a \in 1..Len(audits)
      /\ audits'[a].verdict \in {"done", "blocked"}
      /\ \A k \in 1..Len(verdicts) : /\ verdicts'[k] = verdicts[k]
                                     /\ audits'[verdicts[k]] = audits[verdicts[k]]
      /\ Len(verdicts) \in Nat
  BY <1>0, PostTyped DEF Types
<1>2. /\ UNCHANGED <<head, labels, timeline, gate, status, merged, waived, carried>>
      /\ clean' = clean \cup {h \in Heads : CleanWith(verdicts', audits', h)}
  BY DEF PostVerdict, merge
<1>3. VerdictInv'
  BY <1>0, <1>1 DEF VerdictInv
<1>4. CleanInv'
  <2> SUFFICES ASSUME NEW h \in Heads, NEW n \in 1..Len(verdicts'), Passed(h, n)'
               PROVE  h \in clean'
    BY DEF CleanInv
  <2>1. CASE n = Len(verdicts')
    <3>1. DOMAIN verdicts' = 1..n
      BY <2>1 DEF Types
    <3>2. CleanWith(verdicts', audits', h)
      BY <3>1 DEF CleanWith, Passed, Latest, About
    <3> QED
      BY <1>2, <3>2
  <2>2. CASE n # Len(verdicts')
    <3>1. n \in 1..Len(verdicts) /\ n \in 0..Len(verdicts)
      BY <1>1, <2>2
    <3>2. \A l : Latest(l, h, n)' = Latest(l, h, n)
      BY <1>0, <1>1, <3>1, LatestKept
    <3>3. Passed(h, n)
      BY <3>2 DEF Passed
    <3> QED
      BY <1>2, <3>1, <3>3 DEF Inv, CleanInv
  <2> QED
    BY <2>1, <2>2
<1>5. WaivedInv'
  BY <1>2 DEF Inv, WaivedInv, UnderOverride, OwnerApplied, Applied, Appeared, Arrived
<1>6. GateInv'
  <2>1. Grow
    BY <1>0, <1>1, <1>2 DEF Grow, Types, OwnerApplied, Applied
  <2> QED
    BY <1>0, <1>2, <2>1, GateKept DEF GateInv
<1>7. GreenIsEarned'
  BY <1>2 DEF Inv, GreenIsEarned, Waived
<1> QED
  BY <1>3, <1>4, <1>5, <1>6, <1>7 DEF Inv
-----------------------------------------------------------------------------
(* The gate.                                                               *)

Unmoved == Unraised /\ UNCHANGED <<head, timeline, audits, verdicts, clean, waived, carried>>

LEMMA GateStep ==
    ASSUME GateAssumption, Inv, Types', LabelInv', NEW g \in Gates, Unmoved,
           \A f \in Gates \ {g} : gate'[f] = gate[f], GateOk(g)', GreenIsEarned'
    PROVE  Inv'
<1>0. Types /\ VerdictInv /\ GateInv
  BY DEF Inv
<1>1. VerdictInv'
  BY <1>0 DEF VerdictInv, Unmoved
<1>2. CleanInv'
  <2>1. \A l, h, n : Latest(l, h, n)' = Latest(l, h, n)
    BY DEF Latest, About, Unmoved
  <2>2. \A h, n : Passed(h, n)' <=> Passed(h, n)
    BY <2>1 DEF Passed
  <2> QED
    BY <2>2 DEF Inv, CleanInv, Unmoved
<1>3. WaivedInv'
  BY <1>0 DEF Inv, WaivedInv, Unmoved, Unraised, UnderOverride, OwnerApplied, Applied, Appeared, Arrived
<1>4. GateInv'
  <2>1. Grow
    BY <1>0 DEF Grow, Unmoved, Types, OwnerApplied, Applied
  <2> QED
    BY <1>0, <2>1, GateKept DEF GateInv
<1> QED
  BY <1>1, <1>2, <1>3, <1>4 DEF Inv

\* A run that decided, and what it decided on.
LEMMA DecidesEarned ==
    ASSUME GateAssumption, Inv,
           NEW g \in Gates, gate[g].pc = "runs", Verdicted(gate[g]) = "success"
    PROVE  gate[g].sha \in clean \/ Waived(gate[g].sha)
<1> DEFINE p == gate[g]
<1>0. /\ Types /\ VerdictInv /\ CleanInv /\ WaivedInv /\ RunOk(p)
      /\ p.sha \in Heads /\ p.seen \in Nat /\ p.events \in Nat /\ p \in GateRecs
      /\ Len(timeline) \in Nat /\ DOMAIN timeline = 1..Len(timeline)
  BY GateFields DEF Inv, GateInv, GateOk, Types
<1>1. CASE Overridden(p)
  <2>1. OwnerApplied(p.events) /\ AfterHead(p)
    BY <1>1 DEF Verdicted
  <2>2. /\ Applied(p.events) \subseteq 1..p.events /\ Applied(p.events) # {}
        /\ 1..p.events \subseteq 1..Len(timeline)
    BY <1>0, <2>1 DEF OwnerApplied, Applied, RunOk
  <2> DEFINE m == Max(Applied(p.events))
             i == Max(Arrivals(p))
  <2>3. m \in Applied(p.events)
    BY <1>0, <2>2, MaxIsLast
  <2>4. /\ m \in 1..Len(timeline) /\ timeline[m][1] = "override" /\ timeline[m][2] = "owner"
        /\ timeline[m] \in Events
    BY <1>0, <2>1, <2>2, <2>3 DEF Applied, OwnerApplied, Types
  <2>5. timeline[m] = <<"override", "owner">>
    BY <2>4 DEF Events, Moves
  <2>6. \E j \in DOMAIN timeline : timeline[j] = <<"override", "owner">>
    BY <1>0, <2>4, <2>5
  <2>7. CASE "comment" \in Triggers
    BY <2>6, <2>7 DEF Waived
  <2>8. CASE "comment" \notin Triggers
    <3>1. EventOk(p)
      BY <1>0, <2>8 DEF RunOk, GateRecs
    <3>2. p.sha \in waived \cup carried /\ Arrived(p.sha, p.events)
      BY <1>1, <2>1, <3>1 DEF EventOk, LetThrough
    <3>3. Arrivals(p) \subseteq 1..p.events /\ Arrivals(p) # {}
      BY <3>2 DEF Arrivals, Arrived
    <3>4. i \in Arrivals(p)
      BY <1>0, <3>3, MaxIsLast
    <3>5. i \in 1..Len(timeline) /\ timeline[i] \in Moves \X {p.sha}
      BY <2>2, <3>3, <3>4 DEF Arrivals
    <3>6. timeline[i][1] \in Moves /\ timeline[i] = <<timeline[i][1], p.sha>>
      BY <3>5
    <3>7. CASE Timed(i)
      <4>1. i < m
        BY <2>1, <3>3, <3>7 DEF AfterHead
      <4>2. i \in 1..(m - 1)
        BY <1>0, <2>4, <3>5, <4>1
      <4>3. p.sha \in waived
        BY <1>0, <2>4, <2>5, <3>6, <4>2 DEF WaivedInv
      <4> QED
        BY <2>6, <4>3 DEF Waived
    <3>8. CASE ~Timed(i)
      <4>1. timeline[i] = <<"committed", p.sha>>
        BY <3>6, <3>8 DEF Timed
      <4> QED
        BY <1>0, <2>6, <3>2, <3>5, <4>1 DEF Waived
    <3> QED
      BY <3>7, <3>8
  <2> QED
    BY <2>7, <2>8
<1>2. CASE ~Overridden(p)
  <2>1. /\ ~Blocked(p) /\ Required # {}
        /\ \A l \in Required : ~Missing(p, l)
    BY <1>2 DEF Verdicted
  <2>2. Passed(p.sha, p.seen)
    BY <2>1 DEF Passed, Blocked, Missing
  <2>3. ASSUME p.seen = 0 PROVE FALSE
    <3>1. PICK l \in Required : Latest(l, p.sha, 0) = "done"
      BY <2>1, <2>2, <2>3 DEF Passed
    <3>2. About(l, p.sha, 0) = {}
      BY DEF About
    <3> QED
      BY <3>1, <3>2 DEF Latest
  <2>4. p.seen \in 1..Len(verdicts)
    BY <1>0, <2>3 DEF RunOk, Types
  <2> QED
    BY <1>0, <2>2, <2>4 DEF CleanInv
<1> QED
  BY <1>1, <1>2

\* What a run reads, and decides, changes nothing but the run.
LEMMA ReadsSteps ==
    ASSUME GateAssumption, Inv, Types', LabelInv', NEW g \in Gates, NEW STATE p, p \in GateRecs,
           GateGoes(g, p), Unmoved, UNCHANGED <<status, merged>>, RunOk(p)
    PROVE  Inv'
<1>1. gate'[g] = p /\ \A f \in Gates \ {g} : gate'[f] = gate[f]
  BY GateTyped DEF Inv
<1>2. GateOk(g)'
  <2>1. \A h : /\ Waived(h)' = Waived(h) /\ LetThrough(h)' = LetThrough(h)
               /\ \A n : Arrived(h, n)' = Arrived(h, n)
    BY DEF Unmoved, Waived, LetThrough, Arrived
  <2>2. \A n : OwnerApplied(n)' = OwnerApplied(n)
    BY DEF Unmoved, OwnerApplied, Applied
  <2> QED
    BY <1>1, <2>1, <2>2 DEF GateOk, RunOk, EventOk, Unmoved, Overridden, Waived, LetThrough, Arrived,
                            OwnerApplied, Applied
<1>3. GreenIsEarned'
  BY DEF Inv, GreenIsEarned, Unmoved, Waived
<1> QED
  BY <1>1, <1>2, <1>3, GateStep

\* A run goes through its steps.
LEMMA GateSteps ==
    ASSUME GateAssumption, Inv, Types', LabelInv', NEW g \in Gates, Gate(g)
    PROVE  Inv'
<1> DEFINE k == gate[g]
<1>0. /\ Types /\ RunOk(k) /\ WaivedInv /\ k \in GateRecs /\ k.sha \in Heads /\ head \in Heads
      /\ Arrived(head, Len(timeline)) /\ Len(timeline) \in Nat /\ Len(verdicts) \in Nat
      /\ k.seen \in Nat /\ k.events \in Nat /\ k.tries \in Nat /\ labels \in SUBSET Names
  <2>1. Types /\ RunOk(k) /\ WaivedInv
    BY DEF Inv, GateInv, GateOk
  <2>2. Arrived(head, Len(timeline))
    BY <2>1 DEF WaivedInv
  <2>3. /\ k \in GateRecs /\ k.sha \in Heads /\ k.seen \in Nat /\ k.events \in Nat /\ k.tries \in Nat
    BY <2>1, GateFields
  <2>4. /\ head \in Heads /\ labels \in SUBSET Names /\ Len(timeline) \in Nat
        /\ Len(verdicts) \in Nat
    BY <2>1 DEF Types
  <2> QED
    BY <2>1, <2>2, <2>3, <2>4
<1>1. CASE StartGate(g)
  <2>1. PICK s \in Triggers : Reads(g, [k EXCEPT !.trigger = s, !.pc = "labels", !.sha = head])
    BY <1>1 DEF StartGate
  <2> DEFINE p == [k EXCEPT !.trigger = s, !.pc = "labels", !.sha = head]
  <2>2. /\ p \in GateRecs /\ p.pc = "labels" /\ p.trigger = s /\ p.sha = head /\ p.seen = k.seen
        /\ p.events = k.events /\ p.tries = k.tries /\ p.state = k.state
    BY <1>0, Bounds DEF GateRecs
  <2>3. k.state # "success"
    BY <1>0, <1>1 DEF RunOk, StartGate
  <2>4. GateGoes(g, p) /\ Unmoved /\ UNCHANGED <<status, merged>>
    BY <2>1 DEF Reads, audit, merge, ghosts, Unmoved, Unraised
  <2> HIDE DEF p
  <2> QED
    <3>1. RunOk(p)
      BY <1>0, <2>2, <2>3 DEF RunOk, EventOk
    <3> QED
      BY <2>2, <2>4, <3>1, ReadsSteps
<1>2. CASE ClearOverride(g)
  <2>1. PICK b \in BOOLEAN : GateGoes(g, [k EXCEPT !.pc = "labels", !.sticky = b])
    <3>1. CASE GateGoes(g, [k EXCEPT !.pc = "labels"])
      <4>1. [k EXCEPT !.pc = "labels"] = [k EXCEPT !.pc = "labels", !.sticky = k.sticky]
        BY <1>0 DEF GateRecs
      <4>2. k.sticky \in BOOLEAN
        BY <1>0 DEF GateRecs
      <4> QED
        BY <3>1, <4>1, <4>2
    <3>2. CASE ~GateGoes(g, [k EXCEPT !.pc = "labels"])
      <4>1. GateGoes(g, [k EXCEPT !.pc = "labels", !.sticky = OverrideLabel \in labels])
        BY <1>2, <3>2 DEF ClearOverride, Reads
      <4>2. (OverrideLabel \in labels) \in BOOLEAN
        OBVIOUS
      <4> QED
        BY <4>1, <4>2
    <3> QED
      BY <3>1, <3>2
  <2> DEFINE p == [k EXCEPT !.pc = "labels", !.sticky = b]
  <2>2. /\ p \in GateRecs /\ p.pc = "labels" /\ p.trigger = k.trigger /\ p.sha = k.sha
        /\ p.seen = k.seen /\ p.events = k.events /\ p.tries = k.tries /\ p.state = k.state
    BY <1>0 DEF GateRecs
  <2>3. k.pc = "clear"
    BY <1>2 DEF ClearOverride
  <2>4. GateGoes(g, p) /\ Unmoved /\ UNCHANGED <<status, merged>>
    BY <1>2, <2>1 DEF ClearOverride, Reads, audit, merge, ghosts, Unmoved, Unraised
  <2> HIDE DEF p
  <2> QED
    <3>1. RunOk(p)
      BY <1>0, <2>2, <2>3 DEF RunOk, EventOk
    <3> QED
      BY <2>2, <2>4, <3>1, ReadsSteps
<1>3. CASE GateLabels(g)
  <2> DEFINE p == [k EXCEPT !.pc = "comments", !.labels = labels]
  <2>2. /\ p \in GateRecs /\ p.pc = "comments" /\ p.trigger = k.trigger /\ p.sha = k.sha
        /\ p.labels = labels /\ p.seen = k.seen /\ p.events = k.events /\ p.tries = k.tries /\ p.state = k.state
    BY <1>0 DEF GateRecs
  <2>4. /\ k.pc = "labels" /\ GateGoes(g, p)
        /\ Unmoved /\ UNCHANGED <<status, merged>>
    BY <1>3 DEF GateLabels, Reads, audit, merge, ghosts, Unmoved, Unraised
  <2> HIDE DEF p
  <2> QED
    <3>1. p.trigger = "event" => p.sha \in Appeared
      BY <1>0, <2>2, <2>4, ArrivedAppeared DEF RunOk, EventOk
    <3>2. p.trigger = "event" /\ Overridden(p) /\ OwnerApplied(Len(timeline)) => LetThrough(p.sha)
      BY <1>0, <2>2, <3>1 DEF Overridden, WaivedInv, UnderOverride, LetThrough
    <3>3. RunOk(p)
      BY <1>0, <2>2, <2>4, <3>2 DEF RunOk, EventOk
    <3> QED
      BY <2>2, <2>4, <3>3, ReadsSteps
<1>4. CASE GateComments(g)
  <2>1. \/ Reads(g, [k EXCEPT !.pc = "timeline", !.seen = Len(verdicts)])
        \/ Reads(g, [k EXCEPT !.pc = "timeline", !.state = "failure"])
    BY <1>4 DEF GateComments
  <2>2. PICK p \in {[k EXCEPT !.pc = "timeline", !.seen = Len(verdicts)],
                    [k EXCEPT !.pc = "timeline", !.state = "failure"]} : Reads(g, p)
    BY <2>1
  <2>3. /\ p \in GateRecs /\ p.pc = "timeline" /\ p.trigger = k.trigger /\ p.sha = k.sha
        /\ p.labels = k.labels /\ p.seen \in {k.seen, Len(verdicts)} /\ p.events = k.events /\ p.tries = k.tries
        /\ p.state \in {k.state, "failure"}
    BY <1>0, <2>2 DEF GateRecs
  <2>4. /\ k.pc = "comments" /\ GateGoes(g, p)
        /\ Unmoved /\ UNCHANGED <<status, merged>>
    BY <1>4, <2>2 DEF GateComments, Reads, audit, merge, ghosts, Unmoved, Unraised
  <2> QED
    <3>1. RunOk(p)
      BY <1>0, <2>3, <2>4 DEF RunOk, EventOk, Overridden
    <3> QED
      BY <2>3, <2>4, <3>1, ReadsSteps
<1>5. CASE GateTimeline(g)
  <2> DEFINE p == [k EXCEPT !.pc = "pull", !.events = Len(timeline)]
  <2>2. /\ p \in GateRecs /\ p.pc = "pull" /\ p.trigger = k.trigger /\ p.sha = k.sha
        /\ p.labels = k.labels /\ p.seen = k.seen /\ p.events = Len(timeline) /\ p.tries = k.tries /\ p.state = k.state
    BY <1>0 DEF GateRecs
  <2>4. /\ k.pc = "timeline" /\ GateGoes(g, p)
        /\ Unmoved /\ UNCHANGED <<status, merged>>
    BY <1>5 DEF GateTimeline, Reads, audit, merge, ghosts, Unmoved, Unraised
  <2> HIDE DEF p
  <2> QED
    <3>1. RunOk(p)
      BY <1>0, <2>2, <2>4 DEF RunOk, EventOk, Overridden
    <3> QED
      BY <2>2, <2>4, <3>1, ReadsSteps
<1>6. CASE GatePull(g)
  <2> DEFINE j == IF k.trigger = "comment" THEN [k EXCEPT !.sha = head] ELSE k
  <2>1. /\ j \in GateRecs /\ j.trigger = k.trigger /\ j.sha = (IF k.trigger = "comment" THEN head ELSE k.sha)
        /\ j.labels = k.labels /\ j.seen = k.seen /\ j.events = k.events /\ j.tries = k.tries /\ j.state = k.state
    BY <1>0 DEF GateRecs
  <2>2. PICK p \in {[j EXCEPT !.pc = "runs"]} \cup
                   {[j EXCEPT !.pc = "post", !.state = s] : s \in {"pending", "failure"}} :
          Reads(g, p)
    BY <1>6 DEF GatePull
  <2>3. /\ p \in GateRecs /\ p.trigger = k.trigger /\ p.sha = j.sha /\ p.seen = k.seen /\ p.labels = k.labels
        /\ p.events = k.events /\ p.tries = k.tries /\ p.pc \in {"runs", "post"}
        /\ p.state \in {k.state, "pending", "failure"}
    <3> HIDE DEF j
    <3>1. CASE p = [j EXCEPT !.pc = "runs"]
      BY <2>1, <3>1 DEF GateRecs
    <3>2. ASSUME NEW s \in {"pending", "failure"}, p = [j EXCEPT !.pc = "post", !.state = s]
          PROVE  /\ p \in GateRecs /\ p.trigger = k.trigger /\ p.sha = j.sha /\ p.seen = k.seen /\ p.labels = k.labels
                 /\ p.events = k.events /\ p.tries = k.tries /\ p.pc \in {"runs", "post"}
                 /\ p.state \in {k.state, "pending", "failure"}
      BY <2>1, <3>2 DEF GateRecs
    <3> QED
      BY <2>2, <3>1, <3>2
  <2>4. /\ k.pc = "pull" /\ GateGoes(g, p)
        /\ Unmoved /\ UNCHANGED <<status, merged>>
    BY <1>6, <2>2 DEF GatePull, Reads, audit, merge, ghosts, Unmoved, Unraised
  <2> HIDE DEF j
  <2>5. p.state # "success"
    BY <1>0, <2>3, <2>4 DEF RunOk
  <2>6. p.trigger = "event" => p.sha = k.sha
    BY <2>1, <2>3
  <2>7. RunOk(p)
    BY <1>0, <2>3, <2>4, <2>5, <2>6 DEF RunOk, EventOk, Overridden
  <2> QED
    BY <2>3, <2>4, <2>7, ReadsSteps
<1>7. CASE GateDecides(g)
  <2> DEFINE p == [k EXCEPT !.pc = "post", !.state = Verdicted(k)]
  <2>1. Verdicted(k) \in {"pending", "failure", "success"}
    BY DEF Verdicted
  <2>2. /\ p \in GateRecs /\ p.pc = "post" /\ p.trigger = k.trigger /\ p.sha = k.sha
        /\ p.seen = k.seen /\ p.events = k.events /\ p.tries = k.tries /\ p.state = Verdicted(k)
    BY <1>0, <2>1 DEF GateRecs
  <2>3. /\ k.pc = "runs" /\ GateGoes(g, p)
        /\ Unmoved /\ UNCHANGED <<status, merged>>
    BY <1>7 DEF GateDecides, Reads, audit, merge, ghosts, Unmoved, Unraised
  <2>4. p.state = "success" => p.sha \in clean \/ Waived(p.sha)
    BY <2>2, <2>3, DecidesEarned
  <2> HIDE DEF p
  <2> QED
    <3>1. RunOk(p)
      BY <1>0, <2>2, <2>3, <2>4 DEF RunOk, EventOk
    <3> QED
      BY <2>2, <2>3, <3>1, ReadsSteps
<1>8. CASE PostStatus(g)
  <2>1. /\ k.pc = "post" /\ status' = [status EXCEPT ![k.sha] = k.state] /\ UNCHANGED merged
        /\ Unmoved
        /\ GateGoes(g, IF k.state = "success" THEN [k EXCEPT !.pc = "auto"] ELSE GateEnded)
    BY <1>8 DEF PostStatus, Unmoved, Unraised, audit, ghosts
  <2>2. GreenIsEarned'
    BY <1>0, <2>1 DEF Inv, GreenIsEarned, RunOk, Unmoved, Types, Waived
  <2> DEFINE p == IF k.state = "success" THEN [k EXCEPT !.pc = "auto"] ELSE GateEnded
  <2>3. p \in GateRecs
    BY <1>0, GateFields DEF GateRecs
  <2>4. gate'[g] = p /\ \A f \in Gates \ {g} : gate'[f] = gate[f]
    BY <1>0, <2>1, <2>3, GateTyped
  <2>5. GateOk(g)'
    <3>1. CASE k.state = "success"
      <4>1. /\ p.pc = "auto" /\ p.trigger = k.trigger /\ p.sha = k.sha /\ p.seen = k.seen
            /\ p.events = k.events /\ p.tries = k.tries /\ p.state = k.state
        BY <1>0, <3>1 DEF GateRecs
      <4> HIDE DEF p
      <4> QED
        BY <1>0, <2>1, <2>4, <4>1 DEF GateOk, RunOk, EventOk, Unmoved, Arrived, Waived
    <3>2. CASE k.state # "success"
      <4>1. /\ p.pc = "ended" /\ p.trigger = "event" /\ p.seen = 0 /\ p.events = 0 /\ p.tries = 0
            /\ p.state = "none"
        BY <1>0, <3>2, GateFields
      <4> HIDE DEF p
      <4> QED
        BY <1>0, <2>1, <2>4, <4>1, Bounds DEF GateOk, RunOk, EventOk, Unmoved
    <3> QED
      BY <3>1, <3>2
  <2> QED
    BY <2>1, <2>2, <2>4, <2>5, GateStep
<1>9. CASE GateAuto(g)
  <2>1. PICK p \in {[k EXCEPT !.pc = "merge"], GateEnded} : Reads(g, p)
    BY <1>9 DEF GateAuto
  <2>2. CASE p = GateEnded
    <3>1. /\ p \in GateRecs /\ p.pc = "ended" /\ p.trigger = "event" /\ p.seen = 0 /\ p.events = 0
          /\ p.tries = 0 /\ p.state = "none" /\ GateGoes(g, p)
          /\ Unmoved /\ UNCHANGED <<status, merged>>
      BY <1>0, <2>1, <2>2, GateFields DEF Reads, audit, merge, ghosts, Unmoved, Unraised
    <3>2. RunOk(p)
      BY <1>0, <3>1, Bounds DEF RunOk, EventOk
    <3> QED
      BY <3>1, <3>2, ReadsSteps
  <2>3. CASE p = [k EXCEPT !.pc = "merge"]
    <3>1. /\ p \in GateRecs /\ p.pc = "merge" /\ p.trigger = k.trigger /\ p.sha = k.sha
          /\ p.seen = k.seen /\ p.events = k.events /\ p.tries = k.tries /\ p.state = k.state
      BY <1>0, <2>3 DEF GateRecs
    <3>2. /\ k.pc = "auto" /\ GateGoes(g, p)
          /\ Unmoved /\ UNCHANGED <<status, merged>>
      BY <1>9, <2>1 DEF GateAuto, Reads, audit, merge, ghosts, Unmoved, Unraised
    <3>3. RunOk(p)
      BY <1>0, <3>1, <3>2 DEF RunOk, EventOk
    <3> QED
      BY <3>1, <3>2, <3>3, ReadsSteps
  <2> QED
    BY <2>1, <2>2, <2>3
<1>10. CASE AskMerge(g)
  <2>1. \/ GateGoes(g, GateEnded)
        \/ k.tries + 1 < MaxAttempts /\ GateGoes(g, [k EXCEPT !.tries = @ + 1])
    BY <1>10 DEF AskMerge, Reads
  <2>2. Unmoved /\ UNCHANGED status /\ k.pc = "merge"
    BY <1>10 DEF AskMerge, Reads, Unmoved, Unraised, audit, merge, ghosts
  <2>3. merged' \in {merged} \/ (merged' = head /\ status[head] = "success")
    BY <1>10 DEF AskMerge, Reads, merge
  <2>4. GreenIsEarned'
    BY <1>0, <2>2, <2>3 DEF Inv, GreenIsEarned, Unmoved, Waived
  <2>5. CASE GateGoes(g, GateEnded)
    <3>1. gate'[g] = GateEnded /\ \A f \in Gates \ {g} : gate'[f] = gate[f]
      BY <1>0, <2>5, GateTyped, GateFields
    <3>2. GateOk(g)'
      BY <1>0, <2>2, <3>1, GateFields, Bounds DEF GateOk, RunOk, EventOk, Unmoved
    <3> QED
      BY <2>2, <2>4, <3>1, <3>2, GateStep
  <2>6. CASE k.tries + 1 < MaxAttempts /\ GateGoes(g, [k EXCEPT !.tries = @ + 1])
    <3> DEFINE p == [k EXCEPT !.tries = @ + 1]
    <3>1. /\ p \in GateRecs /\ p.pc = "merge" /\ p.trigger = k.trigger /\ p.sha = k.sha
          /\ p.seen = k.seen /\ p.events = k.events /\ p.tries = k.tries + 1 /\ p.state = k.state
      BY <1>0, <2>2 DEF GateRecs
    <3>2. gate'[g] = p /\ \A f \in Gates \ {g} : gate'[f] = gate[f]
      BY <1>0, <2>6, <3>1, GateTyped
    <3> HIDE DEF p
    <3>3. p.tries <= MaxAttempts
      BY <1>0, <2>6, <3>1, Bounds
    <3>4. GateOk(g)'
      BY <1>0, <2>2, <3>1, <3>2, <3>3 DEF GateOk, RunOk, EventOk, Unmoved, Arrived, Waived
    <3> QED
      BY <2>2, <2>4, <3>2, <3>4, GateStep
  <2> QED
    BY <2>1, <2>5, <2>6
<1> QED
  BY <1>1, <1>2, <1>3, <1>4, <1>5, <1>6, <1>7, <1>8, <1>9, <1>10 DEF Gate
-----------------------------------------------------------------------------
(* The types of every step.                                                *)

LEMMA GateGoesOn ==
    ASSUME GateAssumption, Inv, NEW g \in Gates, Gate(g)
    PROVE  \E p \in GateRecs : GateGoes(g, p)
<1> DEFINE k == gate[g]
<1>0. /\ k \in GateRecs /\ GateEnded \in GateRecs /\ head \in Heads /\ labels \in SUBSET Names
      /\ Len(timeline) \in Nat /\ Len(verdicts) \in Nat
  BY GateFields DEF Inv, Types
<1>1. CASE StartGate(g)
  <2>1. PICK s \in Triggers : GateGoes(g, [k EXCEPT !.trigger = s, !.pc = "labels", !.sha = head])
    BY <1>1 DEF StartGate, Reads
  <2>2. [k EXCEPT !.trigger = s, !.pc = "labels", !.sha = head] \in GateRecs
    BY <1>0, Bounds DEF GateRecs
  <2> QED
    BY <2>1, <2>2
<1>2. CASE ClearOverride(g)
  <2>1. [k EXCEPT !.pc = "labels"] \in GateRecs
    BY <1>0 DEF GateRecs
  <2>2. \A b \in BOOLEAN : [k EXCEPT !.pc = "labels", !.sticky = b] \in GateRecs
    BY <1>0 DEF GateRecs
  <2>3. (OverrideLabel \in labels) \in BOOLEAN
    OBVIOUS
  <2>4. [k EXCEPT !.pc = "labels", !.sticky = OverrideLabel \in labels] \in GateRecs
    BY <2>2, <2>3, Zenon
  <2>5. \/ GateGoes(g, [k EXCEPT !.pc = "labels"])
        \/ GateGoes(g, [k EXCEPT !.pc = "labels", !.sticky = OverrideLabel \in labels])
    BY <1>2, Zenon DEF ClearOverride, Reads
  <2> QED
    BY <2>1, <2>4, <2>5, Zenon
<1>3. CASE GateLabels(g)
  <2>1. [k EXCEPT !.pc = "comments", !.labels = labels] \in GateRecs
    BY <1>0 DEF GateRecs
  <2> QED
    BY <1>3, <2>1 DEF GateLabels, Reads
<1>4. CASE GateComments(g)
  <2>1. /\ [k EXCEPT !.pc = "timeline", !.seen = Len(verdicts)] \in GateRecs
        /\ [k EXCEPT !.pc = "timeline", !.state = "failure"] \in GateRecs
    BY <1>0 DEF GateRecs
  <2> QED
    BY <1>4, <2>1 DEF GateComments, Reads
<1>5. CASE GateTimeline(g)
  <2>1. [k EXCEPT !.pc = "pull", !.events = Len(timeline)] \in GateRecs
    BY <1>0 DEF GateRecs
  <2> QED
    BY <1>5, <2>1 DEF GateTimeline, Reads
<1>6. CASE GatePull(g)
  <2> DEFINE j == IF k.trigger = "comment" THEN [k EXCEPT !.sha = head] ELSE k
  <2>1. j \in GateRecs
    BY <1>0 DEF GateRecs
  <2>2. PICK p \in {[j EXCEPT !.pc = "runs"]} \cup
                   {[j EXCEPT !.pc = "post", !.state = s] : s \in {"pending", "failure"}} :
          GateGoes(g, p)
    BY <1>6 DEF GatePull, Reads
  <2> HIDE DEF j
  <2>3. [j EXCEPT !.pc = "runs"] \in GateRecs
    BY <2>1 DEF GateRecs
  <2>4. \A s \in {"pending", "failure"} : [j EXCEPT !.pc = "post", !.state = s] \in GateRecs
    BY <2>1 DEF GateRecs
  <2> QED
    BY <2>2, <2>3, <2>4
<1>7. CASE GateDecides(g)
  <2>1. Verdicted(k) \in {"pending", "failure", "success"}
    BY DEF Verdicted
  <2>2. [k EXCEPT !.pc = "post", !.state = Verdicted(k)] \in GateRecs
    BY <1>0, <2>1 DEF GateRecs
  <2> QED
    BY <1>7, <2>2 DEF GateDecides, Reads
<1>8. CASE PostStatus(g)
  <2>1. [k EXCEPT !.pc = "auto"] \in GateRecs
    BY <1>0 DEF GateRecs
  <2> QED
    BY <1>0, <1>8, <2>1 DEF PostStatus
<1>9. CASE GateAuto(g)
  <2>1. [k EXCEPT !.pc = "merge"] \in GateRecs
    BY <1>0 DEF GateRecs
  <2> QED
    BY <1>0, <1>9, <2>1 DEF GateAuto, Reads
<1>10. CASE AskMerge(g)
  <2>1. [k EXCEPT !.tries = @ + 1] \in GateRecs
    <3>1. k.tries + 1 \in Nat
      BY <1>0 DEF GateRecs
    <3> QED
      BY <1>0, <3>1 DEF GateRecs
  <2> QED
    BY <1>0, <1>10, <2>1 DEF AskMerge, Reads
<1> QED
  BY <1>1, <1>2, <1>3, <1>4, <1>5, <1>6, <1>7, <1>8, <1>9, <1>10 DEF Gate

LEMMA GateTypes ==
    ASSUME GateAssumption, Inv, NEW g \in Gates, Gate(g)
    PROVE  Types' /\ LabelInv'
<1>1. gate' \in [Gates -> GateRecs]
  BY GateGoesOn, GateTyped DEF Inv
<1>2. UNCHANGED <<head, timeline, audits, verdicts, labeler, clearer, clean, waived, carried>>
  BY DEF Gate, StartGate, ClearOverride, GateLabels, GateComments, GateTimeline, GatePull,
         GateDecides, PostStatus, GateAuto, AskMerge, Reads, audit, ghosts
<1>3. labels' \in {labels, labels \ {OverrideLabel}} /\ queued' \in {queued, TRUE}
      /\ merged' \in {merged, head}
  BY DEF Gate, StartGate, ClearOverride, GateLabels, GateComments, GateTimeline, GatePull,
         GateDecides, PostStatus, GateAuto, AskMerge, Reads, merge
<1>4. status' = status \/ status' = [status EXCEPT ![gate[g].sha] = gate[g].state]
  BY DEF Gate, StartGate, ClearOverride, GateLabels, GateComments, GateTimeline, GatePull,
         GateDecides, PostStatus, GateAuto, AskMerge, Reads, merge
<1>5. gate[g].state \in {"none", "pending", "failure", "success"}
  BY GateFields DEF Inv, GateRecs
<1>6. Types'
  BY <1>1, <1>2, <1>3, <1>4, <1>5 DEF Inv, Types
<1>7. LabelInv'
  BY <1>2 DEF Inv, LabelInv
<1> QED
  BY <1>6, <1>7
\* The runs that work on labels keep to their lane and to verdicts that are there.
LEMMA LabelerStep ==
    ASSUME GateAssumption, Inv, NEW k \in DOMAIN labeler, Labeler(k)
    PROVE  Inv'
<1> DEFINE p == labeler[k]
<1>0. /\ Types /\ LabelInv /\ VerdictInv /\ k \in 1..MaxAudits /\ p \in RunRecs /\ head \in Heads
      /\ labels \in SUBSET Names /\ labeler \in [1..MaxAudits -> RunRecs]
      /\ (p.pc # "none" => k \in 1..Len(verdicts)) /\ (p.pc = "add" => p.add \in LaneNames)
  BY DEF Inv, Types, LabelInv
<1>1. UNCHANGED <<head, timeline, audits, verdicts, clearer, gate, status, queued, merged, clean, waived, carried>>
  BY DEF Labeler, LabelerHead, LabelerDecides, LabelerApplies, Aside, audit, merge, ghosts
<1>2. PICK q : /\ q \in RunRecs /\ Labels(k, q) /\ labels' \in SUBSET Names /\ p.pc # "none"
               /\ Unraised
               /\ q.pc = "add" => q.add \in LaneNames
  <2>1. CASE LabelerHead(k)
    <3>1. [p EXCEPT !.pc = "comments", !.head = head] \in RunRecs
      BY <1>0 DEF RunRecs
    <3>2. [p EXCEPT !.pc = "comments", !.head = head].pc # "add"
      BY <1>0 DEF RunRecs
    <3> QED
      BY <1>0, <2>1, <3>1, <3>2 DEF LabelerHead, Unraised
  <2>2. CASE LabelerDecides(k)
    <3> DEFINE l == Verdict(k).lane
               d == Decision(k, p.head)
               r == [p EXCEPT !.pc = "add", !.add = L(l, d.add), !.remove = {L(l, kind) : kind \in d.remove}]
    <3>1. /\ k \in 1..Len(verdicts) /\ Verdict(k) \in AuditRecs /\ Verdict(k).verdict # "none"
          /\ p.pc = "comments" /\ labels' = labels
      BY <1>0, <2>2 DEF LabelerDecides, VerdictInv, Verdict, Types
    <3>2. l \in Lanes /\ d.add \in Kinds /\ d.remove \subseteq Kinds
      BY <3>1 DEF Decision, AuditRecs, Kinds
    <3>3. Ended \in RunRecs /\ Ended.pc = "ended"
      BY Bounds DEF Ended, Resting, RunRecs
    <3>4. L(l, d.add) \in LaneNames /\ {L(l, kind) : kind \in d.remove} \subseteq Names
      BY <3>2, NameFacts
    <3>5. Labels(k, r) \/ Labels(k, Ended)
      BY <2>2 DEF LabelerDecides
    <3> HIDE DEF l, d
    <3>6. r \in RunRecs /\ r.add \in LaneNames
      BY <1>0, <3>4 DEF RunRecs, Names
    <3> QED
      BY <1>0, <3>1, <3>3, <3>5, <3>6 DEF Unraised
  <2>3. CASE LabelerApplies(k)
    <3>1. PICK q \in {Added(p)} \cup {Removed(p, x) : x \in p.remove} : Applies(p, q) /\ Labels(k, q)
      BY <2>3 DEF LabelerApplies
    <3>2. /\ q \in RunRecs /\ labels' \in SUBSET Names /\ q.pc # "add" /\ p.pc # "none"
          /\ Unraised
      BY <1>0, <3>1, AppliesTyped
    <3> QED
      BY <3>1, <3>2
  <2> QED
    BY <2>1, <2>2, <2>3 DEF Labeler
<1>3. labeler' = [labeler EXCEPT ![k] = q]
  BY <1>2 DEF Labels
<1>4. Types'
  BY <1>0, <1>1, <1>2, <1>3 DEF Types
<1>5. LabelInv'
  BY <1>0, <1>1, <1>2, <1>3 DEF LabelInv
<1>6. Beside2
  BY <1>0, <1>1, <1>2 DEF Beside2, AuditRuns, VerdictInv
<1> QED
  BY <1>4, <1>5, <1>6, BesideStep

LEMMA ExpectedTyped ==
    ASSUME Inv, NEW l \in Lanes, OfLane(l) # {}
    PROVE  Expected(l) \in Kinds
<1>1. OfLane(l) \subseteq 1..Len(verdicts) /\ Len(verdicts) \in Nat
  BY DEF Inv, Types, OfLane
<1>2. Max(OfLane(l)) \in 1..Len(verdicts)
  BY <1>1, MaxIsLast
<1>3. verdicts[Max(OfLane(l))] \in 1..Len(audits) /\ Verdict(Max(OfLane(l))).verdict # "none"
  BY <1>2 DEF Inv, VerdictInv, Verdict
<1>4. Verdict(Max(OfLane(l))) \in AuditRecs
  BY <1>3 DEF Inv, Types, Verdict
<1> QED
  BY <1>3, <1>4 DEF Expected, AuditRecs, Kinds

LEMMA ClearerStep ==
    ASSUME GateAssumption, Inv, NEW l \in Lanes, Clearer(l)
    PROVE  Inv'
<1> DEFINE p == clearer[l]
           Own == {L(l, kind) : kind \in Kinds}
<1>0. /\ Types /\ LabelInv /\ VerdictInv /\ p \in RunRecs /\ head \in Heads
      /\ labels \in SUBSET Names /\ clearer \in [Lanes -> RunRecs]
      /\ p.remove \subseteq Own /\ (p.pc = "add" => p.add \in LaneNames) /\ Own \subseteq LaneNames /\ Own \subseteq Names
  BY NameFacts DEF Inv, Types, LabelInv
<1>1. UNCHANGED <<head, timeline, audits, verdicts, labeler, gate, status, queued, merged, clean, waived, carried>>
  BY DEF Clearer, ClearerHead, ClearerLabels, ClearerDecides, ClearerOverflows, ClearerApplies,
         Beside, audit, merge, ghosts
<1>a. Ended \in RunRecs /\ Ended.pc = "ended" /\ Ended.remove = {}
  BY Bounds DEF Ended, Resting, RunRecs
<1>2. PICK q : /\ q \in RunRecs /\ Clears(l, q) /\ labels' \in SUBSET Names
               /\ Unraised
               /\ q.pc = "add" => q.add \in LaneNames
               /\ q.remove \subseteq Own
  <2>1. CASE ClearerHead(l)
    <3> DEFINE r == [p EXCEPT !.pc = "labels", !.head = head]
    <3>1. r \in RunRecs /\ r.pc = "labels" /\ r.remove = p.remove
      BY <1>0 DEF RunRecs
    <3>2. Clears(l, r) /\ labels' = labels
      BY <2>1 DEF ClearerHead
    <3> HIDE DEF r
    <3> QED
      BY <1>0, <3>1, <3>2 DEF Unraised
  <2>2. CASE ClearerLabels(l)
    <3> DEFINE r == [p EXCEPT !.pc = "comments", !.labels = labels]
    <3>1. r \in RunRecs /\ r.pc = "comments" /\ r.remove = p.remove
      BY <1>0 DEF RunRecs
    <3>2. Clears(l, r) /\ labels' = labels
      BY <2>2 DEF ClearerLabels
    <3> HIDE DEF r
    <3> QED
      BY <1>0, <3>1, <3>2 DEF Unraised
  <2>3. CASE ClearerDecides(l)
    <3> DEFINE wrong == Terminal(l, p.labels) \ {L(l, Expected(l))}
               r == [p EXCEPT !.pc = "add", !.add = L(l, Expected(l)), !.remove = {L(l, "needs")} \cup wrong]
               s == [p EXCEPT !.pc = "add", !.add = L(l, "needs"), !.remove = {L(l, "done"), L(l, "blocked")}]
    <3>1. \/ Clears(l, Ended) \/ (Current(l, p.head) /\ Clears(l, r)) \/ Clears(l, s)
      BY <2>3 DEF ClearerDecides
    <3>2. labels' = labels
      BY <2>3 DEF ClearerDecides
    <3>3. {L(l, "needs")} \cup wrong \subseteq Own /\ {L(l, "done"), L(l, "blocked")} \subseteq Own
      BY NameFacts DEF Terminal
    <3>4. Current(l, p.head) => L(l, Expected(l)) \in LaneNames
      BY ExpectedTyped, NameFacts DEF Current
    <3>5. L(l, "needs") \in LaneNames
      BY NameFacts
    <3> HIDE DEF wrong, Own
    <3>6. Current(l, p.head) => /\ r \in RunRecs /\ r.add \in LaneNames /\ r.remove \subseteq Own
      BY <1>0, <3>3, <3>4 DEF RunRecs, Names
    <3>7. s \in RunRecs /\ s.add \in LaneNames /\ s.remove \subseteq Own
      BY <1>0, <3>3, <3>5 DEF RunRecs, Names
    <3> HIDE DEF r, s
    <3> QED
      BY <1>0, <1>a, <3>1, <3>2, <3>6, <3>7 DEF Unraised
  <2>4. CASE ClearerOverflows(l)
    <3> DEFINE r == [p EXCEPT !.pc = "overflow"]
    <3>1. r \in RunRecs /\ r.pc = "overflow" /\ r.remove = p.remove
      BY <1>0 DEF RunRecs
    <3>2. Clears(l, r) /\ labels' = labels
      BY <2>4 DEF ClearerOverflows
    <3> HIDE DEF r
    <3> QED
      BY <1>0, <3>1, <3>2 DEF Unraised
  <2>5. CASE ClearerApplies(l)
    <3>1. PICK q \in {Added(p)} \cup {Removed(p, x) : x \in p.remove} : Applies(p, q) /\ Clears(l, q)
      BY <2>5 DEF ClearerApplies
    <3>2. q \in RunRecs /\ labels' \in SUBSET Names /\ q.pc # "add" /\ q.remove \subseteq p.remove
          /\ Unraised
      BY <1>0, <3>1, AppliesTyped
    <3> QED
      BY <1>0, <3>1, <3>2
  <2> QED
    BY <2>1, <2>2, <2>3, <2>4, <2>5 DEF Clearer
<1>3. clearer' = [clearer EXCEPT ![l] = q]
  BY <1>2 DEF Clears
<1>4. Types'
  BY <1>0, <1>1, <1>2, <1>3 DEF Types
<1>5. LabelInv'
  BY <1>0, <1>1, <1>2, <1>3 DEF LabelInv
<1>6. Beside2
  BY <1>0, <1>1, <1>2 DEF Beside2, AuditRuns, VerdictInv
<1> QED
  BY <1>4, <1>5, <1>6, BesideStep

LEMMA AuditStep ==
    ASSUME GateAssumption, Inv, Audit
    PROVE  Inv'
<1>0. Types /\ LabelInv /\ VerdictInv
  BY DEF Inv
<1>1. ASSUME NEW l \in Lanes, StartAudit(l) PROVE Inv'
  <2>1. audits' \in Seq(AuditRecs) /\ AuditRuns
    BY <1>0, <1>1, AuditTyped
  <2>2. /\ UNCHANGED <<head, labels, timeline, verdicts, labeler, clearer, gate, status, queued,
                       merged, clean, waived, carried>>
    BY <1>1 DEF StartAudit, merge, ghosts
  <2>3. Types' /\ LabelInv'
    BY <1>0, <2>1, <2>2 DEF Types, LabelInv
  <2> QED
    BY <2>1, <2>2, <2>3, BesideStep DEF Beside2, Unraised
<1>2. ASSUME NEW l \in Lanes, AskAudit(l) PROVE Inv'
  <2>1. /\ UNCHANGED <<head, timeline, audits, verdicts, labeler, clearer, gate, status, queued,
                       merged, clean, waived, carried>>
        /\ labels' = labels \cup {L(l, "needs")}
    BY <1>2 DEF AskAudit, audit, merge, ghosts
  <2>2. L(l, "needs") \in Names /\ L(l, "needs") # OverrideLabel
    BY NameFacts
  <2>3. Types' /\ LabelInv'
    BY <1>0, <2>1, <2>2 DEF Types, LabelInv
  <2> QED
    BY <1>0, <2>1, <2>2, <2>3, BesideStep DEF Beside2, AuditRuns, VerdictInv, Unraised
<1>3. ASSUME NEW a \in DOMAIN audits, PostVerdict(a) PROVE Inv'
  <2>1. /\ audits' \in Seq(AuditRecs) /\ verdicts' \in Seq(Nat) /\ Len(verdicts') = Len(verdicts) + 1
        /\ Len(verdicts) \in Nat
    BY <1>0, <1>3, PostTyped DEF Types
  <2>2. /\ UNCHANGED <<head, labels, timeline, clearer, gate, status, queued, merged, waived,
                       carried>>
        /\ clean' \subseteq clean \cup Heads
        /\ labeler' = [labeler EXCEPT ![Len(verdicts) + 1].pc = "head"]
    BY <1>3 DEF PostVerdict, merge
  <2>3. labeler' \in [1..MaxAudits -> RunRecs]
    <3> DEFINE k == Len(verdicts) + 1
               w == [labeler[k] EXCEPT !.pc = "head"]
    <3>1. k \in 1..MaxAudits => w \in RunRecs
      BY <1>0 DEF Types, RunRecs
    <3>2. labeler' = [labeler EXCEPT ![k] = w]
      BY <2>2
    <3> HIDE DEF k, w
    <3> QED
      BY <1>0, <3>1, <3>2 DEF Types
  <2>4. Types'
    BY <1>0, <2>1, <2>2, <2>3 DEF Types
  <2>5. LabelInv'
    <3>1. \A k \in 1..MaxAudits : /\ labeler'[k].pc # "none" => k \in 1..Len(verdicts')
                                  /\ labeler'[k].pc = "add" => labeler'[k].add \in LaneNames
      <4> SUFFICES ASSUME NEW k \in 1..MaxAudits
                   PROVE  /\ labeler'[k].pc # "none" => k \in 1..Len(verdicts')
                          /\ labeler'[k].pc = "add" => labeler'[k].add \in LaneNames
        OBVIOUS
      <4>1. CASE k = Len(verdicts) + 1
        BY <1>0, <2>1, <2>2, <4>1 DEF Types, RunRecs
      <4>2. CASE k # Len(verdicts) + 1
        BY <1>0, <2>1, <2>2, <4>2 DEF Types, LabelInv
      <4> QED
        BY <4>1, <4>2
    <3> QED
      BY <1>0, <2>2, <3>1 DEF LabelInv
  <2> QED
    BY <1>3, <2>4, <2>5, PostStep
<1>4. ASSUME NEW a \in DOMAIN audits, EndAudit(a) PROVE Inv'
  <2>1. audits' \in Seq(AuditRecs) /\ AuditRuns
    BY <1>0, <1>4, EndAuditTyped
  <2>2. /\ UNCHANGED <<head, labels, timeline, verdicts, labeler, clearer, gate, status, queued,
                       merged, clean, waived, carried>>
    BY <1>4 DEF EndAudit, merge, ghosts
  <2>3. Types' /\ LabelInv'
    BY <1>0, <2>1, <2>2 DEF Types, LabelInv
  <2> QED
    BY <2>1, <2>2, <2>3, BesideStep DEF Beside2, Unraised
<1> QED
  BY <1>1, <1>2, <1>3, <1>4 DEF Audit
-----------------------------------------------------------------------------
(* GitHub and people.                                                      *)

LEMMA QueuedMergeStep ==
    ASSUME GateAssumption, Inv, QueuedMerge
    PROVE  Inv'
<1>1. /\ merged' = head /\ status[head] = "success"
      /\ UNCHANGED <<head, labels, timeline, audits, verdicts, labeler, clearer, gate, status, queued,
                     clean, waived, carried>>
  BY DEF QueuedMerge, audit, ghosts
<1>2. Types' /\ LabelInv'
  BY <1>1 DEF Inv, Types, LabelInv
<1>3. VerdictInv' /\ WaivedInv'
  BY <1>1 DEF Inv, VerdictInv, WaivedInv, UnderOverride, OwnerApplied, Applied, Appeared, Arrived
<1>4. CleanInv'
  <2>1. \A l, h, n : Latest(l, h, n)' = Latest(l, h, n)
    BY <1>1 DEF Latest, About
  <2>2. \A h, n : Passed(h, n)' <=> Passed(h, n)
    BY <2>1 DEF Passed
  <2> QED
    BY <1>1, <2>2 DEF Inv, CleanInv
<1>5. GateInv'
  <2>1. Grow
    BY <1>1 DEF Inv, Grow, Types, OwnerApplied, Applied
  <2> QED
    BY <1>1, <1>2, <2>1, GateKept DEF Inv, GateInv
<1>6. GreenIsEarned'
  BY <1>1 DEF Inv, GreenIsEarned, Waived
<1> QED
  BY <1>2, <1>3, <1>4, <1>5, <1>6 DEF Inv

\* An event is added to the timeline; what the histories say stays so.
LEMMA EventStep ==
    ASSUME GateAssumption, Inv, Types', NEW STATE e, e \in Events,
           timeline' = Append(timeline, e), waived \subseteq waived', carried \subseteq carried',
           OwnerApplied(Len(timeline))' => OwnerApplied(Len(timeline)) \/ Appeared \subseteq waived',
           UNCHANGED <<audits, verdicts, status, merged, clean>>
    PROVE  /\ VerdictInv' /\ CleanInv' /\ GreenIsEarned' /\ Grow
           /\ Len(timeline') = Len(timeline) + 1 /\ Len(timeline) \in Nat
           /\ timeline'[Len(timeline) + 1] = e
<1>1. /\ Len(timeline') = Len(timeline) + 1 /\ Len(timeline) \in Nat
      /\ timeline'[Len(timeline) + 1] = e
      /\ \A i \in 1..Len(timeline) : timeline'[i] = timeline[i]
  BY AppendProperties DEF Inv, Types
<1>2. VerdictInv'
  BY DEF Inv, VerdictInv
<1>3. CleanInv'
  <2>1. \A l, h, n : Latest(l, h, n)' = Latest(l, h, n)
    BY DEF Latest, About
  <2>2. \A h, n : Passed(h, n)' <=> Passed(h, n)
    BY <2>1 DEF Passed
  <2> QED
    BY <2>2 DEF Inv, CleanInv
<1>4. Grow
  BY <1>1 DEF Grow, Inv, Types
<1>5. GreenIsEarned'
  BY <1>4, WaivedKept DEF Inv, GreenIsEarned
<1> QED
  BY <1>1, <1>2, <1>3, <1>4, <1>5

LEMMA PushStep ==
    ASSUME GateAssumption, Inv, Push
    PROVE  Inv'
<1>0. Types /\ LabelInv /\ WaivedInv /\ GateInv
  BY DEF Inv
<1>1. PICK h \in Heads :
        \E move \in Moves :
        /\ head' = h /\ timeline' = Append(timeline, <<move, h>>)
        /\ carried' = carried \cup {x \in {h} : UnderOverride}
        /\ \/ UNCHANGED gate
           \/ \E g \in Gates : GateGoes(g, [NewGate EXCEPT !.pc = "clear", !.sha = h])
  BY DEF Push
<1>b. PICK move \in Moves :
        /\ head' = h /\ timeline' = Append(timeline, <<move, h>>)
        /\ carried' = carried \cup {x \in {h} : UnderOverride}
        /\ \/ UNCHANGED gate
           \/ \E g \in Gates : GateGoes(g, [NewGate EXCEPT !.pc = "clear", !.sha = h])
  BY <1>1
<1>2. /\ clearer' = [l \in Lanes |-> [Resting EXCEPT !.pc = "head"]]
      /\ UNCHANGED <<labels, audits, verdicts, labeler, status, queued, merged, clean, waived>>
  BY DEF Push, audit, merge, ghosts
<1> DEFINE e == <<move, h>>
           n == Len(timeline) + 1
           new == [NewGate EXCEPT !.pc = "clear", !.sha = h]
<1>3. e \in Events /\ e[1] \in Moves /\ e[1] # "override" /\ e \in Moves \X {h}
  BY DEF Events, Moves
<1>4. timeline \in Seq(Events) /\ timeline' \in Seq(Events)
  BY <1>0, <1>b, <1>3, AppendProperties DEF Types
<1>5. /\ new \in GateRecs /\ new.pc = "clear" /\ new.trigger = "event" /\ new.sha = h /\ new.seen = 0
      /\ new.events = 0 /\ new.tries = 0 /\ new.state = "none"
  BY <1>0, Bounds DEF NewGate, GateRecs
<1>a. UNCHANGED gate \/ \E g \in Gates : gate' = [gate EXCEPT ![g] = new]
  BY <1>b DEF GateGoes
<1> HIDE DEF new
<1>6. \A g \in Gates : gate'[g] = gate[g] \/ gate'[g] = new
  BY <1>0, <1>a DEF Types
<1>7. gate' \in [Gates -> GateRecs]
  BY <1>0, <1>5, <1>a DEF Types
<1>8. /\ [Resting EXCEPT !.pc = "head"] \in RunRecs /\ [Resting EXCEPT !.pc = "head"].pc = "head"
      /\ [Resting EXCEPT !.pc = "head"].remove = {}
  BY Bounds DEF Resting, RunRecs
<1>c. carried \subseteq carried' /\ carried' \subseteq Heads
  BY <1>0, <1>b DEF Types
<1>9. Types'
  BY <1>0, <1>b, <1>2, <1>4, <1>7, <1>8, <1>c DEF Types
<1>10. LabelInv'
  BY <1>0, <1>2, <1>8 DEF LabelInv
<1>d. /\ Len(timeline') = n /\ Len(timeline) \in Nat /\ timeline'[n] = e
      /\ \A i \in 1..Len(timeline) : timeline'[i] = timeline[i]
  BY <1>b, <1>0, <1>3, AppendProperties DEF Types
<1>e. OwnerApplied(Len(timeline))' = OwnerApplied(Len(timeline))
  <2>1. Applied(Len(timeline))' = Applied(Len(timeline))
    BY <1>3, <1>d DEF Applied
  <2>2. Applied(Len(timeline)) # {} => Max(Applied(Len(timeline))) \in 1..Len(timeline)
    BY <1>d, MaxIsLast DEF Applied
  <2>3. OwnerApplied(Len(timeline))' =
           (Applied(Len(timeline)) # {} /\ timeline'[Max(Applied(Len(timeline)))][2] = "owner")
    BY <2>1 DEF OwnerApplied
  <2>4. Applied(Len(timeline)) # {} =>
           timeline'[Max(Applied(Len(timeline)))] = timeline[Max(Applied(Len(timeline)))]
    BY <1>d, <2>2
  <2> QED
    BY <2>3, <2>4 DEF OwnerApplied
<1>11. /\ VerdictInv' /\ CleanInv' /\ GreenIsEarned' /\ Grow
       /\ Len(timeline') = n /\ Len(timeline) \in Nat /\ timeline'[n] = e
  BY <1>b, <1>2, <1>3, <1>9, <1>c, <1>e, EventStep
<1>12. WaivedInv'
  <2>1. \A m \in 1..n : m # n => m \in 1..Len(timeline) /\ timeline'[m] = timeline[m]
    BY <1>11 DEF Grow
  <2>2. \A m \in 1..n : timeline'[m] = <<"override", "owner">> =>
           \A i \in 1..(m - 1) : timeline'[i][1] \in Moves => timeline'[i][2] \in waived'
    <3> SUFFICES ASSUME NEW m \in 1..n, timeline'[m] = <<"override", "owner">>, NEW i \in 1..(m - 1),
                        timeline'[i][1] \in Moves
                 PROVE  timeline'[i][2] \in waived'
      OBVIOUS
    <3>1. m # n
      BY <1>3, <1>11
    <3>2. m \in 1..Len(timeline) /\ i \in 1..Len(timeline) /\ timeline'[m] = timeline[m]
          /\ timeline'[i] = timeline[i]
      BY <1>11, <2>1, <3>1
    <3> QED
      BY <1>0, <1>2, <3>2 DEF WaivedInv
  <2>3. UnderOverride' => Appeared' \subseteq waived' \cup carried'
    <3> SUFFICES ASSUME UnderOverride', NEW i \in 1..n, timeline'[i][1] \in Moves
                 PROVE  timeline'[i][2] \in waived' \cup carried'
      BY <1>4, <1>11 DEF Appeared
    <3>1. UnderOverride
      BY <1>2, <1>e DEF UnderOverride
    <3>2. CASE i = n
      BY <1>b, <1>11, <3>1, <3>2
    <3>3. CASE i # n
      <4>1. i \in DOMAIN timeline /\ timeline'[i] = timeline[i]
        BY <1>0, <2>1, <3>3 DEF Types
      <4>2. timeline[i][2] \in Appeared
        BY <4>1 DEF Appeared
      <4> QED
        BY <1>0, <1>2, <1>c, <3>1, <4>1, <4>2 DEF WaivedInv
    <3> QED
      BY <3>2, <3>3
  <2>4. Arrived(head, Len(timeline))'
    <3>1. timeline'[n] \in Moves \X {h}
      BY <1>3, <1>11
    <3> QED
      BY <1>b, <1>11, <3>1 DEF Arrived
  <2> QED
    BY <1>11, <2>2, <2>3, <2>4 DEF WaivedInv
<1>13. GateInv'
  <2> SUFFICES ASSUME NEW g \in Gates PROVE GateOk(g)'
    BY DEF GateInv
  <2>1. CASE gate'[g] = gate[g]
    BY <1>0, <1>9, <1>11, <2>1, GateKept DEF GateInv
  <2>2. CASE gate'[g] = new
    <3>1. 0 <= Len(verdicts') /\ 0 <= Len(timeline') /\ 0 <= MaxAttempts
      BY <1>9, Bounds DEF Types
    <3>2. Arrived(h, Len(timeline))'
      <4>1. timeline'[n] \in Moves \X {h}
        BY <1>3, <1>11
      <4> QED
        BY <1>11, <4>1 DEF Arrived
    <3>3. Arrived(gate[g].sha, Len(timeline))' = Arrived(h, Len(timeline))'
      BY <1>5, <2>2 DEF Arrived
    <3> QED
      BY <1>5, <2>2, <3>1, <3>2, <3>3 DEF GateOk, RunOk, EventOk
  <2> QED
    BY <1>6, <2>1, <2>2
<1> QED
  BY <1>9, <1>10, <1>11, <1>12, <1>13 DEF Inv

LEMMA OverrideStep ==
    ASSUME GateAssumption, Inv, Override
    PROVE  Inv'
<1>0. Types /\ LabelInv /\ WaivedInv /\ GateInv
  BY DEF Inv
<1>1. PICK who \in {"owner", "other"} :
        /\ timeline' = Append(timeline, <<"override", who>>)
        /\ waived' = IF who = "owner" THEN waived \cup Appeared ELSE waived
  BY DEF Override
<1>2. /\ labels' = labels \cup {OverrideLabel} /\ OverrideLabel \notin labels
      /\ UNCHANGED <<head, audits, verdicts, labeler, clearer, gate, status, queued, merged, clean, carried>>
  BY DEF Override, audit, merge
<1> DEFINE e == <<"override", who>>
           n == Len(timeline) + 1
<1>3. e \in Events /\ e[1] = "override" /\ e[1] \notin Moves
  BY DEF Events, Moves
<1>4. timeline \in Seq(Events) /\ timeline' \in Seq(Events)
  BY <1>0, <1>1, <1>3, AppendProperties DEF Types
<1>5. Appeared \subseteq Heads
  <2> SUFFICES ASSUME NEW i \in DOMAIN timeline, timeline[i][1] \in Moves
               PROVE timeline[i][2] \in Heads
    BY DEF Appeared
  <2>1. timeline[i] \in Events
    BY <1>4
  <2> QED
    BY <2>1 DEF Events, Moves
<1>6. waived \subseteq waived' /\ waived' \subseteq Heads
  BY <1>0, <1>1, <1>5 DEF Types
<1>7. Types'
  BY <1>0, <1>2, <1>4, <1>6, NameFacts DEF Types
<1>8. LabelInv'
  BY <1>0, <1>2 DEF LabelInv
<1>d. /\ Len(timeline') = n /\ Len(timeline) \in Nat /\ timeline'[n] = e
      /\ \A i \in 1..Len(timeline) : timeline'[i] = timeline[i]
  BY <1>1, <1>0, <1>3, AppendProperties DEF Types
<1>e. OwnerApplied(Len(timeline))' => who = "owner"
  <2>1. /\ Applied(Len(timeline))' \subseteq 1..n /\ n \in Applied(Len(timeline))'
        /\ n \in Nat
    BY <1>3, <1>d DEF Applied
  <2>2. Max(Applied(Len(timeline))') = n
    <3> DEFINE S == Applied(Len(timeline))'
    <3> HIDE DEF S
    <3>1. Max(S) \in S /\ \A k \in S : k <= Max(S)
      BY <2>1, MaxIsLast DEF S
    <3>2. Max(S) \in 1..n /\ n <= Max(S)
      BY <2>1, <3>1 DEF S
    <3> QED
      BY <2>1, <3>2 DEF S
  <2>3. timeline'[n][2] = who
    BY <1>d
  <2>4. OwnerApplied(Len(timeline))' => timeline'[Max(Applied(Len(timeline))')][2] = "owner"
    BY DEF OwnerApplied
  <2> QED
    BY <2>2, <2>3, <2>4
<1>f. OwnerApplied(Len(timeline))' => Appeared \subseteq waived'
  BY <1>1, <1>e
<1>9. /\ VerdictInv' /\ CleanInv' /\ GreenIsEarned' /\ Grow
      /\ Len(timeline') = n /\ Len(timeline) \in Nat /\ timeline'[n] = e
  BY <1>1, <1>2, <1>3, <1>6, <1>7, <1>f, EventStep
<1>10. WaivedInv'
  <2>1. \A m \in 1..n : m # n => m \in 1..Len(timeline) /\ timeline'[m] = timeline[m]
    BY <1>9 DEF Grow
  <2>2. \A m \in 1..n : timeline'[m] = <<"override", "owner">> =>
           \A i \in 1..(m - 1) : timeline'[i][1] \in Moves => timeline'[i][2] \in waived'
    <3> SUFFICES ASSUME NEW m \in 1..n, timeline'[m] = <<"override", "owner">>, NEW i \in 1..(m - 1),
                        timeline'[i][1] \in Moves
                 PROVE  timeline'[i][2] \in waived'
      OBVIOUS
    <3>1. i \in 1..Len(timeline) /\ timeline'[i] = timeline[i]
      BY <1>9 DEF Grow
    <3>2. CASE m = n
      <4>1. who = "owner"
        BY <1>9, <3>2
      <4>2. timeline[i][2] \in Appeared
        BY <1>4, <3>1 DEF Appeared
      <4> QED
        BY <1>1, <3>1, <4>1, <4>2
    <3>3. CASE m # n
      <4>1. m \in 1..Len(timeline) /\ timeline'[m] = timeline[m]
        BY <2>1, <3>3
      <4> QED
        BY <1>0, <1>6, <3>1, <4>1 DEF WaivedInv
    <3> QED
      BY <3>2, <3>3
  <2>3. UnderOverride' => Appeared' \subseteq waived' \cup carried'
    <3> SUFFICES ASSUME UnderOverride', NEW i \in 1..n, timeline'[i][1] \in Moves
                 PROVE  timeline'[i][2] \in waived'
      BY <1>4, <1>9 DEF Appeared
    <3>1. Appeared \subseteq waived'
      BY <1>f DEF UnderOverride
    <3>2. i # n
      BY <1>3, <1>9
    <3>3. i \in DOMAIN timeline /\ timeline'[i] = timeline[i]
      BY <1>0, <2>1, <3>2 DEF Types
    <3>4. timeline[i][2] \in Appeared
      BY <3>3 DEF Appeared
    <3> QED
      BY <3>1, <3>3, <3>4
  <2>4. Arrived(head, Len(timeline))'
    BY <1>0, <1>2, <1>9 DEF WaivedInv, Grow, Arrived
  <2> QED
    BY <1>9, <2>2, <2>3, <2>4 DEF WaivedInv
<1>11. GateInv'
  BY <1>0, <1>2, <1>7, <1>9, GateKept DEF GateInv
<1> QED
  BY <1>7, <1>8, <1>9, <1>10, <1>11 DEF Inv

LEMMA PeopleStep ==
    ASSUME GateAssumption, Inv, Withdraw \/ NeedsOwner
    PROVE  Inv'
<1>1. /\ UNCHANGED <<head, timeline, audits, verdicts, labeler, clearer, gate, status, queued,
                     merged, clean, waived, carried>>
      /\ labels' \in {labels \ {OverrideLabel}, labels \ {OwnerLabel}, labels \cup {OwnerLabel}}
  BY DEF Withdraw, NeedsOwner, audit, merge, ghosts
<1>2. Types' /\ LabelInv'
  BY <1>1, NameFacts DEF Inv, Types, LabelInv
<1> QED
  BY <1>1, <1>2, NameFacts, BesideStep DEF Inv, Beside2, AuditRuns, VerdictInv, Unraised
-----------------------------------------------------------------------------
(* The invariant is inductive.                                             *)

LEMMA InvInit ==
    ASSUME GateAssumption, Init
    PROVE  Inv
<1>1. Types
  <2>1. Resting \in RunRecs /\ NewGate \in GateRecs
    BY Bounds DEF Resting, NewGate, RunRecs, GateRecs
  <2>2. labels \in SUBSET Names
    BY NameFacts DEF Init, Required
  <2>3. <<"committed", 0>> \in Events
    BY Bounds DEF Events, Moves
  <2>4. timeline \in Seq(Events)
    BY <2>3 DEF Init
  <2>5. /\ labeler \in [1..MaxAudits -> RunRecs] /\ clearer \in [Lanes -> RunRecs]
        /\ gate \in [Gates -> GateRecs]
    BY <2>1 DEF Init
  <2>6. /\ head \in Heads /\ audits \in Seq(AuditRecs) /\ verdicts \in Seq(Nat)
        /\ status \in [Heads -> {"none", "pending", "failure", "success"}]
        /\ queued \in BOOLEAN /\ merged \in Heads \cup {None}
        /\ clean \in SUBSET Heads /\ waived \in SUBSET Heads /\ carried \in SUBSET Heads
    <3>1. /\ head = 0 /\ audits = <<>> /\ verdicts = <<>> /\ status = [h \in Heads |-> "none"]
          /\ queued = FALSE /\ merged = None /\ clean = {} /\ waived = {} /\ carried = {}
      BY DEF Init
    <3>2. head \in Heads /\ audits \in Seq(AuditRecs) /\ verdicts \in Seq(Nat)
      BY <3>1, Bounds
    <3>3. status \in [Heads -> {"none", "pending", "failure", "success"}]
      BY <3>1
    <3> QED
      BY <3>1, <3>2, <3>3
  <2> QED
    BY <2>2, <2>4, <2>5, <2>6 DEF Types
<1>2. LabelInv
  BY DEF Init, LabelInv, Resting
<1>3. VerdictInv /\ CleanInv
  BY DEF Init, VerdictInv, CleanInv
<1>4. WaivedInv
  <2>1. /\ timeline = <<<<"committed", 0>>>> /\ Len(timeline) = 1 /\ head = 0
        /\ timeline[1] = <<"committed", 0>>
    BY DEF Init
  <2>2. timeline[1] # <<"override", "owner">> /\ timeline[1] \in Moves \X {0}
    BY <2>1 DEF Moves
  <2>3. OverrideLabel \notin labels
    BY NameFacts DEF Init, Required, LaneNames, AutoMerge, OverrideLabel, Kinds
  <2> QED
    BY <2>1, <2>2, <2>3 DEF WaivedInv, UnderOverride, Arrived
<1>5. GateInv
  <2>1. /\ NewGate.pc = "none" /\ NewGate.trigger = "event" /\ NewGate.seen = 0
        /\ NewGate.events = 0 /\ NewGate.tries = 0 /\ NewGate.state = "none"
    BY DEF NewGate
  <2>2. \A g \in Gates : gate[g] = NewGate
    BY DEF Init
  <2>3. 0 <= Len(verdicts) /\ 0 <= Len(timeline) /\ 0 <= MaxAttempts
    BY <1>1, Bounds DEF Types
  <2> QED
    BY <2>1, <2>2, <2>3 DEF GateInv, GateOk, RunOk, EventOk
<1>6. GreenIsEarned
  <2>1. merged = None /\ status = [h \in Heads |-> "none"]
    BY DEF Init
  <2> QED
    BY <2>1, Bounds DEF GreenIsEarned
<1> QED
  BY <1>1, <1>2, <1>3, <1>4, <1>5, <1>6 DEF Inv

LEMMA InvNext ==
    ASSUME GateAssumption, Inv, [Next]_vars
    PROVE  Inv'
<1>1. CASE Audit
  BY <1>1, AuditStep
<1>2. ASSUME NEW k \in DOMAIN labeler, Labeler(k) PROVE Inv'
  BY <1>2, LabelerStep
<1>3. ASSUME NEW l \in Lanes, Clearer(l) PROVE Inv'
  BY <1>3, ClearerStep
<1>4. ASSUME NEW g \in Gates, Gate(g) PROVE Inv'
  BY <1>4, GateTypes, GateSteps
<1>5. CASE QueuedMerge
  BY <1>5, QueuedMergeStep
<1>6. CASE Push
  BY <1>6, PushStep
<1>7. CASE Override
  BY <1>7, OverrideStep
<1>8. CASE Withdraw \/ NeedsOwner
  BY <1>8, PeopleStep
<1>9. CASE UNCHANGED vars
  <2>1. /\ UNCHANGED <<head, labels, timeline, audits, verdicts, labeler, clearer, gate, status,
                       queued, merged, clean, waived, carried>>
    BY <1>9 DEF vars, audit, merge, ghosts
  <2>2. Types' /\ LabelInv'
    BY <2>1 DEF Inv, Types, LabelInv
  <2> QED
    BY <2>1, <2>2, BesideStep DEF Inv, Beside2, AuditRuns, VerdictInv, Unraised
<1> QED
  BY <1>1, <1>2, <1>3, <1>4, <1>5, <1>6, <1>7, <1>8, <1>9 DEF Next

\* Whoever reads, decides and pushes when, the histories carry what was granted.
LEMMA InductiveInvariant ==
    ASSUME GateAssumption
    PROVE  Spec => []Inv
<1>1. Init => Inv
  BY InvInit
<1>2. Inv /\ [Next]_vars => Inv'
  BY InvNext
<1> QED
  BY <1>1, <1>2, PTL DEF Spec
-----------------------------------------------------------------------------
(* The theorems.                                                           *)

\* Heads, statuses and verdicts are of their kinds; a clear-stale run removes only
\* its own lane's labels, a gate run reads no verdict that is not there and asks
\* for the merge no more often than it may (clear_stale.py, code-mower-gate.yml).
THEOREM TypeCorrect ==
    ASSUME GateAssumption
    PROVE  Spec => []TypeOK
<1>1. Inv => TypeOK
  <2> SUFFICES ASSUME Inv PROVE TypeOK
    OBVIOUS
  <2>1. Types /\ LabelInv /\ GateInv
    BY DEF Inv
  <2>2. \A a \in DOMAIN audits : audits[a].verdict \in {"none", "done", "blocked"}
    <3> SUFFICES ASSUME NEW a \in DOMAIN audits
                 PROVE audits[a].verdict \in {"none", "done", "blocked"}
      OBVIOUS
    <3>1. audits[a] \in AuditRecs
      BY <2>1 DEF Types
    <3> QED
      BY <3>1 DEF AuditRecs
  <2>3. \A g \in Gates : gate[g].tries <= MaxAttempts /\ gate[g].seen <= Len(verdicts)
    BY <2>1 DEF GateInv, GateOk, RunOk
  <2> QED
    BY <2>1, <2>2, <2>3 DEF TypeOK, Types, LabelInv
<1> QED
  BY <1>1, InductiveInvariant, PTL

\* A commit that is green or merged was passed at one moment by every lane but its
\* builder's, or let through by the owner: the label was applied when the commit had
\* arrived, or was there when an ordinary push brought it.  So for every way the
\* labelers, the clear-stale runs, the gate runs and people interleave; where a
\* comment may start a run, that the owner once applied the label is all that is left
\* of the second part, for such a run takes the head it finds last
\* (code-mower-gate.yml).
THEOREM GreenEarned ==
    ASSUME GateAssumption
    PROVE  Spec => []GreenIsEarned
<1>1. Inv => GreenIsEarned
  BY DEF Inv
<1> QED
  BY <1>1, InductiveInvariant, PTL
================================================================================
