--------------------------- MODULE JiraApplyProofs ---------------------------
(***************************************************************************)
(* Proofs about the apply of a plan to a Jira issue, for any number of     *)
(* runs, pull requests and changes by the issue's owner.  None of the      *)
(* properties is inductive: what a run may still write is decided by where *)
(* it stands and by what of it is in flight, so the invariant relates both *)
(* to the claim, the association and the comments of the issue.            *)
(***************************************************************************)
EXTENDS JiraApply, TLAPS

Guarded == {"guard", "guardPr", "guardOwn", "send"}

\* The run has prepared this write and has not made it.
Has(r, w) == pc[r] \in Guarded /\ write[r] = w
\* The write has left without an answer and may take effect.
InFlight(r, w) == [run |-> r, write |-> w] \in flight

\* The run reports the comment as there.
Says(r) == outcome[r]["comment"] \in {"applied", "already_applied"}

\* A run that has begun has a plan; one that has not has none, and reports nothing.
PlanInv ==
  \A r \in Runs : /\ pc[r] = "idle" => plan[r] = NoPlan /\ ~Says(r)
                  /\ pc[r] # "idle" => plan[r] \in Plans

\* A plan that changes the status or comments says to what and how.
Effective(r) == plan[r].intent \in Intents /\ plan[r].target \in Categories
EffectInv ==
  /\ \A r \in Runs : \/ Effective(r)
                     \/ \A j \in 1 .. Len(todo[r]) : todo[r][j] \in {"assign", "link"}
  /\ \A f \in flight : /\ pc[f.run] # "idle"
                       /\ f.write = "transition" => Effective(f.run)

\* The operation a run is at, by its position and the write it has prepared.
HandledOp(r) ==
  /\ pc[r] \in {"conflict", "preflight", "handle", "associate", "joined", "recover"}
       => todo[r] # <<>>
  /\ pc[r] \in {"associate", "joined"} => Op(r) = "link"
  /\ pc[r] = "recover" => Op(r) = "comment"
PreparedOp(r) ==
  pc[r] \in Guarded =>
    /\ write[r] # "none"
    /\ write[r] # "ledger" => todo[r] # <<>>
    /\ write[r] = "assign" => Op(r) = "assign"
    /\ write[r] = "transition" => Op(r) = "transition"
    /\ write[r] \in {"associate", "link"} => Op(r) = "link"
    /\ write[r] \in {"claim", "comment", "posted", "unverified"} => Op(r) = "comment"
OpInv == \A r \in Runs : HandledOp(r) /\ PreparedOp(r)

\* The right to post a comment: prepared, or in flight.
Posting(r, i) == plan[r].intent = i /\ (Has(r, "comment") \/ InFlight(r, "comment"))

\* It is created with the claim, one run has it, once, and it is used up by
\* the comment.
CommentInv ==
  \A i \in Intents :
    /\ comments[i] <= 1
    /\ claim[i] = "none" => comments[i] = 0 /\ \A r \in Runs : ~Posting(r, i)
    /\ \A r \in Runs : Posting(r, i) => comments[i] = 0
    /\ \A r, s \in Runs : Posting(r, i) /\ Posting(s, i) => r = s
OnceInv == \A r \in Runs : ~(Has(r, "comment") /\ InFlight(r, "comment"))

\* The claim is marked as posted after the comment only.
PostedInv ==
  /\ \A i \in Intents : claim[i] = "posted" => comments[i] >= 1
  /\ \A r \in Runs : /\ plan[r].intent \in Intents
                     /\ Has(r, "posted") \/ InFlight(r, "posted")
                     => comments[plan[r].intent] >= 1
ReportInv ==
  \A r \in Runs : plan[r].intent # NoIntent /\ Says(r) => comments[plan[r].intent] >= 1

\* A synchronised pull request is linked by the one that is associated.
LinkInv ==
  /\ \A p \in links : \/ assoc = p
                      \/ \E r \in Runs : ~plan[r].sync /\ plan[r].pr = p
  /\ \A r \in Runs : plan[r].sync /\ (Has(r, "link") \/ InFlight(r, "link"))
                     => assoc = plan[r].pr

\* A synchronisation that is about to write owns the issue.
OwnInv ==
  \A r \in Runs : plan[r].sync /\ pc[r] = "send" /\ write[r] # "associate" => Owned(r)

\* Without authority a run does not pass the guard.
AstrayInv ==
  \A r \in astray : ~Authorized(r) /\ pc[r] \notin {"guardPr", "guardOwn", "send"}

Inv == /\ TypeOK /\ PlanInv /\ EffectInv /\ OpInv /\ CommentInv /\ OnceInv
       /\ PostedInv /\ ReportInv /\ LinkInv /\ OwnInv /\ AstrayInv
-----------------------------------------------------------------------------
LEMMA PlanShape ==
  ASSUME NEW p \in Plans
  PROVE  /\ p.sync \in BOOLEAN /\ p.pr \in Prs /\ p.ops \in Seq(Kinds) /\ p # NoPlan
         /\ p.intent \in Intents \cup {NoIntent}
         /\ \/ p.intent \in Intents /\ p.target \in Categories
            \/ \A j \in 1 .. Len(p.ops) : p.ops[j] \in {"assign", "link"}
<1>1. CASE \E m \in Events, q \in Prs : p = SyncPlan(m, q)
  <2>1. PICK m \in Milestones, q \in Prs : p = SyncPlan(m, q)
    BY <1>1, PlanAssumption
  <2>2. /\ Target(m) # "none" => Intent(Template(m), q) \in Intents /\ Target(m) \in Categories
        /\ Intent(Template(m), q) \in Intents \cup {NoIntent}
    BY DEF Milestones, Target, Template, Intent, Intents, Categories
  <2>3. p.sync = TRUE /\ p.pr = q /\ p.intent = Intent(Template(m), q) /\ p.target = Target(m)
    BY <2>1 DEF SyncPlan
  <2>6. p.pr # NoPlan.pr
    BY <2>3, PlanAssumption DEF NoPlan
  <2>4. CASE Target(m) = "none"
    <3>1. p.ops = <<"link">>
      BY <2>1, <2>4 DEF SyncPlan
    <3>2. Len(p.ops) = 1 /\ p.ops[1] = "link" /\ p.ops \in Seq(Kinds)
      BY <3>1 DEF Kinds
    <3>3. \A j \in 1 .. Len(p.ops) : p.ops[j] \in {"assign", "link"}
      BY <3>2
    <3> QED
      BY <2>2, <2>3, <2>6, <3>2, <3>3
  <2>5. CASE Target(m) # "none"
    <3>1. p.ops = <<"link", "transition", "comment">>
      BY <2>1, <2>5 DEF SyncPlan
    <3>2. p.ops \in Seq(Kinds)
      BY <3>1 DEF Kinds
    <3> QED
      BY <2>2, <2>3, <2>5, <2>6, <3>2
  <2> QED
    BY <2>4, <2>5
<1>2. CASE \E ks \in Requests, q \in Prs : p = RequestPlan(ks, q)
  <2>1. PICK ks \in Requests, q \in Prs : p = RequestPlan(ks, q)
    BY <1>2
  <2>2. \A k \in Kinds : Asking(k, ks) \in Seq(Kinds)
    BY DEF Asking
  <2>3. p.ops \in Seq(Kinds)
    BY <2>1, <2>2 DEF RequestPlan, Kinds
  <2>4. /\ p.sync = FALSE /\ p.pr = q /\ p.intent = Intent("pr_opened", q)
        /\ p.target = "in_progress"
    BY <2>1 DEF RequestPlan
  <2>5. p.intent \in Intents /\ p.target \in Categories
    BY <2>4 DEF Intent, Intents, Categories
  <2>6. p.pr # NoPlan.pr
    BY <2>4, PlanAssumption DEF NoPlan
  <2> QED
    BY <2>3, <2>4, <2>5, <2>6
<1> QED
  BY <1>1, <1>2 DEF Plans
-----------------------------------------------------------------------------
Stages == {"idle", "conflict", "preflight", "next", "handle", "associate", "guard",
           "guardPr", "guardOwn", "send", "joined", "recover", "stopped"}

\* A step of a run that reads and decides, and writes nothing.
Reads(r) ==
  \/ CheckConflict(r) \/ Preflight(r) \/ Refresh(r) \/ ReadFails(r)
  \/ HandleAssign(r) \/ HandleTransition(r) \/ HandleLink(r) \/ Associate(r)
  \/ Joined(r) \/ HandleComment(r) \/ Recover(r) \/ Finish(r)
  \/ Guard(r) \/ GuardPr(r) \/ GuardOwn(r) \/ GuardFails(r) \/ Die(r)

\* A step of one run leaves the state of the others.
OnlyOf(r) ==
  \A s \in Runs \ {r} : /\ pc'[s] = pc[s] /\ write'[s] = write[s]
                        /\ todo'[s] = todo[s] /\ outcome'[s] = outcome[s]

RunTypes ==
  /\ pc' \in [Runs -> Stages] /\ todo' \in [Runs -> Seq(Kinds)]
  /\ write' \in [Runs -> Writes \cup {"none"}]
  /\ outcome' \in [Runs -> [Kinds -> Outcomes]] /\ noted' \in [Runs -> BOOLEAN]

\* What the other proofs use of the way a run goes on.
GoesOn(r) ==
  /\ RunTypes /\ OnlyOf(r)
  /\ pc[r] # "idle" /\ pc'[r] # "idle"
  /\ todo'[r] = todo[r] \/ (todo[r] # <<>> /\ todo'[r] = Tail(todo[r]))
  /\ HandledOp(r)' /\ PreparedOp(r)'

LEMMA Goes ==
  ASSUME TypeOK, NEW r \in Runs, NEW p \in Stages, Goto(r, p)
  PROVE  /\ pc' \in [Runs -> Stages] /\ write' \in [Runs -> Writes \cup {"none"}]
         /\ pc'[r] = p /\ write' = write
         /\ \A s \in Runs \ {r} : pc'[s] = pc[s]
BY DEF TypeOK, Goto, Stages

LEMMA Prepares ==
  ASSUME TypeOK, NEW r \in Runs, NEW w \in Writes, Prepare(r, w)
  PROVE  /\ pc' \in [Runs -> Stages] /\ write' \in [Runs -> Writes \cup {"none"}]
         /\ pc'[r] = "guard" /\ write'[r] = w
         /\ \A s \in Runs \ {r} : pc'[s] = pc[s] /\ write'[s] = write[s]
BY DEF TypeOK, Prepare, Stages

LEMMA Reports ==
  ASSUME TypeOK, NEW r \in Runs, NEW o \in Outcomes, Report(r, o)
  PROVE  /\ outcome' \in [Runs -> [Kinds -> Outcomes]]
         /\ outcome'[r]["comment"] = IF Op(r) = "comment" THEN o ELSE outcome[r]["comment"]
         /\ \A s \in Runs \ {r} : outcome'[s] = outcome[s]
BY DEF TypeOK, Report, Kinds

LEMMA Proceeds ==
  ASSUME TypeOK, NEW r \in Runs, todo[r] # <<>>, Next1(r)
  PROVE  /\ pc' \in [Runs -> Stages] /\ write' \in [Runs -> Writes \cup {"none"}]
         /\ todo' \in [Runs -> Seq(Kinds)]
         /\ pc'[r] = "next" /\ write' = write /\ todo'[r] = Tail(todo[r])
         /\ \A s \in Runs \ {r} : pc'[s] = pc[s] /\ todo'[s] = todo[s]
<1>1. Goto(r, "next") /\ "next" \in Stages /\ todo' = [todo EXCEPT ![r] = Tail(@)]
  BY DEF Next1, Stages
<1>2. todo[r] \in Seq(Kinds) /\ Tail(todo[r]) \in Seq(Kinds)
  BY DEF TypeOK
<1> QED
  BY <1>1, <1>2, Goes DEF TypeOK

\* What the other proofs use of a step that reads: which writes it prepares, and
\* what it knows of the issue when it does.
ReadStep(r) ==
  /\ GoesOn(r) /\ Reading(r) /\ seen' \in [Runs -> BOOLEAN]
  /\ pc'[r] \in Guarded =>
       \/ pc[r] \in Guarded /\ write'[r] = write[r]
       \/ /\ pc'[r] = "guard" /\ write'[r] \notin {"comment", "posted"}
          /\ write'[r] = "link" /\ plan[r].sync => assoc = plan[r].pr
  /\ pc'[r] \in {"guardPr", "guardOwn", "send"} =>
       Authorized(r) \/ pc[r] \in {"guardPr", "guardOwn"}
  /\ pc'[r] = "send" /\ plan[r].sync /\ write'[r] # "associate" => Owned(r)
  /\ Says(r)' => Says(r) \/ claim[plan[r].intent] = "posted"

LEMMA Stops ==
  ASSUME TypeOK, NEW r \in Runs, NEW o \in {"stale", "unverified", "blocked", "failed"},
         pc[r] # "idle", Stop(r, o), Reading(r), UNCHANGED seen
  PROVE  ReadStep(r)
<1> o \in Outcomes /\ "stopped" \in Stages
  BY DEF Outcomes, Stages
<1> QED
  BY Goes, Reports DEF ReadStep, GoesOn, RunTypes, OnlyOf, Guarded, Says, Stop, HandledOp,
                       PreparedOp, TypeOK

LEMMA Settles ==
  ASSUME TypeOK, NEW r \in Runs, NEW o \in Outcomes, pc[r] # "idle", todo[r] # <<>>,
         outcome' = outcome \/ Report(r, o), Next1(r), noted' \in [Runs -> BOOLEAN],
         Reading(r), UNCHANGED seen,
         \/ Op(r) # "comment" \/ o \notin {"applied", "already_applied"}
         \/ claim[plan[r].intent] = "posted"
  PROVE  ReadStep(r)
<1>1. /\ outcome' \in [Runs -> [Kinds -> Outcomes]]
      /\ Says(r)' => Says(r) \/ claim[plan[r].intent] = "posted"
      /\ \A s \in Runs \ {r} : outcome'[s] = outcome[s]
  BY Reports DEF Says, TypeOK
<1>2. HandledOp(r)' /\ PreparedOp(r)'
  BY Proceeds DEF HandledOp, PreparedOp, Guarded
<1> QED
  BY <1>1, <1>2, Proceeds DEF ReadStep, GoesOn, RunTypes, OnlyOf, Guarded, TypeOK

LEMMA Readies ==
  ASSUME TypeOK, NEW r \in Runs, NEW w \in Writes, pc[r] # "idle", Prepare(r, w),
         Reading(r), UNCHANGED <<todo, outcome, noted, seen>>,
         w \notin {"comment", "posted"}, w # "ledger" => todo[r] # <<>>,
         w = "assign" => Op(r) = "assign", w = "transition" => Op(r) = "transition",
         w \in {"associate", "link"} => Op(r) = "link",
         w \in {"claim", "unverified"} => Op(r) = "comment",
         w = "link" /\ plan[r].sync => assoc = plan[r].pr
  PROVE  ReadStep(r)
<1>1. HandledOp(r)' /\ PreparedOp(r)'
  BY Prepares DEF HandledOp, PreparedOp, Guarded, Op, Writes
<1> QED
  BY <1>1, Prepares DEF ReadStep, GoesOn, RunTypes, OnlyOf, Guarded, Says, TypeOK

\* How a run goes on when a write, or a read of its guard, has failed.
LEMMA Fails ==
  ASSUME TypeOK, OpInv, NEW r \in Runs, pc[r] \in Guarded, Failed(r)
  PROVE  /\ GoesOn(r) /\ (Says(r)' => Says(r))
         /\ pc'[r] \in Guarded => pc'[r] = "guard" /\ write'[r] = "unverified"
<1> USE DEF GoesOn, RunTypes, OnlyOf, Stages, Outcomes, Guarded, Says, HandledOp, PreparedOp,
            TypeOK, OpInv, Writes, Op
<1>1. CASE Stop(r, "failed")
  BY <1>1, Goes, Reports DEF Stop
<1>2. CASE Goto(r, "recover") /\ write[r] = "claim" /\ UNCHANGED <<todo, outcome, noted>>
  BY <1>2, Goes
<1>3. CASE /\ Report(r, "unverified") /\ Prepare(r, "unverified")
           /\ write[r] = "comment" /\ UNCHANGED <<todo, noted>>
  BY <1>3, Reports, Prepares
<1>4. CASE Next1(r) /\ write[r] \in {"posted", "unverified"} /\ UNCHANGED <<outcome, noted>>
  BY <1>4, Proceeds
<1>5. CASE Goto(r, "stopped") /\ UNCHANGED <<todo, outcome, noted>>
  BY <1>5, Goes
<1> QED
  BY <1>1, <1>2, <1>3, <1>4, <1>5 DEF Failed

LEMMA GuardFailsReads ==
  ASSUME TypeOK, OpInv, NEW r \in Runs, GuardFails(r)
  PROVE  ReadStep(r)
<1>1. /\ pc[r] \in Guarded /\ Failed(r) /\ Reading(r)
      /\ UNCHANGED seen /\ seen \in [Runs -> BOOLEAN]
  BY DEF GuardFails, Guarded, TypeOK
<1>2. /\ GoesOn(r) /\ (Says(r)' => Says(r))
      /\ pc'[r] \in Guarded => pc'[r] = "guard" /\ write'[r] = "unverified"
  BY <1>1, Fails
<1> QED
  BY <1>1, <1>2 DEF ReadStep, Guarded

LEMMA EntryReads ==
  ASSUME TypeOK, OpInv, NEW r \in Runs,
         CheckConflict(r) \/ Preflight(r) \/ Refresh(r) \/ ReadFails(r)
  PROVE  ReadStep(r)
<1> USE DEF ReadStep, GoesOn, RunTypes, OnlyOf, Stages, Outcomes, Guarded, Says, Stop
<1>1. CASE CheckConflict(r)
  BY <1>1, Goes, Reports DEF CheckConflict, HandledOp, PreparedOp, TypeOK, OpInv
<1>2. CASE Preflight(r)
  BY <1>2, Goes, Reports DEF Preflight, HandledOp, PreparedOp, TypeOK, OpInv
<1>3. CASE Refresh(r)
  <2>1. CASE Stop(r, "blocked") /\ UNCHANGED seen
    BY <1>3, <2>1, Stops DEF Refresh
  <2>2. CASE Continue(r, "stale") /\ UNCHANGED seen
    BY <1>3, <2>2, Settles DEF Refresh, Continue, TypeOK
  <2>3. CASE /\ seen' = [seen EXCEPT ![r] = Satisfied(r)]
             /\ Goto(r, "handle") /\ UNCHANGED <<todo, outcome, noted>>
    <3>1. Satisfied(r) \in BOOLEAN
      BY DEF Satisfied
    <3> QED
      BY <1>3, <2>3, <3>1, Goes DEF Refresh, HandledOp, PreparedOp, TypeOK
  <2> QED
    BY <1>3, <2>1, <2>2, <2>3 DEF Refresh
<1>4. CASE ReadFails(r)
  BY <1>4, Goes, Reports DEF ReadFails, HandledOp, PreparedOp, TypeOK, OpInv
<1> QED
  BY <1>1, <1>2, <1>3, <1>4

LEMMA EffectReads ==
  ASSUME TypeOK, OpInv, NEW r \in Runs,
         HandleAssign(r) \/ HandleTransition(r) \/ HandleLink(r) \/ Associate(r) \/ Joined(r)
  PROVE  ReadStep(r)
<1> USE DEF ReadStep, GoesOn, RunTypes, OnlyOf, Stages, Outcomes, Guarded, Says, Stop,
            HandledOp, PreparedOp, TypeOK, OpInv, Recorded, Writes, Op
<1>1. CASE HandleAssign(r)
  <2>1. CASE Recorded(r, "already_applied")
    BY <1>1, <2>1, Settles DEF HandleAssign
  <2>2. CASE Stop(r, "blocked")
    BY <1>1, <2>2, Stops DEF HandleAssign
  <2>3. CASE Prepare(r, "assign") /\ UNCHANGED <<todo, outcome, noted>>
    BY <1>1, <2>3, Readies DEF HandleAssign
  <2> QED
    BY <1>1, <2>1, <2>2, <2>3 DEF HandleAssign
<1>2. CASE HandleTransition(r)
  <2>1. CASE Recorded(r, "already_applied")
    BY <1>2, <2>1, Settles DEF HandleTransition
  <2>2. CASE Stop(r, "blocked")
    BY <1>2, <2>2, Stops DEF HandleTransition
  <2>3. CASE Prepare(r, "transition") /\ UNCHANGED <<todo, outcome, noted>>
    BY <1>2, <2>3, Readies DEF HandleTransition
  <2> QED
    BY <1>2, <2>1, <2>2, <2>3 DEF HandleTransition
<1>3. CASE HandleLink(r)
  <2>1. CASE Recorded(r, "already_applied")
    BY <1>3, <2>1, Settles DEF HandleLink
  <2>2. CASE plan[r].sync /\ Goto(r, "associate") /\ UNCHANGED <<todo, outcome, noted>>
    BY <1>3, <2>2, Goes DEF HandleLink
  <2>3. CASE ~plan[r].sync /\ Prepare(r, "link") /\ UNCHANGED <<todo, outcome, noted>>
    BY <1>3, <2>3, Readies DEF HandleLink
  <2> QED
    BY <1>3, <2>1, <2>2, <2>3 DEF HandleLink
<1>4. CASE Associate(r)
  BY SMTT(30), <1>4, Goes, Reports, Prepares DEF Associate
<1>5. CASE Joined(r)
  BY SMTT(30), <1>5, Goes, Reports, Prepares DEF Joined
<1> QED
  BY <1>1, <1>2, <1>3, <1>4, <1>5

LEMMA ClaimReads ==
  ASSUME TypeOK, OpInv, NEW r \in Runs,
         HandleComment(r) \/ Recover(r) \/ Finish(r) \/ Die(r)
  PROVE  ReadStep(r)
<1> USE DEF ReadStep, GoesOn, RunTypes, OnlyOf, Stages, Outcomes, Guarded, Says, Stop,
            HandledOp, PreparedOp, TypeOK, OpInv, Continue, Writes, Op
<1>1. CASE HandleComment(r)
  BY <1>1, Settles, Readies DEF HandleComment, Confirmed
<1>2. CASE Recover(r)
  BY <1>2, Stops, Settles DEF Recover
<1>3. CASE Finish(r)
  BY <1>3, Goes, Prepares DEF Finish
<1>4. CASE Die(r)
  BY <1>4, Goes DEF Die
<1> QED
  BY <1>1, <1>2, <1>3, <1>4

LEMMA GuardReads ==
  ASSUME TypeOK, OpInv, NEW r \in Runs,
         Guard(r) \/ GuardPr(r) \/ GuardOwn(r) \/ GuardFails(r)
  PROVE  ReadStep(r)
<1> USE DEF ReadStep, GoesOn, RunTypes, OnlyOf, Stages, Outcomes, Guarded, Says, Stop,
            HandledOp, PreparedOp, TypeOK, OpInv, Continue, Writes, Op, Refused
<1>1. CASE Guard(r)
  BY ZenonT(30), <1>1, Goes, Reports DEF Guard, MayWrite
<1>2. CASE GuardPr(r)
  BY <1>2, Goes, Reports DEF GuardPr
<1>3. CASE GuardOwn(r)
  BY ZenonT(30), <1>3, Goes, Reports DEF GuardOwn
<1>4. CASE GuardFails(r)
  BY <1>4, GuardFailsReads
<1> QED
  BY <1>1, <1>2, <1>3, <1>4

LEMMA Read ==
  ASSUME TypeOK, OpInv, NEW r \in Runs, Reads(r)
  PROVE  ReadStep(r)
BY EntryReads, EffectReads, ClaimReads, GuardReads DEF Reads
-----------------------------------------------------------------------------
\* The other steps of a run: it begins, or makes a write.
Begins(r) ==
  /\ pc[r] = "idle" /\ pc'[r] \in {"conflict", "preflight"} /\ plan'[r] \in Plans
  /\ todo'[r] = plan'[r].ops /\ todo'[r] # <<>>
  /\ RunTypes /\ OnlyOf(r) /\ plan' \in [Runs -> Plans \cup {NoPlan}]
  /\ \A s \in Runs \ {r} : plan'[s] = plan[s]
  /\ UNCHANGED <<issue, seen, outcome, writes, flight, moves>>

Sends(r) ==
  /\ GoesOn(r) /\ Attempt(r) /\ UNCHANGED <<plan, seen, moves>>
  /\ pc'[r] \notin {"guardPr", "guardOwn", "send"}

IsAnswered(r) ==
  /\ Sends(r) /\ Lands(r, write[r]) /\ UNCHANGED flight
  /\ pc'[r] = "guard" =>
       \/ /\ write[r] = "claim" /\ write'[r] = "comment"
          /\ claim[plan[r].intent] = "none"
       \/ write[r] = "comment" /\ write'[r] = "posted"
  /\ Says(r)' => Says(r) \/ write[r] = "comment"

IsUnanswered(r) ==
  /\ Sends(r) /\ UNCHANGED issue
  /\ flight' \in {flight, flight \cup {[run |-> r, write |-> write[r]]}}
  /\ pc'[r] = "guard" => write'[r] = "unverified"
  /\ Says(r)' => Says(r)

LEMMA Starts ==
  ASSUME TypeOK, NEW r \in Runs, Start(r)
  PROVE  Begins(r)
<1>1. PICK p \in Plans :
         /\ p.ops # <<>>
         /\ plan' = [plan EXCEPT ![r] = p] /\ todo' = [todo EXCEPT ![r] = p.ops]
         /\ Goto(r, IF p.sync THEN "conflict" ELSE "preflight")
  BY DEF Start
<1>2. p.ops \in Seq(Kinds)
  BY PlanShape
<1> QED
  BY <1>1, <1>2, Goes DEF Start, Begins, RunTypes, OnlyOf, TypeOK, Stages

LEMMA Answers ==
  ASSUME TypeOK, OpInv, NEW r \in Runs, Answered(r)
  PROVE  IsAnswered(r)
<1> USE DEF Answered, Attempt, IsAnswered, Sends, GoesOn, RunTypes, OnlyOf, Stages, Outcomes,
            Guarded, Says, HandledOp, PreparedOp, TypeOK, OpInv, Writes, Op
<1>1. CASE write[r] \in {"assign", "transition", "link"} /\ Recorded(r, "applied")
  BY <1>1, Proceeds, Reports DEF Recorded
<1>2. CASE write[r] = "associate" /\ Goto(r, "joined") /\ UNCHANGED <<todo, outcome, noted>>
  BY <1>2, Goes
<1>3. CASE /\ write[r] = "claim" /\ MayPost(r)
           /\ Prepare(r, "comment") /\ UNCHANGED <<todo, outcome, noted>>
  BY <1>3, Prepares DEF MayPost
<1>4. CASE write[r] = "claim" /\ Continue(r, "unverified")
  BY <1>4, Proceeds, Reports DEF Continue
<1>5. CASE /\ write[r] = "comment"
           /\ Report(r, "applied") /\ Prepare(r, "posted") /\ UNCHANGED <<todo, noted>>
  BY <1>5, Prepares, Reports
<1>6. CASE write[r] \in {"posted", "unverified"} /\ Next1(r) /\ UNCHANGED <<outcome, noted>>
  BY <1>6, Proceeds
<1>7. CASE Goto(r, "stopped") /\ UNCHANGED <<todo, outcome, noted>>
  BY <1>7, Goes
<1> QED
  BY <1>1, <1>2, <1>3, <1>4, <1>5, <1>6, <1>7 DEF Succeeded

LEMMA Unanswers ==
  ASSUME TypeOK, OpInv, NEW r \in Runs, Unanswered(r)
  PROVE  IsUnanswered(r)
<1>1. pc[r] \in Guarded /\ Failed(r)
  BY DEF Unanswered, Attempt, Guarded
<1>2. /\ GoesOn(r) /\ (Says(r)' => Says(r))
      /\ pc'[r] \in Guarded => pc'[r] = "guard" /\ write'[r] = "unverified"
  BY <1>1, Fails
<1> QED
  BY <1>2 DEF Unanswered, IsUnanswered, Sends, Guarded

\* What a step of the specification is, for the proofs below.
LEMMA Steps ==
  ASSUME TypeOK, OpInv, Next
  PROVE  /\ Track
         /\ \/ \E r \in Runs : Begins(r) \/ ReadStep(r) \/ IsAnswered(r) \/ IsUnanswered(r)
            \/ Land \/ Moved
BY Starts, Read, Answers, Unanswers DEF Next, Step, Reads
-----------------------------------------------------------------------------
(* Types and plans.                                                         *)
IssueTypes ==
  /\ inScope \in BOOLEAN /\ status \in Statuses
  /\ assignee \in {"none", "self", "other"}
  /\ links \subseteq Prs /\ assoc \in Prs \cup {"none"}
  /\ claim \in [Intents -> Claims] /\ comments \in [Intents -> Nat]

\* A write that takes effect is one the plan gives a status or an intent to.
LEMMA LandsTypes ==
  ASSUME TypeOK, NEW r \in Runs, NEW w \in Writes, Lands(r, w),
         plan[r].pr \in Prs, w = "transition" => plan[r].target \in Categories
  PROVE  IssueTypes'
<1>1. inScope' \in BOOLEAN /\ status' \in Statuses /\ assignee' \in {"none", "self", "other"}
  BY DEF Lands, TypeOK, Statuses
<1>2. links' \subseteq Prs /\ assoc' \in Prs \cup {"none"}
  BY DEF Lands, TypeOK, Associated
<1>3. claim' \in [Intents -> Claims]
  BY DEF Lands, TypeOK, ClaimState, Claims
<1>4. comments' \in [Intents -> Nat]
  <2> DEFINE i == plan[r].intent
  <2>1. [comments EXCEPT ![i] = @ + 1] \in [Intents -> Nat]
    <3>1. ASSUME NEW j \in Intents
          PROVE  [comments EXCEPT ![i] = @ + 1][j] \in Nat
      BY DEF TypeOK
    <3> QED
      BY <3>1 DEF TypeOK
  <2> QED
    BY <2>1 DEF Lands, TypeOK
<1> QED
  BY <1>1, <1>2, <1>3, <1>4 DEF IssueTypes

\* What a run that has begun writes with.
LEMMA Begun ==
  ASSUME TypeOK, PlanInv, NEW r \in Runs, pc[r] # "idle"
  PROVE  plan[r].pr \in Prs /\ plan[r].intent \in Intents \cup {NoIntent}
BY PlanShape DEF PlanInv

LEMMA EffectOfOp ==
  ASSUME TypeOK, EffectInv, NEW r \in Runs, todo[r] # <<>>, Op(r) \in {"transition", "comment"}
  PROVE  Effective(r)
<1>1. 1 \in 1 .. Len(todo[r]) /\ Op(r) = todo[r][1]
  BY DEF TypeOK, Op
<1> QED
  BY <1>1 DEF EffectInv

LEMMA Sent ==
  ASSUME TypeOK, OpInv, PlanInv, EffectInv, NEW r \in Runs, Attempt(r)
  PROVE  /\ pc[r] # "idle" /\ write[r] \in Writes /\ plan[r].pr \in Prs
         /\ write[r] \in {"transition", "claim", "comment", "posted", "unverified"} => Effective(r)
<1>1. pc[r] = "send" /\ pc[r] \in Guarded
  BY DEF Attempt, Guarded
<1>2. PreparedOp(r) /\ write[r] # "none" /\ write[r] \in Writes \cup {"none"}
  BY <1>1 DEF OpInv, PreparedOp, TypeOK
<1>3. ASSUME write[r] \in {"transition", "claim", "comment", "posted", "unverified"}
      PROVE  Effective(r)
  BY <1>1, <1>2, <1>3, EffectOfOp DEF PreparedOp
<1> QED
  BY <1>1, <1>2, <1>3, Begun

LEMMA TypeStep ==
  ASSUME TypeOK, OpInv, PlanInv, EffectInv, [Next]_vars
  PROVE  TypeOK'
<1> USE DEF RunTypes, Stages
<1>1. CASE UNCHANGED vars
  BY <1>1 DEF TypeOK, vars, issue, run
<1>2. CASE Next
  <2>1. astray' \subseteq Runs
    BY <1>2, Steps DEF Track
  <2>2. ASSUME NEW r \in Runs, Begins(r)
        PROVE  TypeOK'
    BY <2>1, <2>2 DEF Begins, TypeOK, issue
  <2>3. ASSUME NEW r \in Runs, ReadStep(r)
        PROVE  TypeOK'
    BY <2>1, <2>3 DEF ReadStep, GoesOn, Reading, TypeOK, issue
  <2>4. ASSUME NEW r \in Runs, IsAnswered(r)
        PROVE  TypeOK'
    <3>1. IssueTypes'
      BY <2>4, Sent, LandsTypes DEF IsAnswered, Sends, Effective
    <3> QED
      BY <2>1, <2>4, <3>1 DEF IsAnswered, Sends, Attempt, GoesOn, IssueTypes, TypeOK
  <2>5. ASSUME NEW r \in Runs, IsUnanswered(r)
        PROVE  TypeOK'
    <3>1. [run |-> r, write |-> write[r]] \in [run : Runs, write : Writes]
      BY <2>5, Sent DEF IsUnanswered, Sends
    <3>2. flight' \subseteq [run : Runs, write : Writes]
      BY <2>5, <3>1 DEF IsUnanswered, TypeOK
    <3> QED
      BY <2>1, <2>5, <3>2 DEF IsUnanswered, Sends, Attempt, GoesOn, TypeOK, issue
  <2>6. CASE Land
    <3>1. PICK f \in flight : Lands(f.run, f.write) /\ flight' = flight \ {f}
                              /\ UNCHANGED <<run, moves>>
      BY <2>6 DEF Land
    <3>2. /\ f.run \in Runs /\ f.write \in Writes /\ plan[f.run].pr \in Prs
          /\ f.write = "transition" => plan[f.run].target \in Categories
      BY Begun DEF TypeOK, EffectInv, Effective
    <3>3. IssueTypes'
      BY <3>1, <3>2, LandsTypes
    <3> QED
      BY <2>1, <3>1, <3>3 DEF IssueTypes, TypeOK, run
  <2>7. CASE Moved
    <3>1. moves' \in 0 .. Moves
      BY <2>7, PlanAssumption DEF Moved, TypeOK
    <3>2. IssueTypes'
      BY <2>7 DEF Moved, TypeOK, IssueTypes
    <3> QED
      BY <2>1, <2>7, <3>1, <3>2 DEF Moved, TypeOK, IssueTypes, run
  <2> QED
    BY <1>2, <2>2, <2>3, <2>4, <2>5, <2>6, <2>7, Steps
<1> QED
  BY <1>1, <1>2

\* A write that lands leaves the runs where they are.
LEMMA LandFacts ==
  ASSUME TypeOK, EffectInv, PlanInv, Land
  PROVE  \E f \in flight :
           /\ f.run \in Runs /\ f.write \in Writes /\ f = [run |-> f.run, write |-> f.write]
           /\ pc[f.run] # "idle" /\ plan[f.run].pr \in Prs
           /\ Lands(f.run, f.write) /\ flight' = flight \ {f} /\ UNCHANGED <<run, moves>>
<1>1. PICK f \in flight : Lands(f.run, f.write) /\ flight' = flight \ {f}
                          /\ UNCHANGED <<run, moves>>
  BY DEF Land
<1>2. f \in [run : Runs, write : Writes] /\ pc[f.run] # "idle"
  BY DEF TypeOK, EffectInv
<1>3. f.run \in Runs /\ f.write \in Writes /\ f = [run |-> f.run, write |-> f.write]
  BY <1>2
<1> QED
  BY <1>1, <1>2, <1>3, Begun

LEMMA PlanStep ==
  ASSUME TypeOK, OpInv, PlanInv, EffectInv, [Next]_vars
  PROVE  PlanInv'
<1> USE DEF PlanInv, Says
<1>1. CASE UNCHANGED vars
  BY <1>1 DEF vars, run
<1>2. CASE Next
  <2>1. ASSUME NEW r \in Runs, Begins(r)
        PROVE  PlanInv'
    BY <2>1 DEF Begins, OnlyOf
  <2>2. ASSUME NEW r \in Runs, GoesOn(r), plan' = plan
        PROVE  PlanInv'
    BY <2>2 DEF GoesOn, OnlyOf
  <2>3. CASE Land \/ Moved
    BY <2>3 DEF Land, Moved, run
  <2> QED
    BY <1>2, <2>1, <2>2, <2>3, Steps DEF ReadStep, Reading, IsAnswered, IsUnanswered, Sends
<1> QED
  BY <1>1, <1>2

LEMMA OpStep ==
  ASSUME TypeOK, OpInv, [Next]_vars
  PROVE  OpInv'
<1> USE DEF OpInv, HandledOp, PreparedOp, Op
<1>1. CASE UNCHANGED vars
  BY <1>1 DEF vars, run
<1>2. CASE Next
  <2>1. ASSUME NEW r \in Runs, Begins(r)
        PROVE  OpInv'
    BY <2>1 DEF Begins, OnlyOf, Guarded
  <2>2. ASSUME NEW r \in Runs, GoesOn(r)
        PROVE  OpInv'
    BY <2>2 DEF GoesOn, OnlyOf
  <2>3. CASE Land \/ Moved
    BY <2>3 DEF Land, Moved, run
  <2> QED
    BY <1>2, <2>1, <2>2, <2>3, Steps DEF ReadStep, IsAnswered, IsUnanswered, Sends
<1> QED
  BY <1>1, <1>2

LEMMA EffectStep ==
  ASSUME TypeOK, OpInv, PlanInv, EffectInv, [Next]_vars
  PROVE  EffectInv'
<1> USE DEF EffectInv, Effective
<1>1. CASE UNCHANGED vars
  BY <1>1 DEF vars, run
<1>2. CASE Next
  <2>1. ASSUME NEW r \in Runs, Begins(r)
        PROVE  EffectInv'
    <3>1. \/ plan'[r].intent \in Intents /\ plan'[r].target \in Categories
          \/ \A j \in 1 .. Len(todo'[r]) : todo'[r][j] \in {"assign", "link"}
      BY <2>1, PlanShape DEF Begins
    <3>2. \A f \in flight : f.run \in Runs \ {r}
      BY <2>1 DEF Begins, TypeOK
    <3> QED
      BY <2>1, <3>1, <3>2 DEF Begins, OnlyOf
  <2>2. ASSUME NEW r \in Runs, GoesOn(r), plan' = plan
        PROVE  \A s \in Runs : \/ Effective(s)'
                               \/ \A j \in 1 .. Len(todo'[s]) : todo'[s][j] \in {"assign", "link"}
    <3>1. CASE todo'[r] = todo[r]
      BY <2>2, <3>1 DEF GoesOn, OnlyOf
    <3>2. CASE todo[r] # <<>> /\ todo'[r] = Tail(todo[r])
      <4>1. /\ Len(todo'[r]) = Len(todo[r]) - 1 /\ Len(todo[r]) \in Nat
            /\ \A j \in 1 .. Len(todo'[r]) : todo'[r][j] = todo[r][j + 1]
        BY <3>2 DEF TypeOK
      <4>2. \A j \in 1 .. Len(todo'[r]) : j + 1 \in 1 .. Len(todo[r])
        BY <4>1
      <4>3. ASSUME \A j \in 1 .. Len(todo[r]) : todo[r][j] \in {"assign", "link"}
            PROVE  \A j \in 1 .. Len(todo'[r]) : todo'[r][j] \in {"assign", "link"}
        BY <4>1, <4>2, <4>3
      <4> QED
        BY <2>2, <4>3 DEF GoesOn, OnlyOf
    <3> QED
      BY <2>2, <3>1, <3>2 DEF GoesOn
  <2>3. ASSUME NEW r \in Runs, GoesOn(r), plan' = plan, NEW f \in flight
        PROVE  pc'[f.run] # "idle" /\ (f.write = "transition" => Effective(f.run)')
    BY <2>3 DEF GoesOn, OnlyOf, TypeOK
  <2>4. ASSUME NEW r \in Runs, ReadStep(r) \/ IsAnswered(r)
        PROVE  EffectInv'
    BY <2>2, <2>3, <2>4 DEF ReadStep, Reading, IsAnswered, Sends
  <2>5. ASSUME NEW r \in Runs, IsUnanswered(r)
        PROVE  EffectInv'
    <3>1. GoesOn(r) /\ plan' = plan /\ pc'[r] # "idle"
      BY <2>5 DEF IsUnanswered, Sends, GoesOn
    <3>2. write[r] = "transition" => Effective(r)'
      BY <2>5, Sent DEF IsUnanswered, Sends
    <3> QED
      BY <2>2, <2>3, <2>5, <3>1, <3>2 DEF IsUnanswered
  <2>6. CASE Land \/ Moved
    BY <2>6 DEF Land, Moved, run
  <2> QED
    BY <1>2, <2>1, <2>4, <2>5, <2>6, Steps
<1> QED
  BY <1>1, <1>2
-----------------------------------------------------------------------------
(* The comment.                                                             *)
LEMMA LandsComment ==
  ASSUME TypeOK, NEW r \in Runs, NEW w \in Writes, Lands(r, w), NEW i \in Intents
  PROVE  /\ comments'[i] = IF w = "comment" /\ plan[r].intent = i
                           THEN comments[i] + 1 ELSE comments[i]
         /\ claim'[i] = IF /\ w \in {"claim", "posted", "unverified"}
                          /\ plan[r].intent = i
                        THEN ClaimState(w) ELSE claim[i]
         /\ comments[i] \in Nat
BY DEF Lands, TypeOK

\* No run gets the right to post, and no comment is posted.
LEMMA NoneGained ==
  ASSUME CommentInv,
         \A s \in Runs, i \in Intents : Posting(s, i)' => Posting(s, i),
         \A s \in Runs : ~(Has(s, "comment") /\ InFlight(s, "comment"))',
         \A i \in Intents : comments'[i] = comments[i] /\ (claim'[i] = "none" => claim[i] = "none")
  PROVE  (CommentInv /\ OnceInv)'
BY DEF CommentInv, OnceInv

\* The run that had the right has used it.
LEMMA RightUsed ==
  ASSUME TypeOK, CommentInv, NEW r \in Runs, Posting(r, plan[r].intent),
         NEW w \in Writes, w = "comment", Lands(r, w), ~Posting(r, plan[r].intent)',
         \A s \in Runs, i \in Intents : Posting(s, i)' => Posting(s, i),
         \A s \in Runs : ~(Has(s, "comment") /\ InFlight(s, "comment"))'
  PROVE  (CommentInv /\ OnceInv)'
<1>1. \A i \in Intents : /\ i # plan[r].intent => comments'[i] = comments[i]
                         /\ i = plan[r].intent => comments'[i] = comments[i] + 1
                         /\ claim'[i] = claim[i]
  BY LandsComment
<1>2. \A i \in Intents : i # plan[r].intent =>
        /\ comments'[i] <= 1
        /\ claim'[i] = "none" => comments'[i] = 0 /\ \A s \in Runs : ~Posting(s, i)'
        /\ \A s \in Runs : Posting(s, i)' => comments'[i] = 0
  BY <1>1 DEF CommentInv
<1>3. \A i \in Intents : i = plan[r].intent =>
        comments'[i] = 1 /\ claim'[i] # "none" /\ \A s \in Runs : ~Posting(s, i)'
  <2> SUFFICES ASSUME NEW i \in Intents, i = plan[r].intent
               PROVE  comments'[i] = 1 /\ claim'[i] # "none" /\ \A s \in Runs : ~Posting(s, i)'
    OBVIOUS
  <2>1. comments[i] = 0 /\ claim[i] # "none" /\ \A s \in Runs : Posting(s, i) => s = r
    BY DEF CommentInv
  <2>2. \A s \in Runs : Posting(s, i)' => s = r
    BY <2>1
  <2>3. ~Posting(r, i)'
    BY DEF Posting
  <2> QED
    BY <1>1, <2>1, <2>2, <2>3
<1>4. \A i \in Intents : \A s, u \in Runs : Posting(s, i)' /\ Posting(u, i)' => s = u
  BY DEF CommentInv
<1> QED
  BY <1>2, <1>3, <1>4 DEF CommentInv, OnceInv

\* What is in flight of a run, and what it has prepared, is of its plan.
LEMMA CommentStep ==
  ASSUME TypeOK, OpInv, PlanInv, EffectInv, CommentInv, OnceInv, [Next]_vars
  PROVE  (CommentInv /\ OnceInv)'
<1> USE DEF Posting, Has, InFlight
<1>1. CASE UNCHANGED vars
  BY <1>1 DEF CommentInv, OnceInv, vars, run, issue
<1>2. ASSUME NEW r \in Runs, Begins(r)
      PROVE  (CommentInv /\ OnceInv)'
  <2>1. \A w : [run |-> r, write |-> w] \notin flight
    BY <1>2 DEF Begins, EffectInv
  <2> QED
    BY <1>2, <2>1, NoneGained DEF Begins, OnlyOf, Guarded, OnceInv, issue
<1>3. ASSUME NEW r \in Runs, ReadStep(r)
      PROVE  (CommentInv /\ OnceInv)'
  BY <1>3, NoneGained DEF ReadStep, GoesOn, OnlyOf, Reading, Guarded, OnceInv, issue
<1>4. ASSUME NEW r \in Runs, IsUnanswered(r)
      PROVE  (CommentInv /\ OnceInv)'
  <2>1. /\ pc[r] \in Guarded /\ UNCHANGED <<issue, plan>>
        /\ pc'[r] \in Guarded => write'[r] = "unverified"
        /\ OnlyOf(r)
        /\ flight' \in {flight, flight \cup {[run |-> r, write |-> write[r]]}}
    BY <1>4 DEF IsUnanswered, Sends, Attempt, GoesOn, Guarded
  <2>2. \A s \in Runs : InFlight(s, "comment")' =>
          InFlight(s, "comment") \/ (s = r /\ Has(r, "comment"))
    BY <2>1
  <2>3. \A s \in Runs : Has(s, "comment")' => Has(s, "comment") /\ s # r
    BY <2>1 DEF OnlyOf
  <2> QED
    BY <2>1, <2>2, <2>3, NoneGained DEF OnceInv, issue
<1>5. ASSUME NEW r \in Runs, IsAnswered(r)
      PROVE  (CommentInv /\ OnceInv)'
  <2>1. /\ pc[r] \in Guarded /\ UNCHANGED <<plan, flight>> /\ Attempt(r)
        /\ OnlyOf(r) /\ Lands(r, write[r]) /\ write[r] \in Writes
        /\ write[r] \in {"claim", "comment"} => plan[r].intent \in Intents
    BY <1>5, Sent DEF IsAnswered, Sends, Attempt, GoesOn, Guarded, Effective
  <2>2. pc'[r] \in Guarded =>
          \/ /\ write[r] = "claim" /\ write'[r] = "comment"
             /\ claim[plan[r].intent] = "none"
          \/ write[r] = "comment" /\ write'[r] = "posted"
    BY <1>5 DEF IsAnswered, Sends, Guarded
  <2>3. CASE Has(r, "comment")'
    <3> DEFINE i == plan[r].intent
    <3>1. i \in Intents /\ write[r] = "claim" /\ claim[i] = "none"
      BY <2>1, <2>2, <2>3
    <3>2. claim'[i] = "claimed" /\ comments'[i] = comments[i]
      BY <2>1, <3>1, LandsComment DEF ClaimState
    <3>3. \A j \in Intents : comments'[j] = comments[j] /\ (j # i => claim'[j] = claim[j])
      BY <2>1, <3>1, LandsComment
    <3>4. comments[i] = 0 /\ \A s \in Runs : ~Posting(s, i)
      BY <3>1 DEF CommentInv
    <3>5. \A s \in Runs, j \in Intents : Posting(s, j)' => Posting(s, j) \/ (s = r /\ j = i)
      BY <2>1 DEF OnlyOf
    <3>6. \A s \in Runs : ~(Has(s, "comment") /\ InFlight(s, "comment"))'
      BY <2>1, <3>4 DEF OnlyOf, OnceInv
    <3>7. CommentInv'
      BY <3>2, <3>3, <3>4, <3>5 DEF CommentInv
    <3> QED
      BY <3>6, <3>7 DEF OnceInv
  <2>4. CASE ~Has(r, "comment")'
    <3>1. \A s \in Runs, i \in Intents : Posting(s, i)' => Posting(s, i)
      BY <2>1, <2>4 DEF OnlyOf
    <3>2. \A s \in Runs : ~(Has(s, "comment") /\ InFlight(s, "comment"))'
      BY <2>1, <2>4 DEF OnlyOf, OnceInv
    <3>3. CASE write[r] = "comment"
      <4>1. Posting(r, plan[r].intent) /\ ~Posting(r, plan[r].intent)'
        BY <2>1, <2>4, <3>3 DEF OnceInv
      <4> QED
        BY <2>1, <3>1, <3>2, <3>3, <4>1, RightUsed
    <3>4. CASE write[r] # "comment"
      <4>1. \A i \in Intents : /\ comments'[i] = comments[i]
                               /\ claim'[i] = "none" => claim[i] = "none"
        BY <2>1, <3>4, LandsComment DEF ClaimState
      <4> QED
        BY <3>1, <3>2, <4>1, NoneGained
    <3> QED
      BY <3>3, <3>4
  <2> QED
    BY <2>3, <2>4
<1>6. CASE Land
  <2>1. PICK f \in flight :
           /\ f.run \in Runs /\ f.write \in Writes /\ f = [run |-> f.run, write |-> f.write]
           /\ Lands(f.run, f.write) /\ flight' = flight \ {f} /\ UNCHANGED <<run, moves>>
    BY <1>6, LandFacts
  <2>2. \A s \in Runs, i \in Intents : Posting(s, i)' => Posting(s, i)
    BY <2>1 DEF run
  <2>3. \A s \in Runs : ~(Has(s, "comment") /\ InFlight(s, "comment"))'
    BY <2>1 DEF run, OnceInv
  <2>4. CASE f.write = "comment"
    <3>1. Posting(f.run, plan[f.run].intent) /\ ~Posting(f.run, plan[f.run].intent)'
      BY <2>1, <2>4 DEF OnceInv, run
    <3> QED
      BY <2>1, <2>2, <2>3, <2>4, <3>1, RightUsed
  <2>5. CASE f.write # "comment"
    <3>1. \A i \in Intents : /\ comments'[i] = comments[i]
                             /\ claim'[i] = "none" => claim[i] = "none"
      BY <2>1, <2>5, LandsComment DEF ClaimState
    <3> QED
      BY <2>2, <2>3, <3>1, NoneGained
  <2> QED
    BY <2>4, <2>5
<1>7. CASE Moved
  BY <1>7, NoneGained DEF Moved, run, OnceInv
<1> QED
  BY <1>1, <1>2, <1>3, <1>4, <1>5, <1>6, <1>7, Steps

\* Comments are not taken back.
LEMMA CommentsStay ==
  ASSUME TypeOK, OpInv, PlanInv, EffectInv, [Next]_vars, NEW i \in Intents
  PROVE  comments'[i] \in Nat /\ comments'[i] >= comments[i]
<1>1. comments[i] \in Nat
  BY DEF TypeOK
<1>2. CASE comments' = comments
  BY <1>1, <1>2
<1>3. ASSUME NEW r \in Runs, IsAnswered(r)
      PROVE  comments'[i] \in Nat /\ comments'[i] >= comments[i]
  BY <1>1, <1>3, Sent, LandsComment DEF IsAnswered, Sends
<1>4. CASE Land
  BY <1>1, <1>4, LandFacts, LandsComment
<1> QED
  BY <1>2, <1>3, <1>4, Steps
     DEF Begins, ReadStep, Reading, IsUnanswered, Moved, vars, issue

LEMMA PostedStep ==
  ASSUME TypeOK, OpInv, PlanInv, EffectInv, PostedInv, [Next]_vars
  PROVE  PostedInv'
<1> USE DEF Has, InFlight
<1>1. \A i \in Intents : comments'[i] \in Nat /\ comments[i] \in Nat /\ comments'[i] >= comments[i]
  BY CommentsStay DEF TypeOK
<1>2. CASE UNCHANGED vars
  BY <1>2 DEF PostedInv, vars, run, issue
<1>3. ASSUME NEW r \in Runs, Begins(r)
      PROVE  PostedInv'
  <2>1. \A w : [run |-> r, write |-> w] \notin flight
    BY <1>3 DEF Begins, EffectInv
  <2> QED
    BY <1>3, <2>1 DEF PostedInv, Begins, OnlyOf, Guarded, issue
<1>4. ASSUME NEW r \in Runs, ReadStep(r)
      PROVE  PostedInv'
  BY <1>4 DEF PostedInv, ReadStep, GoesOn, OnlyOf, Reading, Guarded, issue
<1>5. ASSUME NEW r \in Runs, IsUnanswered(r)
      PROVE  PostedInv'
  <2>1. /\ pc[r] \in Guarded /\ UNCHANGED <<issue, plan>> /\ OnlyOf(r)
        /\ pc'[r] \in Guarded => write'[r] = "unverified"
        /\ flight' \in {flight, flight \cup {[run |-> r, write |-> write[r]]}}
    BY <1>5 DEF IsUnanswered, Sends, Attempt, GoesOn, Guarded
  <2>2. \A s \in Runs : Has(s, "posted")' \/ InFlight(s, "posted")'
                        => Has(s, "posted") \/ InFlight(s, "posted")
    BY <2>1 DEF OnlyOf
  <2> QED
    BY <2>1, <2>2 DEF PostedInv, issue
<1>6. ASSUME NEW r \in Runs, IsAnswered(r)
      PROVE  PostedInv'
  <2>1. /\ pc[r] \in Guarded /\ UNCHANGED <<plan, flight>> /\ Attempt(r)
        /\ OnlyOf(r) /\ Lands(r, write[r]) /\ write[r] \in Writes
        /\ pc'[r] \in Guarded /\ write'[r] = "posted" => write[r] = "comment"
    BY <1>6, Sent DEF IsAnswered, Sends, Attempt, GoesOn, Guarded
  <2>2. ASSUME NEW i \in Intents, claim'[i] = "posted"
        PROVE  comments'[i] >= 1
    <3>1. claim[i] = "posted" \/ (plan[r].intent = i /\ Has(r, "posted"))
      BY <2>1, <2>2, LandsComment DEF ClaimState
    <3>2. comments[i] >= 1
      BY <3>1 DEF PostedInv
    <3> QED
      BY <1>1, <3>2
  <2>3. ASSUME NEW s \in Runs, plan[s].intent \in Intents,
               Has(s, "posted")' \/ InFlight(s, "posted")'
        PROVE  comments'[plan[s].intent] >= 1
    <3>1. CASE Has(s, "posted") \/ InFlight(s, "posted")
      BY <1>1, <2>3, <3>1 DEF PostedInv
    <3>2. CASE ~(Has(s, "posted") \/ InFlight(s, "posted"))
      <4>1. s = r /\ write[r] = "comment"
        BY <2>1, <2>3, <3>2 DEF OnlyOf
      <4> QED
        BY <1>1, <2>1, <2>3, <4>1, LandsComment
    <3> QED
      BY <3>1, <3>2
  <2> QED
    BY <2>1, <2>2, <2>3 DEF PostedInv
<1>7. CASE Land
  <2>1. PICK f \in flight :
           /\ f.run \in Runs /\ f.write \in Writes /\ f = [run |-> f.run, write |-> f.write]
           /\ Lands(f.run, f.write) /\ flight' = flight \ {f} /\ UNCHANGED <<run, moves>>
    BY <1>7, LandFacts
  <2>2. ASSUME NEW i \in Intents, claim'[i] = "posted"
        PROVE  comments'[i] >= 1
    <3>1. claim[i] = "posted" \/ (plan[f.run].intent = i /\ InFlight(f.run, "posted"))
      BY <2>1, <2>2, LandsComment DEF ClaimState
    <3> QED
      BY <1>1, <2>1, <3>1 DEF PostedInv
  <2>3. \A s \in Runs : Has(s, "posted")' \/ InFlight(s, "posted")'
                        => Has(s, "posted") \/ InFlight(s, "posted")
    BY <2>1 DEF run
  <2> QED
    BY <1>1, <2>1, <2>2, <2>3 DEF PostedInv, run
<1>8. CASE Moved
  BY <1>8 DEF PostedInv, Moved, run
<1> QED
  BY <1>2, <1>3, <1>4, <1>5, <1>6, <1>7, <1>8, Steps

LEMMA ReportStep ==
  ASSUME TypeOK, OpInv, PlanInv, EffectInv, PostedInv, ReportInv, [Next]_vars
  PROVE  ReportInv'
<1>1. \A i \in Intents : comments'[i] \in Nat /\ comments[i] \in Nat /\ comments'[i] >= comments[i]
  BY CommentsStay DEF TypeOK
<1>2. \A r \in Runs : Says(r) => plan[r].intent \in Intents \cup {NoIntent}
  BY Begun DEF PlanInv
<1>3. ASSUME plan' = plan,
             \A r \in Runs : /\ Says(r)' /\ plan[r].intent # NoIntent
                             => Says(r) \/ comments'[plan[r].intent] >= 1
      PROVE  ReportInv'
  BY <1>1, <1>2, <1>3 DEF ReportInv
<1>4. CASE UNCHANGED outcome /\ UNCHANGED plan
  BY <1>3, <1>4 DEF Says
<1>5. ASSUME NEW r \in Runs, Begins(r)
      PROVE  ReportInv'
  BY <1>1, <1>2, <1>5 DEF ReportInv, Begins, PlanInv, Says
<1>6. ASSUME NEW r \in Runs, ReadStep(r)
      PROVE  ReportInv'
  <2>1. pc[r] # "idle" /\ plan' = plan /\ OnlyOf(r)
    BY <1>6 DEF ReadStep, GoesOn, Reading
  <2>2. Says(r)' => Says(r) \/ claim[plan[r].intent] = "posted"
    BY <1>6 DEF ReadStep
  <2>3. plan[r].intent # NoIntent /\ claim[plan[r].intent] = "posted"
          => comments'[plan[r].intent] >= 1
    BY <1>1, <2>1, Begun DEF PostedInv
  <2> QED
    BY <1>3, <2>1, <2>2, <2>3 DEF OnlyOf, Says
<1>7. ASSUME NEW r \in Runs, IsUnanswered(r)
      PROVE  ReportInv'
  <2>1. plan' = plan /\ OnlyOf(r)
    BY <1>7 DEF IsUnanswered, GoesOn, Sends
  <2>2. Says(r)' => Says(r)
    BY <1>7 DEF IsUnanswered
  <2> QED
    BY <1>3, <2>1, <2>2 DEF OnlyOf, Says
<1>8. ASSUME NEW r \in Runs, IsAnswered(r)
      PROVE  ReportInv'
  <2>1. plan' = plan /\ OnlyOf(r) /\ Attempt(r) /\ Lands(r, write[r])
    BY <1>8 DEF IsAnswered, GoesOn, Sends
  <2>2. Says(r)' => Says(r) \/ write[r] = "comment"
    BY <1>8 DEF IsAnswered
  <2>3. write[r] = "comment" => comments'[plan[r].intent] >= 1
    BY <1>1, <2>1, Sent, LandsComment DEF Effective
  <2> QED
    BY <1>3, <2>1, <2>2, <2>3 DEF OnlyOf, Says
<1> QED
  BY <1>4, <1>5, <1>6, <1>7, <1>8, Steps DEF Land, Moved, run, vars
-----------------------------------------------------------------------------
(* The pull request.                                                        *)
LEMMA LandsLink ==
  ASSUME TypeOK, NEW r \in Runs, NEW w \in Writes, Lands(r, w)
  PROVE  /\ assoc # "none" => assoc' = assoc
         /\ links' = IF w = "link" THEN links \cup {plan[r].pr} ELSE links
BY DEF Lands, Associated

\* An association is never taken back, nor is a link.
LEMMA LinksStay ==
  ASSUME TypeOK, OpInv, PlanInv, EffectInv, [Next]_vars
  PROVE  (assoc # "none" => assoc' = assoc) /\ links \subseteq links'
<1>1. CASE assoc' = assoc /\ links' = links
  BY <1>1
<1>2. ASSUME NEW r \in Runs, IsAnswered(r)
      PROVE  (assoc # "none" => assoc' = assoc) /\ links \subseteq links'
  BY <1>2, Sent, LandsLink DEF IsAnswered, Sends
<1>3. CASE Land
  BY <1>3, LandFacts, LandsLink
<1> QED
  BY <1>1, <1>2, <1>3, Steps
     DEF Begins, ReadStep, Reading, IsUnanswered, Moved, vars, issue

LEMMA LinkStep ==
  ASSUME TypeOK, OpInv, PlanInv, EffectInv, LinkInv, [Next]_vars
  PROVE  LinkInv'
<1> USE DEF Has, InFlight
<1>1. /\ assoc # "none" => assoc' = assoc
      /\ \A r \in Runs : pc[r] # "idle" => plan[r].pr \in Prs
      /\ links \subseteq Prs
  BY LinksStay, Begun DEF TypeOK
<1>2. \A p \in Prs : p # "none" /\ p # NoPlan.pr
  BY PlanAssumption DEF NoPlan
<1>3. ASSUME plan' = plan,
             \A p \in links' : p \in links \/ assoc' = p
                              \/ \E r \in Runs : ~plan[r].sync /\ plan[r].pr = p,
             \A r \in Runs : plan[r].sync /\ (Has(r, "link")' \/ InFlight(r, "link")')
                             => assoc' = plan[r].pr
      PROVE  LinkInv'
  BY <1>1, <1>2, <1>3 DEF LinkInv
<1>4. CASE UNCHANGED vars
  BY <1>4 DEF LinkInv, vars, run, issue
<1>5. ASSUME NEW r \in Runs, Begins(r)
      PROVE  LinkInv'
  <2>1. \A w : [run |-> r, write |-> w] \notin flight
    BY <1>5 DEF Begins, EffectInv
  <2>2. plan[r].pr = NoPlan.pr
    BY <1>5 DEF Begins, PlanInv
  <2>3. \A p \in links' : \/ assoc' = p
                          \/ \E s \in Runs : ~plan'[s].sync /\ plan'[s].pr = p
    BY <1>1, <1>2, <1>5, <2>2 DEF LinkInv, Begins, issue
  <2>4. \A s \in Runs : plan'[s].sync /\ (Has(s, "link")' \/ InFlight(s, "link")')
                        => assoc' = plan'[s].pr
    BY <1>5, <2>1 DEF LinkInv, Begins, OnlyOf, Guarded, issue
  <2> QED
    BY <2>3, <2>4 DEF LinkInv
<1>6. ASSUME NEW r \in Runs, ReadStep(r)
      PROVE  LinkInv'
  BY <1>6 DEF LinkInv, ReadStep, GoesOn, OnlyOf, Reading, Guarded, issue
<1>7. ASSUME NEW r \in Runs, IsUnanswered(r)
      PROVE  LinkInv'
  <2>1. /\ pc[r] \in Guarded /\ UNCHANGED <<issue, plan>> /\ OnlyOf(r)
        /\ pc'[r] \in Guarded => write'[r] = "unverified"
        /\ flight' \in {flight, flight \cup {[run |-> r, write |-> write[r]]}}
    BY <1>7 DEF IsUnanswered, Sends, Attempt, GoesOn, Guarded
  <2>2. \A s \in Runs : Has(s, "link")' \/ InFlight(s, "link")'
                        => Has(s, "link") \/ InFlight(s, "link")
    BY <2>1 DEF OnlyOf
  <2> QED
    BY <2>1, <2>2 DEF LinkInv, issue
<1>8. ASSUME NEW r \in Runs, IsAnswered(r)
      PROVE  LinkInv'
  <2>1. /\ pc[r] \in Guarded /\ UNCHANGED <<plan, flight>> /\ Attempt(r) /\ OnlyOf(r)
        /\ Lands(r, write[r]) /\ write[r] \in Writes /\ plan[r].pr \in Prs
        /\ pc'[r] \in Guarded => write'[r] # "link"
    BY <1>8, Sent DEF IsAnswered, Sends, Attempt, GoesOn, Guarded
  <2>2. \A s \in Runs : Has(s, "link")' \/ InFlight(s, "link")'
                        => Has(s, "link") \/ InFlight(s, "link")
    BY <2>1 DEF OnlyOf
  <2>3. \A s \in Runs : plan[s].sync /\ (Has(s, "link") \/ InFlight(s, "link"))
                        => assoc = plan[s].pr /\ assoc' = plan[s].pr
    BY <1>1, <1>2 DEF LinkInv, EffectInv, Guarded
  <2>4. \A p \in links' : p \in links \/ assoc' = p
                           \/ \E s \in Runs : ~plan[s].sync /\ plan[s].pr = p
    BY <2>1, <2>3, LandsLink
  <2> QED
    BY <1>3, <2>1, <2>2, <2>3, <2>4
<1>9. CASE Land
  <2>1. PICK f \in flight :
           /\ f.run \in Runs /\ f.write \in Writes /\ f = [run |-> f.run, write |-> f.write]
           /\ Lands(f.run, f.write) /\ flight' = flight \ {f} /\ UNCHANGED <<run, moves>>
    BY <1>9, LandFacts
  <2>2. \A s \in Runs : Has(s, "link")' \/ InFlight(s, "link")'
                        => Has(s, "link") \/ InFlight(s, "link")
    BY <2>1 DEF run
  <2>3. \A s \in Runs : plan[s].sync /\ (Has(s, "link") \/ InFlight(s, "link"))
                        => assoc = plan[s].pr /\ assoc' = plan[s].pr
    BY <1>1, <1>2 DEF LinkInv, EffectInv, Guarded
  <2>4. \A p \in links' : p \in links \/ assoc' = p
                           \/ \E s \in Runs : ~plan[s].sync /\ plan[s].pr = p
    BY <2>1, <2>3, LandsLink
  <2> QED
    BY <1>3, <2>1, <2>2, <2>3, <2>4 DEF run
<1>10. CASE Moved
  BY <1>10 DEF LinkInv, Moved, run
<1> QED
  BY <1>4, <1>5, <1>6, <1>7, <1>8, <1>9, <1>10, Steps

LEMMA OwnStep ==
  ASSUME TypeOK, OpInv, PlanInv, EffectInv, OwnInv, [Next]_vars
  PROVE  OwnInv'
<1>1. \A r \in Runs : pc[r] # "idle" /\ plan'[r] = plan[r] /\ Owned(r) => Owned(r)'
  <2>1. \A p \in Prs : p # "none"
    BY PlanAssumption
  <2> QED
    BY <2>1, LinksStay, Begun DEF Owned
<1>2. ASSUME NEW r \in Runs,
             plan' = plan, OnlyOf(r),
             pc'[r] = "send" /\ plan[r].sync /\ write'[r] # "associate"
               => pc[r] # "idle" /\ Owned(r)
      PROVE  OwnInv'
  BY <1>1, <1>2 DEF OwnInv, OnlyOf
<1>3. CASE UNCHANGED <<pc, write, plan>>
  BY <1>1, <1>3 DEF OwnInv
<1>4. ASSUME NEW r \in Runs, Begins(r)
      PROVE  OwnInv'
  BY <1>4 DEF OwnInv, Begins, OnlyOf, Owned, issue
<1>5. ASSUME NEW r \in Runs, ReadStep(r)
      PROVE  OwnInv'
  BY <1>2, <1>5 DEF ReadStep, GoesOn, Reading
<1>6. ASSUME NEW r \in Runs, IsAnswered(r) \/ IsUnanswered(r)
      PROVE  OwnInv'
  BY <1>2, <1>6 DEF IsAnswered, IsUnanswered, Sends, GoesOn
<1> QED
  BY <1>3, <1>4, <1>5, <1>6, Steps DEF Land, Moved, run, vars

LEMMA AstrayStep ==
  ASSUME TypeOK, OpInv, AstrayInv, [Next]_vars
  PROVE  AstrayInv'
<1>1. CASE UNCHANGED vars
  BY <1>1 DEF AstrayInv, Authorized, TooLate, Op, vars, issue, run
<1>2. CASE Next
  <2>1. \A r \in astray' : r \in Runs /\ (r \in astray \/ Stray(r)) /\ ~Authorized(r)'
    BY <1>2, Steps DEF Track
  <2>2. ASSUME NEW r \in Runs, OnlyOf(r), writes'[r] > writes[r] \/ r \in astray
                 => pc'[r] \notin {"guardPr", "guardOwn", "send"},
               \A s \in Runs \ {r} : writes'[s] = writes[s]
        PROVE  AstrayInv'
    <3>1. \A s \in Runs \ {r} : ~Stray(s) /\ pc'[s] = pc[s]
      BY <2>2 DEF OnlyOf, Stray, TypeOK
    <3>2. \A s \in astray' : pc'[s] \notin {"guardPr", "guardOwn", "send"}
      BY <2>1, <2>2, <3>1 DEF AstrayInv, Stray
    <3> QED
      BY <2>1, <3>2 DEF AstrayInv
  <2>3. ASSUME NEW r \in Runs, Begins(r)
        PROVE  AstrayInv'
    BY <2>2, <2>3 DEF Begins
  <2>4. ASSUME NEW r \in Runs, ReadStep(r)
        PROVE  AstrayInv'
    <3>1. ~(writes'[r] > writes[r])
      BY <2>4 DEF ReadStep, Reading, TypeOK
    <3> QED
      BY <2>2, <2>4, <3>1 DEF ReadStep, GoesOn, Reading, AstrayInv
  <2>5. ASSUME NEW r \in Runs, IsAnswered(r) \/ IsUnanswered(r)
        PROVE  AstrayInv'
    BY <2>2, <2>5 DEF IsAnswered, IsUnanswered, Sends, GoesOn, Attempt, TypeOK
  <2>6. CASE Land \/ Moved
    BY <2>1, <2>6 DEF Land, Moved, run, AstrayInv, Stray, TypeOK
  <2> QED
    BY <1>2, <2>3, <2>4, <2>5, <2>6, Steps
<1> QED
  BY <1>1, <1>2
-----------------------------------------------------------------------------
(* The theorems.                                                            *)
LEMMA InitInv == Init => Inv
<1> SUFFICES ASSUME Init PROVE Inv
  OBVIOUS
<1>1. TypeOK
  <2>1. 0 \in 0 .. Moves
    BY PlanAssumption
  <2> QED
    BY <2>1 DEF Init, TypeOK, Statuses, Claims, Outcomes
<1>2. PlanInv /\ OpInv
  BY DEF Init, PlanInv, OpInv, HandledOp, PreparedOp, Guarded, Says, Kinds
<1>3. EffectInv
  BY DEF Init, EffectInv
<1>4. CommentInv /\ OnceInv /\ PostedInv
  BY DEF Init, CommentInv, OnceInv, PostedInv, Posting, Has, InFlight, Guarded
<1>5. ReportInv
  BY DEF Init, ReportInv, Says, Kinds
<1>6. LinkInv /\ OwnInv /\ AstrayInv
  BY DEF Init, LinkInv, OwnInv, AstrayInv, Has, InFlight, Guarded, NoPlan
<1> QED
  BY <1>1, <1>2, <1>3, <1>4, <1>5, <1>6 DEF Inv

LEMMA StepInv == Inv /\ [Next]_vars => Inv'
BY TypeStep, PlanStep, OpStep, EffectStep, CommentStep, PostedStep, ReportStep, LinkStep,
   OwnStep, AstrayStep DEF Inv

\* Where the runs stand and what of them is in flight agree with the claim, the
\* association and the comments of the issue, in every state.
THEOREM Invariance == Spec => []Inv
<1>1. Init => Inv
  BY InitInv
<1>2. Inv /\ [Next]_vars => Inv'
  BY StepInv
<1> QED
  BY <1>1, <1>2, PTL DEF Spec

\* Every variable keeps its type: what is written to the issue is a status, an
\* association or a claim that the code knows (apply_mutation_plan).
THEOREM TypeCorrect == Spec => []TypeOK
<1>1. Inv => TypeOK
  BY DEF Inv
<1> QED
  BY <1>1, Invariance, PTL

\* Whatever runs overlap, retry, die or lose their answers, a comment is posted at
\* most once per intent, it is there when a claim or a run says that it is, and two
\* pull requests are linked only when an operator asked for one of them
\* (_apply_comment, acquire_code_mower_pr_association).
THEOREM AppliedOnce == Spec => []WrittenOnce
<1>1. Inv => AtMostOneComment
  BY DEF Inv, CommentInv, AtMostOneComment
<1>2. Inv => PostedMeansPosted
  BY DEF Inv, PostedInv, ReportInv, PostedMeansPosted, Says
<1>3. Inv => OnePullRequest
  BY DEF Inv, LinkInv, OnePullRequest
<1> QED
  BY <1>1, <1>2, <1>3, Invariance, PTL DEF WrittenOnce

\* What a step that writes is: the run was at its write.
LEMMA Writer ==
  ASSUME TypeOK, OpInv, Next, NEW r \in Runs, writes'[r] > writes[r]
  PROVE  pc[r] = "send"
<1>1. ASSUME NEW s \in Runs, Attempt(s)
      PROVE  pc[r] = "send"
  BY <1>1 DEF Attempt, TypeOK
<1>2. CASE writes' = writes
  BY <1>2 DEF TypeOK
<1> QED
  BY <1>1, <1>2, Steps
     DEF Begins, ReadStep, Reading, IsAnswered, IsUnanswered, Sends, Land, Moved, run

\* A synchronisation changes the issue only for the pull request that owns it, and
\* a run that has written once without authority does not write again before it
\* has some (_require_write_scope before every write).
THEOREM ChangesAreOwned == Spec => WritesAreOwned
<1>1. Inv /\ [Next]_vars =>
        [\A r \in Runs : /\ plan[r].sync /\ writes'[r] > writes[r]
                         /\ write[r] # "associate"
                         => Owned(r)]_vars
  BY Writer DEF Inv, OwnInv
<1>2. Inv /\ [Next]_vars => [\A r \in Runs : Stray(r) => r \notin astray]_vars
  BY Writer DEF Inv, AstrayInv, Stray
<1>3. Spec => ChangesOnlyWhatItOwns
  BY <1>1, Invariance, PTL DEF Spec, ChangesOnlyWhatItOwns
<1>4. Spec => OneStrayWrite
  BY <1>2, Invariance, PTL DEF Spec, OneStrayWrite
<1> QED
  BY <1>3, <1>4 DEF WritesAreOwned
=============================================================================
