------------------------------- MODULE MergeGate -------------------------------
(***************************************************************************)
(* From audit verdicts to a merge: the labelers that turn a verdict into   *)
(* labels, the job that clears them when the head moves, the gate that     *)
(* publishes one commit status and the merge it asks for.  They are        *)
(* workflow runs that share nothing but the pull request, which each reads *)
(* a piece at a time (trailer_comment_labeler.py, clear_stale.py,          *)
(* audit_labeler_lib.py, code-mower-gate.yml).                             *)
(***************************************************************************)
EXTENDS Naturals, Sequences, FiniteSets, FiniteSetsExt

CONSTANTS Lanes,       \* audit lanes
          Builder,     \* the lane that wrote the pull request
          Gates,       \* gate runs
          Triggers,    \* what starts them: an "event" of one head, or a "comment"
          Uses,        \* what people do: "committed" and "forced" pushes, "override",
                       \* "owner", "intrude", "ask"
          Faults,      \* what fails: "history", "remove", "merge", "lineage"
          MaxHead, MaxAudits, MaxEvents, MaxAttempts,  \* bounds of the model
          None

GateAssumption ==
    /\ Builder \notin Lanes \/ Cardinality(Lanes) >= 1
    /\ Triggers \subseteq {"event", "comment"} /\ None \notin Nat
    /\ \A n \in {MaxHead, MaxAudits, MaxEvents, MaxAttempts} : n \in Nat

Heads == 0..MaxHead
Kinds == {"needs", "done", "blocked"}
Moves == {"committed", "forced"}
Required == Lanes \ {Builder}
L(l, kind) == <<l, kind>>
AutoMerge == <<"pr", "auto-merge">>
OverrideLabel == <<"pr", "gate:override">>
OwnerLabel == <<"pr", "needs-owner">>

VARIABLES
    head,      \* head of the pull request
    labels,    \* its labels
    timeline,  \* arrivals of heads and applications of the override label, in order
    audits,    \* audit runs, in order of their ids
    verdicts,  \* the runs whose verdict comments are there, in order
    labeler,   \* the labeler run of each verdict comment
    clearer,   \* the clear-stale run of each lane
    gate,      \* the gate runs
    status,    \* the gate's status of each commit
    queued,    \* auto-merge is enabled
    merged,    \* the commit that was merged, or None
    clean,     \* heads that once were passed by every required lane
    waived,    \* heads that had arrived when the owner applied the override label
    carried    \* heads that were pushed while the owner's override label was there

audit == <<audits, verdicts>>
merge == <<status, queued, merged>>
ghosts == <<clean, waived, carried>>
vars == <<head, labels, timeline, audit, labeler, clearer, gate, merge, ghosts>>

Resting == [pc |-> "none", head |-> 0, add |-> None, remove |-> {}, labels |-> {}]
NewGate == [pc |-> "none", trigger |-> "event", sha |-> 0, labels |-> {}, seen |-> 0,
            events |-> 0, sticky |-> FALSE, state |-> "none", tries |-> 0]

TypeOK ==
    /\ head \in Heads /\ status \in [Heads -> {"none", "pending", "failure", "success"}]
    /\ queued \in BOOLEAN /\ merged \in Heads \cup {None}
    /\ \A a \in DOMAIN audits : audits[a].verdict \in {"none", "done", "blocked"}
    /\ \A l \in Lanes : clearer[l].remove \subseteq {L(l, k) : k \in Kinds}
    /\ \A g \in Gates : gate[g].tries <= MaxAttempts /\ gate[g].seen <= Len(verdicts)

Ended == [Resting EXCEPT !.pc = "ended"]
GateEnded == [NewGate EXCEPT !.pc = "ended"]

Init ==
    /\ head = 0 /\ labels = {L(l, "needs") : l \in Required} \cup {AutoMerge}
    /\ timeline = <<<<"committed", 0>>>> /\ audits = <<>> /\ verdicts = <<>>
    /\ labeler = [k \in 1..MaxAudits |-> Resting] /\ clearer = [l \in Lanes |-> Resting]
    /\ gate = [g \in Gates |-> NewGate]
    /\ status = [h \in Heads |-> "none"] /\ queued = FALSE /\ merged = None
    /\ clean = {} /\ waived = {} /\ carried = {}

Open == merged = None

(***************************************************************************)
(* Verdicts                                                                *)
(***************************************************************************)
(* latest_current_audit_verdict: the lane's latest verdict comment about   *)
(* exactly this head.                                                      *)
About(l, h, n) == {k \in 1..n : audits[verdicts[k]].lane = l /\ audits[verdicts[k]].head = h}
Latest(l, h, n) ==
    IF About(l, h, n) = {} THEN "none" ELSE audits[verdicts[Max(About(l, h, n))]].verdict
LatestRun(l, h, n) == verdicts[Max(About(l, h, n))]

(* A local audit starts for a lane that is asked for one, reviews the head *)
(* it began with and posts its verdict; it is in flight until its run ends.*)
StartAudit(l) ==
    /\ Open /\ L(l, "needs") \in labels /\ Len(audits) < MaxAudits
    /\ audits' = Append(audits, [lane |-> l, head |-> head, live |-> TRUE, verdict |-> "none"])
    /\ UNCHANGED <<head, labels, timeline, verdicts, labeler, clearer, gate, merge, ghosts>>
CleanWith(seq, runs, h) ==
    LET about(l) == {k \in DOMAIN seq : runs[seq[k]].lane = l /\ runs[seq[k]].head = h}
        last(l) == IF about(l) = {} THEN "none" ELSE runs[seq[Max(about(l))]].verdict IN
    (\A l \in Required : last(l) = "done") /\ (\A l \in Lanes : last(l) # "blocked")
PostVerdict(a) ==
    /\ Open /\ audits[a].live /\ audits[a].verdict = "none"
    /\ \E v \in {"done", "blocked"} : audits' = [audits EXCEPT ![a].verdict = v]
    /\ verdicts' = Append(verdicts, a)
    /\ clean' = clean \cup {h \in Heads : CleanWith(verdicts', audits', h)}
    /\ labeler' = [labeler EXCEPT ![Len(verdicts) + 1].pc = "head"]
    /\ UNCHANGED <<head, labels, timeline, clearer, gate, merge, waived, carried>>
EndAudit(a) ==
    /\ Open /\ audits[a].live /\ audits' = [audits EXCEPT ![a].live = FALSE]
    /\ UNCHANGED <<head, labels, timeline, verdicts, labeler, clearer, gate, merge, ghosts>>

(***************************************************************************)
(* apply_label_decision: the label is added, then the others are removed   *)
(* one by one                                                              *)
(***************************************************************************)
Add(p) == p.pc = "add" /\ labels' = labels \cup {p.add}
Added(p) == IF p.remove = {} THEN Ended ELSE [p EXCEPT !.pc = "remove"]
Removed(p, label) == IF p.remove = {label} THEN Ended ELSE [p EXCEPT !.remove = @ \ {label}]
Applies(p, q) ==
    \/ Add(p) /\ q = Added(p)
    \/ \E label \in p.remove :
         p.pc = "remove" /\ labels' = labels \ {label} /\ q = Removed(p, label)

(***************************************************************************)
(* The labeler of a verdict comment                                        *)
(***************************************************************************)
Verdict(k) == audits[verdicts[k]]
Labels(k, p) == labeler' = [labeler EXCEPT ![k] = p]
Aside == UNCHANGED <<head, timeline, audit, clearer, gate, merge, ghosts>>

LabelerHead(k) ==
    /\ labeler[k].pc = "head" /\ Labels(k, [labeler[k] EXCEPT !.pc = "comments", !.head = head])
    /\ UNCHANGED labels /\ Aside
(* resolve_label_decision: a verdict about another head asks for an audit; *)
(* one that is not the latest about this head changes nothing; the lane    *)
(* that built the pull request has no say.                                 *)
Decision(k, h) ==
    LET v == Verdict(k) IN
    IF v.head # h THEN [add |-> "needs", remove |-> {"done", "blocked"}]
    ELSE [add |-> v.verdict, remove |-> Kinds \ {v.verdict}]
Newest(k, h) == Verdict(k).head = h => k = Max(About(Verdict(k).lane, h, Len(verdicts)))
Admitted(l) == l \in Required
LabelerDecides(k) ==
    /\ labeler[k].pc = "comments"
    /\ LET p == labeler[k]  l == Verdict(k).lane  d == Decision(k, p.head) IN
       \/ /\ Newest(k, p.head) /\ Admitted(l)
          /\ Labels(k, [p EXCEPT !.pc = "add", !.add = L(l, d.add),
                                 !.remove = {L(l, kind) : kind \in d.remove}])
       \/ (~Newest(k, p.head) \/ ~Admitted(l)) /\ Labels(k, Ended)
       \/ "history" \in Faults /\ Labels(k, Ended)
    /\ UNCHANGED labels /\ Aside
LabelerApplies(k) ==
    \E q \in {Added(labeler[k])} \cup {Removed(labeler[k], x) : x \in labeler[k].remove} :
        Applies(labeler[k], q) /\ Labels(k, q) /\ Aside

(***************************************************************************)
(* The clear-stale run of a lane                                           *)
(***************************************************************************)
Clears(l, p) == clearer' = [clearer EXCEPT ![l] = p]
Beside == UNCHANGED <<head, timeline, audit, labeler, gate, merge, ghosts>>
ClearerHead(l) ==
    /\ clearer[l].pc = "head" /\ Clears(l, [clearer[l] EXCEPT !.pc = "labels", !.head = head])
    /\ UNCHANGED labels /\ Beside
ClearerLabels(l) ==
    /\ clearer[l].pc = "labels"
    /\ Clears(l, [clearer[l] EXCEPT !.pc = "comments", !.labels = labels])
    /\ UNCHANGED labels /\ Beside
(* resolve_stale_clear_decision: the lane's latest verdict, whatever head  *)
(* it is about.                                                            *)
OfLane(l) == {k \in DOMAIN verdicts : Verdict(k).lane = l}
Current(l, h) == OfLane(l) # {} /\ Verdict(Max(OfLane(l))).head = h
Expected(l) == Verdict(Max(OfLane(l))).verdict
Terminal(l, seen) == seen \cap {L(l, "done"), L(l, "blocked")}
ClearerDecides(l) ==
    /\ clearer[l].pc = "comments"
    /\ LET p == clearer[l]
           wrong == Terminal(l, p.labels) \ {L(l, Expected(l))}
           repair == Current(l, p.head) /\ ~(L(l, Expected(l)) \in p.labels /\ wrong = {}) IN
       \/ Terminal(l, p.labels) = {} /\ Clears(l, Ended)
       \/ /\ Terminal(l, p.labels) # {} /\ Current(l, p.head) /\ ~repair
          /\ Clears(l, Ended)
       \/ /\ Terminal(l, p.labels) # {} /\ repair
          /\ Clears(l, [p EXCEPT !.pc = "add", !.add = L(l, Expected(l)),
                                 !.remove = {L(l, "needs")} \cup wrong])
       \/ /\ Terminal(l, p.labels) # {} /\ ~Current(l, p.head)
          /\ Clears(l, [p EXCEPT !.pc = "add", !.add = L(l, "needs"),
                                 !.remove = {L(l, "done"), L(l, "blocked")}])
    /\ UNCHANGED labels /\ Beside
(* A history longer than the page cap raises an error nothing here handles.*)
ClearerOverflows(l) ==
    /\ "history" \in Faults /\ clearer[l].pc = "comments"
    /\ Clears(l, [clearer[l] EXCEPT !.pc = "overflow"]) /\ UNCHANGED labels /\ Beside
ClearerApplies(l) ==
    \E q \in {Added(clearer[l])} \cup {Removed(clearer[l], x) : x \in clearer[l].remove} :
        Applies(clearer[l], q) /\ Clears(l, q) /\ Beside

(***************************************************************************)
(* The gate                                                                *)
(***************************************************************************)
GateGoes(g, p) == gate' = [gate EXCEPT ![g] = p]
Reads(g, p) ==
    GateGoes(g, p) /\ UNCHANGED <<head, labels, timeline, audit, labeler, clearer, merge, ghosts>>

StartGate(g) ==
    /\ Open /\ gate[g].pc = "none"
    /\ \E t \in Triggers :
         Reads(g, [gate[g] EXCEPT !.trigger = t, !.pc = "labels", !.sha = head])
(* On a push the override label goes first; a removal that fails is        *)
(* remembered when the label is still there.                               *)
ClearOverride(g) ==
    /\ gate[g].pc = "clear"
    /\ \/ /\ GateGoes(g, [gate[g] EXCEPT !.pc = "labels"]) /\ labels' = labels \ {OverrideLabel}
          /\ UNCHANGED <<head, timeline, audit, labeler, clearer, merge, ghosts>>
       \/ /\ "remove" \in Faults
          /\ Reads(g, [gate[g] EXCEPT !.pc = "labels", !.sticky = OverrideLabel \in labels])
GateLabels(g) ==
    gate[g].pc = "labels" /\ Reads(g, [gate[g] EXCEPT !.pc = "comments", !.labels = labels])
GateComments(g) ==
    /\ gate[g].pc = "comments"
    /\ \/ Reads(g, [gate[g] EXCEPT !.pc = "timeline", !.seen = Len(verdicts)])
       \/ /\ "history" \in Faults
          /\ Reads(g, [gate[g] EXCEPT !.pc = "timeline", !.state = "failure"])
GateTimeline(g) ==
    /\ gate[g].pc = "timeline"
    /\ Reads(g, [gate[g] EXCEPT !.pc = "pull", !.events = Len(timeline)])

(* The pull request is read last; the head must be the one the run is      *)
(* about, the labels those it saw, and the lineage ready.                  *)
Snapshot(g) == /\ gate[g].trigger = "comment" \/ gate[g].sha = head
               /\ gate[g].labels = labels
GatePull(g) ==
    /\ gate[g].pc = "pull"
    /\ LET p == IF gate[g].trigger = "comment" THEN [gate[g] EXCEPT !.sha = head] ELSE gate[g] IN
       \/ p.state = "none" /\ Snapshot(g) /\ Reads(g, [p EXCEPT !.pc = "runs"])
       \/ /\ p.state # "none" \/ ~Snapshot(g)
          /\ Reads(g, [p EXCEPT !.pc = "post", !.state = "failure"])
       \/ /\ "lineage" \in Faults
          /\ \E s \in {"pending", "failure"} : Reads(g, [p EXCEPT !.pc = "post", !.state = s])

(* The override counts when the last of its applications among the first n *)
(* events is the owner's and came after the last arrival of this head.     *)
(* Events are ordered by the time they carry (event_key): a head that was  *)
(* forced has one, a commit has none and comes before every label.         *)
Applied(n) == {i \in 1..n : timeline[i][1] = "override"}
OwnerApplied(n) == Applied(n) # {} /\ timeline[Max(Applied(n))][2] = "owner"
Arrivals(p) == {i \in 1..p.events : timeline[i] \in Moves \X {p.sha}}
Timed(i) == timeline[i][1] # "committed"
AfterHead(p) ==
    /\ Applied(p.events) # {}
    /\ Arrivals(p) # {} /\ Timed(Max(Arrivals(p))) => Max(Arrivals(p)) < Max(Applied(p.events))

(* An audit in flight holds the gate unless the lane's verdict is newer.   *)
InFlight(p, l) ==
    \E a \in DOMAIN audits :
        /\ audits[a].live /\ audits[a].lane = l /\ audits[a].head = p.sha
        /\ ~ (Latest(l, p.sha, p.seen) = "done" /\ LatestRun(l, p.sha, p.seen) >= a)
Unlabelled(p, l) == L(l, "done") \notin p.labels
Missing(p, l) == L(l, "done") \notin p.labels \/ Latest(l, p.sha, p.seen) # "done"
Blocked(p) == \E l \in Lanes : Latest(l, p.sha, p.seen) = "blocked"
Waits(p) == OwnerLabel \in p.labels
Overridden(p) == OverrideLabel \in p.labels
Verdicted(p) ==
    IF Waits(p) THEN "pending"
    ELSE IF Overridden(p)
         THEN IF OwnerApplied(p.events) /\ ~p.sticky /\ AfterHead(p) THEN "success" ELSE "failure"
         ELSE IF Blocked(p) \/ Required = {} THEN "failure"
              ELSE IF \E l \in Required : InFlight(p, l) \/ Missing(p, l) THEN "pending"
                   ELSE "success"
GateDecides(g) ==
    /\ gate[g].pc = "runs"
    /\ Reads(g, [gate[g] EXCEPT !.pc = "post", !.state = Verdicted(gate[g])])

(* The status is posted on the commit the run is about; only a success     *)
(* asks for the merge, and only while the label that allows it is there.   *)
PostStatus(g) ==
    /\ gate[g].pc = "post" /\ status' = [status EXCEPT ![gate[g].sha] = gate[g].state]
    /\ GateGoes(g, IF gate[g].state = "success" THEN [gate[g] EXCEPT !.pc = "auto"] ELSE GateEnded)
    /\ UNCHANGED <<head, labels, timeline, audit, labeler, clearer, queued, merged, ghosts>>
GateAuto(g) ==
    /\ gate[g].pc = "auto"
    /\ Reads(g, IF AutoMerge \in labels THEN [gate[g] EXCEPT !.pc = "merge"] ELSE GateEnded)
(* --match-head-commit: GitHub refuses another head; it merges at once, or *)
(* when the required statuses allow it.                                    *)
Matches(g) == gate[g].sha = head
AskMerge(g) ==
    /\ gate[g].pc = "merge"
    /\ \/ /\ Open /\ Matches(g) /\ queued' = TRUE /\ GateGoes(g, GateEnded)
          /\ merged' = IF status[head] = "success" THEN head ELSE merged
          /\ UNCHANGED <<head, labels, timeline, audit, labeler, clearer, status, ghosts>>
       \/ ~(Open /\ Matches(g)) /\ Reads(g, GateEnded)
       \/ /\ "merge" \in Faults
          /\ Reads(g, IF gate[g].tries + 1 < MaxAttempts THEN [gate[g] EXCEPT !.tries = @ + 1]
                      ELSE GateEnded)

(***************************************************************************)
(* GitHub and people                                                       *)
(***************************************************************************)
QueuedMerge ==
    /\ Open /\ queued /\ status[head] = "success" /\ merged' = head
    /\ UNCHANGED <<head, labels, timeline, audit, labeler, clearer, gate, status, queued, ghosts>>

Event == Open /\ Len(timeline) < MaxEvents
UnderOverride == OverrideLabel \in labels /\ OwnerApplied(Len(timeline))
(* A push starts the clear-stale runs over and a gate run for its head; a  *)
(* forced push may bring an earlier head back, and the event that is left  *)
(* of its head is its own or, as of every push, that of a commit.  A run   *)
(* that crashes, or never starts, is one that takes no further step.       *)
Push ==
    /\ Event
    /\ \E h \in Heads, move \in Moves \cap Uses :
         /\ h # head /\ h <= head + 1 /\ move = "committed" => h > head
         /\ head' = h /\ timeline' = Append(timeline, <<move, h>>)
         /\ carried' = carried \cup {x \in {h} : UnderOverride}
         /\ \/ "event" \notin Triggers /\ UNCHANGED gate
            \/ \E g \in Gates : /\ "event" \in Triggers /\ gate[g].pc = "none"
                                /\ GateGoes(g, [NewGate EXCEPT !.pc = "clear", !.sha = h])
    /\ clearer' = [l \in Lanes |-> [Resting EXCEPT !.pc = "head"]]
    /\ UNCHANGED <<labels, audit, labeler, merge, clean, waived>>
(* The label the owner applies waives the gate for the heads seen so far.  *)
Appeared == {timeline[i][2] : i \in {j \in DOMAIN timeline : timeline[j][1] \in Moves}}
Override ==
    /\ Event /\ "override" \in Uses /\ OverrideLabel \notin labels
    /\ \E who \in {"owner"} \cup (IF "intrude" \in Uses THEN {"other"} ELSE {}) :
         /\ timeline' = Append(timeline, <<"override", who>>)
         /\ waived' = IF who = "owner" THEN waived \cup Appeared ELSE waived
    /\ labels' = labels \cup {OverrideLabel}
    /\ UNCHANGED <<head, audit, labeler, clearer, gate, merge, clean, carried>>
Withdraw ==
    /\ Open /\ "intrude" \in Uses /\ OverrideLabel \in labels /\ labels' = labels \ {OverrideLabel}
    /\ UNCHANGED <<head, timeline, audit, labeler, clearer, gate, merge, ghosts>>
NeedsOwner ==
    /\ Open /\ "owner" \in Uses
    /\ labels' = IF OwnerLabel \in labels THEN labels \ {OwnerLabel}
               ELSE labels \cup {OwnerLabel}
    /\ UNCHANGED <<head, timeline, audit, labeler, clearer, gate, merge, ghosts>>
(* Anyone may ask for an audit, of the builder's lane too.                 *)
AskAudit(l) ==
    /\ Open /\ "ask" \in Uses /\ labels' = labels \cup {L(l, "needs")}
    /\ UNCHANGED <<head, timeline, audit, labeler, clearer, gate, merge, ghosts>>

Audit == \/ \E l \in Lanes : StartAudit(l) \/ AskAudit(l)
         \/ \E a \in DOMAIN audits : PostVerdict(a) \/ EndAudit(a)
Labeler(k) == LabelerHead(k) \/ LabelerDecides(k) \/ LabelerApplies(k)
Clearer(l) == ClearerHead(l) \/ ClearerLabels(l) \/ ClearerDecides(l) \/ ClearerOverflows(l)
              \/ ClearerApplies(l)
Gate(g) == StartGate(g) \/ ClearOverride(g) \/ GateLabels(g) \/ GateComments(g) \/ GateTimeline(g)
           \/ GatePull(g) \/ GateDecides(g) \/ PostStatus(g) \/ GateAuto(g) \/ AskMerge(g)
Next ==
    \/ Audit
    \/ \E k \in DOMAIN labeler : Labeler(k)
    \/ \E l \in Lanes : Clearer(l)
    \/ \E g \in Gates : Gate(g)
    \/ QueuedMerge \/ Push \/ Override \/ Withdraw \/ NeedsOwner
Spec == Init /\ [][Next]_vars

(***************************************************************************)
(* Properties                                                              *)
(***************************************************************************)
(* The owner let the commit through: the label was applied when the commit *)
(* had arrived, or was there when an ordinary push brought it.  Of a run   *)
(* that a comment starts only the owner's label is known.                  *)
Waived(h) ==
    /\ \E i \in DOMAIN timeline : timeline[i] = <<"override", "owner">>
    /\ \/ "comment" \in Triggers
       \/ h \in waived
       \/ h \in carried /\ \E i \in DOMAIN timeline : timeline[i] = <<"committed", h>>
(* A commit is green or merged only if it was, at one moment, passed by    *)
(* every lane but its builder's and blocked by none, or the owner let it   *)
(* through: pieces of the pull request read at different moments never add *)
(* up to a pass (code-mower-gate.yml).                                     *)
GreenIsEarned ==
    \A h \in Heads : status[h] = "success" \/ merged = h => h \in clean \/ Waived(h)

(* "the label succeeds the gate only when the configured owner applied it  *)
(* after the current PR head appeared in the GitHub timeline"              *)
(* (docs/github-setup.md): a head no audits passed is green only when the  *)
(* owner applied the label after it appeared.                              *)
OwnerSawTheHead == \A h \in Heads \ clean : status[h] = "success" => h \in waived

(* "if we cannot inspect enough comments to prove a terminal label is      *)
(* current, clear and requeue rather than leaving stale approval           *)
(* authoritative" (clear_stale.py): a run that could not read the history  *)
(* has not left the terminal label it saw.                                 *)
StaleIsRequeued ==
    \A l \in Lanes : clearer[l].pc = "overflow" =>
        Terminal(l, clearer[l].labels) \cap labels = {} \/ L(l, "needs") \in labels
===============================================================================
