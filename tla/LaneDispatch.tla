---------------------------- MODULE LaneDispatch ----------------------------
(***************************************************************************)
(* From a ready issue to a builder's pull request.  A scheduled dispatcher *)
(* walks the lanes: it takes back dispatches that led nowhere, counts what *)
(* a lane has in hand, and hands it ready issues by a label and a comment  *)
(* (dispatch-lanes.yml).  A lane's runner picks a dispatched issue by      *)
(* itself (run_mac_lane.sh); a hosted builder answers the comment.  They   *)
(* meet only in the labels, comments and pull requests of GitHub, which    *)
(* people change too, and each reads them a request at a time.             *)
(***************************************************************************)
EXTENDS Naturals, FiniteSets, FiniteSetsExt

CONSTANTS Issues,   \* numbers of the issues: a listing is in their order
          LaneIds,  \* numbers of the builder lanes, in their configured order
          Local,    \* lanes whose runner picks issues; the others are hosted
          MaxWip,   \* CODE_MOWER_MAX_WIP
          Starts,   \* how an issue may be labelled at first
          Uses,     \* what people do: "order", "hold", "assign", "move", "depend"
          MaxFaults, MaxChanges  \* bounds: failures, changes by people

(* OwnerLabel stands for the owner labels and for blocked-by labels.          *)
ReadyLabel == <<"ready", 0>>
OwnerLabel == <<"owner", 0>>
Builder(l) == <<"builder", l>>
Sent(l) == <<"dispatched", l>>
Labels == {ReadyLabel, OwnerLabel} \cup {Builder(l) : l \in LaneIds} \cup {Sent(l) : l \in LaneIds}

(* Only the dispatcher puts the labels on that say an issue is out.        *)
DispatchAssumption ==
    /\ Issues \subseteq Nat /\ LaneIds \subseteq Nat /\ Local \subseteq LaneIds
    /\ IsFiniteSet(Issues) /\ IsFiniteSet(LaneIds) /\ LaneIds # {}
    /\ MaxWip \in Nat \ {0} /\ MaxFaults \in Nat /\ MaxChanges \in Nat
    /\ \A s \in Starts : s \subseteq Labels /\ \A l \in LaneIds : Sent(l) \notin s

VARIABLES
    labels,    \* of each issue
    open,      \* the open issues
    assigned,  \* the issues somebody is assigned to
    trusted,   \* the issues whose author is trusted
    order,     \* the issues with a trusted work-order comment
    waits,     \* the issues with an open dependency
    old,       \* the dispatches of more than a day ago
    asked,     \* comments on an issue that ask for a work order
    told,      \* the lanes an issue's dispatch comments have called
    pulls,     \* open pull requests: an issue, the lane, a number
    walk,      \* the dispatcher's run; its concurrency group admits one
    runner,    \* each local lane's run; one at a time too
    faults, changes,
    vouched,   \* issues somebody trusted has vouched for
    retaken,   \* issues whose dispatch was taken back
    quiet,     \* nobody else has done anything since the dispatcher's run began
    before     \* what each lane had in hand then

issue == <<labels, open, assigned, trusted, order, waits, old>>
bounds == <<faults, changes>>
ghosts == <<vouched, retaken, quiet, before>>
dispatchVars == <<issue, asked, told, pulls, walk, runner, bounds, ghosts>>

Idle == [pc |-> "idle", lane |-> 0, todo |-> {}, load |-> 0, sent |-> 0, then |-> "gate"]
RunnerIdle == [pc |-> "idle", seen |-> {}, issue |-> 0]

(* issue_work_order_gate: a trusted author, or a trusted work order.       *)
Allowed(i) == i \in trusted \cup order
PullsOf(l) == {p \in pulls : p[2] = l}
HasPull(i) == \E p \in pulls : p[1] = i
(* The open issues that carry a lane's label and the dispatch to it, and   *)
(* those of them nobody has to unblock.                                    *)
SentTo(l) == {i \in open : {Builder(l), Sent(l)} \subseteq labels[i]}
Active(l) == {i \in SentTo(l) : OwnerLabel \notin labels[i]}
InHand(l) == Cardinality(PullsOf(l)) + Cardinality({i \in Active(l) : Allowed(i) /\ ~HasPull(i)})
Nothing == [l \in LaneIds |-> 0]

DispatchTypeOK ==
    /\ labels \in [Issues -> SUBSET Labels] /\ pulls \subseteq Issues \X LaneIds \X (1..2)
    /\ old \subseteq Issues \X LaneIds /\ told \in [Issues -> SUBSET LaneIds]
    /\ walk.todo \subseteq Issues /\ walk.lane \in LaneIds \cup {0}
    /\ \A l \in Local : runner[l].pc \in {"idle", "pick", "build"}

DispatchInit ==
    /\ labels \in [Issues -> Starts] /\ open = Issues /\ assigned = {} /\ order = {}
    /\ trusted \in SUBSET Issues /\ waits \in SUBSET Issues
    /\ old = {} /\ asked = [i \in Issues |-> 0] /\ told = [i \in Issues |-> {}] /\ pulls = {}
    /\ walk = Idle /\ runner = [l \in Local |-> RunnerIdle] /\ faults = 0 /\ changes = 0
    /\ vouched = trusted /\ retaken = {} /\ quiet = FALSE /\ before = Nothing

(***************************************************************************)
(* The dispatcher                                                          *)
(***************************************************************************)
Goes(p) == walk' = p
Reads(p) == Goes(p) /\ UNCHANGED <<issue, asked, told, pulls, runner, bounds, ghosts>>
Item == Min(walk.todo)

NextLane ==
    LET rest == {k \in LaneIds : k > walk.lane} IN
    IF rest = {} THEN Idle ELSE [Idle EXCEPT !.pc = "expire", !.lane = Min(rest)]
(* The loops over a listing: the issues left, or what follows the loop.    *)
Expiring(todo) == [walk EXCEPT !.todo = todo, !.pc = IF todo = {} THEN "pulls" ELSE "stale"]
Counting(todo, n) ==
    [walk EXCEPT !.todo = todo, !.load = n, !.pc = IF todo = {} THEN "ready" ELSE "count"]
Slots == MaxWip - walk.load
Sending(todo, n) ==
    IF todo = {} \/ n >= Slots THEN NextLane
    ELSE [walk EXCEPT !.todo = todo, !.sent = n, !.pc = "gate"]

StartRun ==
    /\ walk.pc = "idle" /\ Goes([Idle EXCEPT !.pc = "expire", !.lane = Min(LaneIds)])
    /\ quiet' = TRUE /\ before' = [l \in LaneIds |-> InHand(l)]
    /\ UNCHANGED <<issue, asked, told, pulls, runner, bounds, vouched, retaken>>

(* expire_stale_dispatches: no pull request, and no longer vouched for or  *)
(* handed out for a day.                                                   *)
ListSent == walk.pc = "expire" /\ Reads(Expiring(SentTo(walk.lane)))
StillOpen ==
    /\ walk.pc = "stale"
    /\ Reads(IF HasPull(Item) THEN Expiring(walk.todo \ {Item}) ELSE [walk EXCEPT !.pc = "vouch"])
StillAllowed ==
    /\ walk.pc = "vouch"
    /\ Reads(IF Allowed(Item) THEN [walk EXCEPT !.pc = "age"]
             ELSE IF asked[Item] > 0 THEN [walk EXCEPT !.pc = "unlabel"]
             ELSE [walk EXCEPT !.pc = "ask", !.then = "unlabel"])
(* Events that cannot be read leave the dispatch as it is.                 *)
Dispatched ==
    /\ walk.pc = "age"
    /\ \/ Reads(IF <<Item, walk.lane>> \in old THEN [walk EXCEPT !.pc = "unlabel"]
                ELSE Expiring(walk.todo \ {Item}))
       \/ /\ faults < MaxFaults /\ faults' = faults + 1 /\ Goes(Expiring(walk.todo \ {Item}))
          /\ UNCHANGED <<issue, asked, told, pulls, runner, changes, ghosts>>
Unlabelled(i, l) ==
    labels' = [labels EXCEPT ![i] = @ \ {Sent(l)}] /\ old' = old \ {<<i, l>>}
    /\ retaken' = retaken \cup {i}
TakeBack ==
    /\ walk.pc = "unlabel" /\ Unlabelled(Item, walk.lane) /\ Goes(Expiring(walk.todo \ {Item}))
    /\ UNCHANGED <<open, assigned, trusted, order, waits, asked, told, pulls, runner, bounds,
                   vouched, quiet, before>>
(* request_work_order, by the comments read with the gate.                 *)
RequestOrder ==
    /\ walk.pc = "ask" /\ asked' = [asked EXCEPT ![Item] = @ + 1]
    /\ Goes(IF walk.then = "gate" THEN Sending(walk.todo \ {Item}, walk.sent)
            ELSE [walk EXCEPT !.pc = "unlabel", !.then = "gate"])
    /\ UNCHANGED <<issue, told, pulls, runner, bounds, ghosts>>

(* open_pr_count and active_dispatch_count.  The two reads of one counted  *)
(* issue, its gate and its pull request, are one step.                     *)
CountPulls ==
    walk.pc = "pulls" /\ Reads([walk EXCEPT !.load = Cardinality(PullsOf(walk.lane)), !.pc = "sent"])
ListActive == walk.pc = "sent" /\ Reads(Counting(Active(walk.lane), walk.load))
CountActive ==
    /\ walk.pc = "count"
    /\ Reads(Counting(walk.todo \ {Item},
                      walk.load + (IF Allowed(Item) /\ ~HasPull(Item) THEN 1 ELSE 0)))

(* ready_issues: dispatched to no lane at all.                             *)
Unsent(l) == {i \in open \ assigned : /\ {ReadyLabel, Builder(l)} \subseteq labels[i]
                                      /\ labels[i] \cap {OwnerLabel, Sent(l)} = {}}
Ready(l) == {i \in open \ assigned : /\ {ReadyLabel, Builder(l)} \subseteq labels[i]
                                     /\ labels[i] \cap ({OwnerLabel} \cup {Sent(k) : k \in LaneIds}) = {}}
ListReady ==
    walk.pc = "ready" /\ Reads(IF walk.load >= MaxWip THEN NextLane ELSE Sending(Ready(walk.lane), 0))
(* dispatch_issue: the gate, the dependencies and the pull request, then   *)
(* the label, then the comment.                                            *)
PassesGate ==
    /\ walk.pc = "gate"
    /\ Reads(IF Allowed(Item) THEN [walk EXCEPT !.pc = "deps"]
             ELSE IF asked[Item] > 0 THEN Sending(walk.todo \ {Item}, walk.sent)
             ELSE [walk EXCEPT !.pc = "ask"])
DependsOnNothing ==
    /\ walk.pc = "deps"
    /\ Reads(IF Item \in waits THEN Sending(walk.todo \ {Item}, walk.sent)
             ELSE [walk EXCEPT !.pc = "free"])
HasNoPull ==
    /\ walk.pc = "free"
    /\ Reads(IF HasPull(Item) THEN Sending(walk.todo \ {Item}, walk.sent)
             ELSE [walk EXCEPT !.pc = "label"])
Label ==
    /\ walk.pc = "label" /\ labels' = [labels EXCEPT ![Item] = @ \cup {Sent(walk.lane)}]
    /\ Goes([walk EXCEPT !.pc = "comment"])
    /\ UNCHANGED <<open, assigned, trusted, order, waits, old, asked, told, pulls, runner, bounds,
                   ghosts>>
Called == told' = [told EXCEPT ![Item] = @ \cup {walk.lane}]
Comment ==
    /\ walk.pc = "comment" /\ Called /\ Goes(Sending(walk.todo \ {Item}, walk.sent + 1))
    /\ UNCHANGED <<issue, asked, pulls, runner, bounds, ghosts>>
(* A comment that fails may be there.  The label is taken off again, if    *)
(* that succeeds, and the run fails.                                       *)
CommentFails ==
    /\ walk.pc = "comment" /\ faults < MaxFaults /\ faults' = faults + 1
    /\ Called \/ UNCHANGED told
    /\ Goes([walk EXCEPT !.pc = "undo"])
    /\ UNCHANGED <<issue, asked, pulls, runner, changes, ghosts>>
Undo ==
    /\ walk.pc = "undo" /\ Goes(Idle) /\ Unlabelled(Item, walk.lane)
    /\ UNCHANGED <<open, assigned, trusted, order, waits, asked, told, pulls, runner, bounds,
                   vouched, quiet, before>>
(* Any other request that fails ends the run, as a timeout does; a write   *)
(* that took effect without an answer is one before this step.             *)
Dies ==
    /\ walk.pc # "idle" /\ faults < MaxFaults /\ faults' = faults + 1 /\ Goes(Idle)
    /\ UNCHANGED <<issue, asked, told, pulls, runner, changes, ghosts>>

Dispatcher ==
    \/ StartRun \/ ListSent \/ StillOpen \/ StillAllowed \/ Dispatched \/ TakeBack
    \/ RequestOrder \/ CountPulls \/ ListActive \/ CountActive \/ ListReady \/ PassesGate
    \/ DependsOnNothing \/ HasNoPull \/ Label \/ Comment \/ Undo
Failure == CommentFails \/ Dies

(***************************************************************************)
(* The builders                                                            *)
(***************************************************************************)
Disturbs == quiet' = FALSE /\ before' = Nothing /\ UNCHANGED <<vouched, retaken>>
RunnerGoes(l, p) ==
    /\ runner' = [runner EXCEPT ![l] = p] /\ Disturbs
    /\ UNCHANGED <<issue, asked, told, walk, bounds>>

(* One enumeration of the open pull requests, then the issues in order; a  *)
(* branch policy, which is left out, would look for a pull request again.  *)
ListPulls(l) ==
    /\ runner[l].pc = "idle"
    /\ RunnerGoes(l, [RunnerIdle EXCEPT !.pc = "pick", !.seen = {i \in Issues : HasPull(i)}])
    /\ UNCHANGED pulls
Candidates(l) ==
    {i \in open \ assigned : /\ {ReadyLabel, Builder(l), Sent(l)} \subseteq labels[i]
                             /\ OwnerLabel \notin labels[i] /\ i \notin runner[l].seen /\ Allowed(i)}
PickIssue(l) ==
    /\ runner[l].pc = "pick" /\ UNCHANGED pulls
    /\ RunnerGoes(l, IF Candidates(l) = {} THEN RunnerIdle
                     ELSE [RunnerIdle EXCEPT !.pc = "build", !.issue = Min(Candidates(l))])
OpenPull(i, l) ==
    /\ <<i, l, 2>> \notin pulls
    /\ pulls' = pulls \cup {<<i, l, IF <<i, l, 1>> \in pulls THEN 2 ELSE 1>>}
Deliver(l) ==
    /\ runner[l].pc = "build" /\ RunnerGoes(l, RunnerIdle)
    /\ OpenPull(runner[l].issue, l) \/ UNCHANGED pulls
(* A hosted builder opens one pull request for an issue it was called to.  *)
HostedOpens(i, l) ==
    /\ l \in told[i] \ Local /\ <<i, l, 1>> \notin pulls /\ pulls' = pulls \cup {<<i, l, 1>>}
    /\ Disturbs /\ UNCHANGED <<issue, asked, told, walk, runner, bounds>>

(***************************************************************************)
(* GitHub, people and time                                                 *)
(***************************************************************************)
(* A pull request is merged, which closes the issue, or closed.            *)
PullEnds(p) ==
    /\ pulls' = pulls \ {p} /\ open' \in {open, open \ {p[1]}} /\ Disturbs
    /\ UNCHANGED <<labels, assigned, trusted, order, waits, old, asked, told, walk, runner,
                   bounds>>
(* A day is longer than a run: what one has labelled is not old in it.     *)
Ages(i, l) ==
    /\ walk.pc = "idle" /\ Sent(l) \in labels[i] /\ <<i, l>> \notin old
    /\ old' = old \cup {<<i, l>>}
    /\ UNCHANGED <<labels, open, assigned, trusted, order, waits, asked, told, pulls, walk, runner,
                   bounds, ghosts>>
Toggled(s, i) == IF i \in s THEN s \ {i} ELSE s \cup {i}
Changes ==
    /\ changes < MaxChanges /\ changes' = changes + 1 /\ quiet' = FALSE /\ before' = Nothing
    /\ UNCHANGED <<open, trusted, old, asked, told, pulls, walk, runner, faults, retaken>>
Order(i) ==   \* a work order is given or withdrawn
    /\ "order" \in Uses /\ Changes /\ order' = Toggled(order, i)
    /\ vouched' = vouched \cup order' /\ UNCHANGED <<labels, assigned, waits>>
Hold(i) ==
    /\ "hold" \in Uses /\ Changes /\ labels' = [labels EXCEPT ![i] = Toggled(@, OwnerLabel)]
    /\ UNCHANGED <<assigned, order, waits, vouched>>
Assign(i) ==
    /\ "assign" \in Uses /\ Changes /\ assigned' = Toggled(assigned, i)
    /\ UNCHANGED <<labels, order, waits, vouched>>
Depend(i) ==
    /\ "depend" \in Uses /\ Changes /\ waits' = Toggled(waits, i)
    /\ UNCHANGED <<labels, assigned, order, vouched>>
Move(i) ==    \* the issue is given to another builder
    /\ "move" \in Uses /\ Changes
    /\ \E k, l \in LaneIds :
         /\ Builder(k) \in labels[i] /\ k # l
         /\ labels' = [labels EXCEPT ![i] = (@ \ {Builder(k)}) \cup {Builder(l)}]
    /\ UNCHANGED <<assigned, order, waits, vouched>>

Builders == \/ \E l \in Local : ListPulls(l) \/ PickIssue(l) \/ Deliver(l)
            \/ \E i \in Issues, l \in LaneIds : HostedOpens(i, l)
            \/ \E p \in pulls : PullEnds(p)
Day == \E i \in Issues, l \in LaneIds : Ages(i, l)
People == \E i \in Issues : Order(i) \/ Hold(i) \/ Assign(i) \/ Depend(i) \/ Move(i)
DispatchNext == Dispatcher \/ Failure \/ Builders \/ Day \/ People
DispatchSpec == DispatchInit /\ [][DispatchNext]_dispatchVars
(***************************************************************************)
(* Properties                                                              *)
(***************************************************************************)
AtWork(i) == {l \in Local : runner[l].pc = "build" /\ runner[l].issue = i}
             \cup {l \in LaneIds : \E p \in pulls : p[1] = i /\ p[2] = l}

(* An issue is out to one lane at a time, two lanes are at work on it only *)
(* when a dispatch of it was taken back before, and a lane's own runner    *)
(* opens no second pull request beside an open one (dispatch-lanes.yml,    *)
(* run_mac_lane.sh).                                                       *)
OneLane ==
    \A i \in Issues : /\ Cardinality({l \in LaneIds : Sent(l) \in labels[i]}) <= 1
                      /\ Cardinality(AtWork(i)) <= 1 \/ i \in retaken
                      /\ \A l \in Local : <<i, l, 2>> \notin pulls

(* No lane is handed or works on an issue nobody trusted ever vouched for, *)
(* and an authority is asked once, whatever is lost (request_work_order).  *)
TrustedOnly ==
    \A i \in Issues : /\ told[i] # {} \/ AtWork(i) # {} => i \in vouched
                      /\ asked[i] <= 1

(* A run nobody interferes with brings no lane over its cap                *)
(* (docs/build-loop.md, WIP Cap).                                          *)
CapIsKept ==
    quiet => \A l \in LaneIds : InHand(l) <= (IF before[l] > MaxWip THEN before[l] ELSE MaxWip)

(* An issue that is ready is handed out, again and again while no pull     *)
(* request closes it, whatever run fails in between: the schedule starts   *)
(* the dispatcher, it goes on, and days pass between its runs              *)
(* (expire_stale_dispatches, dispatch_issue).                              *)
Served(i) == (walk.pc = "comment" /\ Item = i) \/ HasPull(i) \/ i \notin open
IsHandedOut == \A i \in Issues : []<>Served(i)
=============================================================================
