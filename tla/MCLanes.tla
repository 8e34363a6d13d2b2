------------------------------- MODULE MCLanes -------------------------------
(***************************************************************************)
(* The builder lanes at one unit of work: an issue handed to a lane        *)
(* (LaneDispatch), rounds handed over between lanes (LaneHandoff), the     *)
(* lineage they record and publish (LineageRecord), and what the runner of *)
(* one lane delivers (LaneDelivery).  They share nothing at this level but *)
(* the pull request, so a behaviour is of one of them and "scope" says     *)
(* which, and with which bounds; the properties of the delivery are its    *)
(* own module's.                                                           *)
(***************************************************************************)
EXTENDS LaneDelivery, TLC

CONSTANTS codex, claude, devin, outsider, None

VARIABLES scope,
          remote, past, author, commits, checkout, pin, ledger, run, mailbox,
          procs, intent, locked, chain, launched,
          ref, pull, wrote, public, labels, atIssue, atPull, copy, step, handed, begun,
          tags, open, assigned, trusted, order, waits, old, asked, told, pulls, walk,
          runner, faults, changes, vouched, retaken, quiet, before

handoff  == <<remote, past, author, commits, checkout, pin, ledger, run, mailbox,
              procs, intent, locked, chain, launched>>
lineage  == <<ref, pull, wrote, public, labels, atIssue, atPull, copy, step, handed, begun>>
dispatch == <<tags, open, assigned, trusted, order, waits, old, asked, told, pulls, walk,
              runner, faults, changes, vouched, retaken, quiet, before>>
vars     == <<scope, handoff, lineage, deliveryVars, dispatch>>

(* One takeover with commits on the way; two lanes that want the same      *)
(* head; a branch that another round of the source moves; a second         *)
(* takeover after a published first.                                       *)
Over    == INSTANCE LaneHandoff WITH
               Lanes <- {codex, claude}, Owner <- codex, MaxRounds <- 2, MaxCommits <- 1
Contend == INSTANCE LaneHandoff WITH
               Lanes <- {codex, claude, devin}, Owner <- codex, MaxRounds <- 3, MaxCommits <- 0
Moved   == INSTANCE LaneHandoff WITH
               Lanes <- {codex, claude}, Owner <- codex, MaxRounds <- 3, MaxCommits <- 1
Again   == INSTANCE LaneHandoff WITH
               Lanes <- {codex, claude}, Owner <- codex, MaxRounds <- 4, MaxCommits <- 1
(* From an unused branch with two lanes; from a published creation with    *)
(* three.                                                                  *)
Record  == INSTANCE LineageRecord WITH
               Lanes <- {codex, claude}, Owner <- codex, Outsider <- outsider,
               MaxCommits <- 3, MaxRuns <- 3, author <- wrote, run <- step, runs <- begun
Extend  == INSTANCE LineageRecord WITH
               Lanes <- {codex, claude, devin}, Owner <- codex, Outsider <- outsider,
               MaxCommits <- 3, MaxRuns <- 4, author <- wrote, run <- step, runs <- begun

(* One issue more than the cap of a lane whose runner picks its issues and *)
(* of one that is called to them; one issue that two lanes may take and    *)
(* that is given to the other; work orders given and withdrawn; an issue   *)
(* that is held, assigned or made to wait.                                 *)
Queued(ls) == {<<"ready", 0>>} \cup {<<"builder", l>> : l \in ls}
Picked  == INSTANCE LaneDispatch WITH
               Issues <- {1, 2}, LaneIds <- {1}, Local <- {1}, MaxWip <- 1,
               Starts <- {Queued({1})}, Uses <- {},
               MaxFaults <- 1, MaxChanges <- 0,
               labels <- tags
Called  == INSTANCE LaneDispatch WITH
               Issues <- {1, 2}, LaneIds <- {1}, Local <- {}, MaxWip <- 1,
               Starts <- {Queued({1})}, Uses <- {},
               MaxFaults <- 0, MaxChanges <- 0,
               labels <- tags
Shared  == INSTANCE LaneDispatch WITH
               Issues <- {1}, LaneIds <- {1, 2}, Local <- {1}, MaxWip <- 1,
               Starts <- {Queued({1}), Queued({1, 2})}, Uses <- {"move"},
               MaxFaults <- 1, MaxChanges <- 1,
               labels <- tags
Vetted  == INSTANCE LaneDispatch WITH
               Issues <- {1}, LaneIds <- {1, 2}, Local <- {1}, MaxWip <- 1,
               Starts <- {Queued({1})}, Uses <- {"order"},
               MaxFaults <- 2, MaxChanges <- 2,
               labels <- tags
Held    == INSTANCE LaneDispatch WITH
               Issues <- {1}, LaneIds <- {1}, Local <- {1}, MaxWip <- 1,
               Starts <- {Queued({1})}, Uses <- {"hold", "assign", "depend"},
               MaxFaults <- 1, MaxChanges <- 2,
               labels <- tags

ASSUME /\ Over!HandoffAssumption /\ Contend!HandoffAssumption
       /\ Moved!HandoffAssumption /\ Again!HandoffAssumption
       /\ Record!RecordAssumption /\ Extend!RecordAssumption /\ DeliveryAssumption
       /\ Picked!DispatchAssumption /\ Called!DispatchAssumption /\ Shared!DispatchAssumption
       /\ Vetted!DispatchAssumption /\ Held!DispatchAssumption

(* A reachable state to start later from, its heads numbered anew: the     *)
(* other lane has taken over from round 1 and published its first episode, *)
(* and no supervised round is left.                                        *)
TakenOver ==
    LET lanes == {codex, claude}
        done(l) == [lane |-> l, stop |-> l = codex, started |-> TRUE, finished |-> TRUE,
                    quiescent |-> TRUE] IN
    /\ remote = 0 /\ commits = 0
    /\ past = [h \in 0..1 |-> {h}]
    /\ author = [h \in 0..1 |-> claude]
    /\ checkout = [l \in lanes |-> 0]
    /\ pin = [l \in lanes |-> None]
    /\ ledger = [l \in lanes |-> {}]
    /\ run = [l \in lanes |-> Again!IdleRun]
    /\ mailbox = [r \in 1..4 |-> CASE r = 1 -> done(codex) [] r = 2 -> done(claude)
                                   [] OTHER -> None]
    /\ procs = [r \in 1..4 |-> {}]
    /\ intent = [h \in 0..1 |-> None]
    /\ locked = [h \in 0..1 |-> None]
    /\ chain = [lane |-> claude, head |-> 0, named |-> lanes]
    /\ launched = [h \in 0..1 |-> {}]

(* Another one: a round of the owner has run and pushed nothing.           *)
OwnerHasRun ==
    mailbox = [r \in 1..3 |-> IF r = 1 THEN [lane |-> codex, stop |-> FALSE, started |-> TRUE,
                                             finished |-> TRUE, quiescent |-> TRUE]
                               ELSE None]

(* Another one: the owner's first round created the pull request,          *)
(* published its episode and moved the record to it (Published).           *)
CreatedByOwner ==
    LET first == [seq |-> 1, kind |-> "creation", from |-> codex, to |-> codex,
                  expected |-> 0, result |-> 1]
        lanes == {codex, claude, devin} IN
    /\ ref = 1 /\ pull = TRUE
    /\ wrote = [h \in 0..3 |-> CASE h = 0 -> outsider [] h = 1 -> codex [] OTHER -> None]
    /\ public = {first} /\ labels = {codex}
    /\ atIssue = None /\ atPull = [chain |-> <<first>>, lane |-> codex]
    /\ copy = [l \in lanes |-> IF l = codex THEN 1 ELSE 0]
    /\ step = [l \in lanes |-> Extend!IdleRun]
    /\ handed = {} /\ begun = 1

NoDelivery == DeliveryInit /\ kind = "issue" /\ label = FALSE
NoDispatch == Held!DispatchInit /\ trusted = {} /\ waits = {}

Init ==
    \/ scope = "over" /\ Over!Init /\ Record!Init /\ NoDelivery /\ NoDispatch
    \/ scope = "contend" /\ Contend!Quiet /\ OwnerHasRun /\ Record!Init /\ NoDelivery /\ NoDispatch
    \/ scope = "moved" /\ Moved!Quiet /\ OwnerHasRun /\ Record!Init /\ NoDelivery /\ NoDispatch
    \/ scope = "again" /\ TakenOver /\ Record!Init /\ NoDelivery /\ NoDispatch
    \/ scope = "record" /\ Record!Init /\ Over!Init /\ NoDelivery /\ NoDispatch
    \/ scope = "extend" /\ CreatedByOwner /\ Extend!Published /\ Over!Init /\ NoDelivery /\ NoDispatch
    \/ scope = "deliver" /\ DeliveryInit /\ Over!Init /\ Record!Init /\ NoDispatch
    \/ /\ Over!Init /\ Record!Init /\ NoDelivery
       /\ \/ scope = "picked" /\ Picked!DispatchInit /\ trusted = {1, 2} /\ waits = {}
          \/ scope = "called" /\ Called!DispatchInit /\ trusted = {1, 2} /\ waits = {}
          \/ scope = "shared" /\ Shared!DispatchInit
          \/ scope = "vetted" /\ Vetted!DispatchInit /\ waits = {}
          \/ scope = "held" /\ Held!DispatchInit

(* Followed up to the launch of a takeover that names the first round,     *)
(* with providers that start no process of their own.                      *)
UpToLaunch == /\ \A h \in DOMAIN launched : launched[h] = {}
              /\ \A l \in DOMAIN run : run'[l].bound \in {1, None}
              /\ \A r \in DOMAIN procs : procs'[r] \subseteq {"provider"}

Handoff ==
    \/ scope = "over" /\ Over!Next
    \/ scope = "contend" /\ Contend!Next
    \/ scope = "moved" /\ Moved!Next /\ UpToLaunch
    \/ scope = "again" /\ Again!Next

Lineage ==
    \/ scope = "record" /\ Record!Next
    \/ scope = "extend" /\ Extend!Next

Dispatch ==
    \/ scope = "picked" /\ Picked!DispatchNext
    \/ scope = "called" /\ Called!DispatchNext
    \/ scope = "shared" /\ Shared!DispatchNext
    \/ scope = "vetted" /\ Vetted!DispatchNext
    \/ scope = "held" /\ Held!DispatchNext

Next ==
    \/ Handoff /\ UNCHANGED <<scope, lineage, deliveryVars, dispatch>>
    \/ Lineage /\ UNCHANGED <<scope, handoff, deliveryVars, dispatch>>
    \/ scope = "deliver" /\ DeliveryNext /\ UNCHANGED <<scope, handoff, lineage, dispatch>>
    \/ Dispatch /\ UNCHANGED <<scope, handoff, lineage, deliveryVars>>

Spec == Init /\ [][Next]_vars

(* The lanes that do not own the branch are interchangeable.               *)
Symmetry == Permutations({claude, devin})

TypeOK ==
    /\ scope = "over" => Over!TypeOK
    /\ scope = "contend" => Contend!TypeOK
    /\ scope = "moved" => Moved!TypeOK
    /\ scope = "again" => Again!TypeOK
    /\ scope = "record" => Record!TypeOK
    /\ scope = "extend" => Extend!TypeOK
    /\ scope = "deliver" => DeliveryTypeOK
    /\ scope = "picked" => Picked!DispatchTypeOK
    /\ scope = "called" => Called!DispatchTypeOK
    /\ scope = "shared" => Shared!DispatchTypeOK
    /\ scope = "vetted" => Vetted!DispatchTypeOK
    /\ scope = "held" => Held!DispatchTypeOK

(* Work is handed out and handed over to one lane: an issue is out to one  *)
(* lane, which somebody vouched for and which has room for it              *)
(* (dispatch-lanes.yml, run_mac_lane.sh); a takeover that was accepted     *)
(* leaves no process of the round it stopped, one head launches one        *)
(* destination however often and by however many the handoff is repeated,  *)
(* and that destination is the lane an accepted and reserved intent names  *)
(* (prepare, reserve_launch, supervise_process).                           *)
HandoffIsSafe ==
    /\ scope = "picked" => Picked!OneLane /\ Picked!CapIsKept
    /\ scope = "called" => Called!OneLane /\ Called!CapIsKept
    /\ scope = "shared" => Shared!OneLane /\ Shared!TrustedOnly /\ Shared!CapIsKept
    /\ scope = "vetted" => Vetted!OneLane /\ Vetted!TrustedOnly
    /\ scope = "held" => Held!OneLane /\ Held!TrustedOnly /\ Held!CapIsKept
    /\ scope = "over" => Over!BoundSourceIsGone
    /\ scope = "contend" => Contend!OneLaunchPerHead /\ Contend!LaunchIsReserved
    /\ scope = "moved" => Moved!LaunchIsReserved
    /\ scope = "again" => Again!BoundSourceIsGone

(* Wherever a publication stops, what the public history says is in a      *)
(* private record, no label runs ahead of it, and, once the record is at   *)
(* the pull request, it is one chain the next reader accepts               *)
(* (ProducerStore.record, publish, the relocation of run_mac_lane.sh).     *)
LineageIsPublic ==
    /\ scope = "record" => Record!LabelsAreNamed /\ Record!PublicIsRecorded
    /\ scope = "extend" => Extend!PublicIsChain /\ Extend!LabelsAreNamed

==============================================================================
