----------------------------- MODULE LaneDelivery -----------------------------
(***************************************************************************)
(* Whether a run of a builder lane delivered (lane_delivery.py and         *)
(* templates/lanes/run_mac_lane.sh): the target is read before the         *)
(* provider, after it, and once more when the runner has spoken for it.    *)
(*                                                                         *)
(* Reads are several calls, any of which fails; the provider, somebody     *)
(* else and a kill of the runner may come between any two of them.         *)
(***************************************************************************)
EXTENDS Naturals, FiniteSets

CONSTANTS
    MaxPulls,    \* bound: pull requests opened for the unit
    MaxPushes,   \* bound: heads
    MaxOutside,  \* bound: what somebody else does to the target
    MaxRounds    \* bound: runs

DeliveryAssumption ==
    MaxPulls \in Nat \ {0} /\ MaxPushes \in Nat /\ MaxOutside \in Nat /\ MaxRounds \in Nat

Pulls   == 0..MaxPulls    \* 0: none
Tips    == 0..MaxPushes   \* 0: not known
Bounded == {"no_change", "owner_action"}
Files   == {"none", "invalid"} \cup Bounded
Exits   == {0, 1, 124}                      \* what a provider exits with
Caps    == {"timeout", "output_overflow", "interrupted"}
Reasons == Caps \cup {"completed"}
NoExit  == 256                              \* no exit code: it has not ended
Signal  == 257                              \* nor here: it was killed
CapExit == [timeout |-> 124, output_overflow |-> 125, interrupted |-> 130]
Says    == Bounded \cup {"undelivered", "capped"}
Slots   == {"before", "after", "again"}

RoundSteps == {"idle", "pulls", "labels", "view", "launch", "provider", "transition",
               "comment", "label", "classify", "report"}

NoSnapshot == [pr |-> 0, head |-> 0, label |-> FALSE, comment |-> FALSE, complete |-> TRUE]
IdleRound == [pc |-> "idle", slot |-> "before", before |-> NoSnapshot, after |-> NoSnapshot,
              rc |-> 0, reason |-> "completed", file |-> "none", declared |-> "none",
              comment |-> FALSE, delivered |-> FALSE, exit |-> NoExit]

VARIABLES
    kind,      \* the target is an issue, or a pull request
    pr,        \* the lane's open pull request
    head,      \* head of each pull request
    label,     \* the target carries needs-owner
    comments,  \* what each run said on the target
    round, rounds,  \* the run, and how many there were
    pushes, outside,
    moved,     \* the target moved since this run began to read it
    did        \* the provider of this run pushed, and its pull request is open

target == <<pr, head, label, comments>>
ghosts == <<pushes, outside, moved, did>>
deliveryVars == <<kind, target, round, rounds, ghosts>>

DeliveryTypeOK ==
    /\ kind \in {"issue", "pr"} /\ pr \in Pulls /\ head \in [1..MaxPulls -> Tips]
    /\ label \in BOOLEAN /\ comments \subseteq [run: 1..MaxRounds, says: Says]
    /\ rounds \in 0..MaxRounds /\ pushes \in Tips /\ outside \in 0..MaxOutside
    /\ round.pc \in RoundSteps /\ round.slot \in Slots /\ round.reason \in Reasons
    /\ round.declared \in Bounded \cup {"none"}
    /\ round.exit \in {NoExit, Signal, 2, 3} \cup Exits
    /\ round.before.complete \/ round.pc \in {"idle", "labels", "view", "launch"}
    /\ round.pc \in {"comment", "label"} => round.declared # "none"

DeliveryInit ==
    /\ kind \in {"issue", "pr"} /\ label \in BOOLEAN
    /\ pr = IF kind = "pr" THEN 1 ELSE 0
    /\ head = [p \in 1..MaxPulls |-> 0]
    /\ comments = {} /\ round = IdleRound /\ rounds = 0
    /\ pushes = 0 /\ outside = 0 /\ moved = FALSE /\ did = FALSE

(***************************************************************************)
(* The target                                                              *)
(***************************************************************************)
PushHead ==
    /\ pr # 0 /\ pushes < MaxPushes
    /\ pushes' = pushes + 1 /\ head' = [head EXCEPT ![pr] = pushes + 1]
    /\ moved' = TRUE /\ UNCHANGED <<pr, label>>

Opened == {p \in 1..MaxPulls : head[p] # 0}
OpenPull ==
    /\ kind = "issue" /\ pr = 0 /\ Cardinality(Opened) < MaxPulls /\ pushes < MaxPushes
    /\ LET p == Cardinality(Opened) + 1 IN
       pr' = p /\ pushes' = pushes + 1 /\ head' = [head EXCEPT ![p] = pushes + 1]
    /\ moved' = TRUE /\ UNCHANGED label

ClosePull ==
    /\ kind = "issue" /\ pr # 0 /\ pr' = 0 /\ did' = FALSE
    /\ UNCHANGED <<head, label, pushes, moved>>

Intrudes ==
    /\ outside < MaxOutside /\ outside' = outside + 1
    /\ \/ (PushHead \/ OpenPull) /\ UNCHANGED did
       \/ ClosePull
       \/ label' = ~label /\ UNCHANGED <<pr, head, pushes, moved, did>>
    /\ UNCHANGED <<kind, comments, round, rounds>>

(***************************************************************************)
(* capture_target_state: three reads of an issue, one of a pull request    *)
(***************************************************************************)
Goes(pc) == round' = [round EXCEPT !.pc = pc]
First    == IF kind = "issue" THEN "pulls" ELSE "view"
Shot == IF round.slot = "before" THEN round.before ELSE round.after
Reading(pc, s) ==
    round' = IF round.slot = "before" THEN [round EXCEPT !.pc = pc, !.before = s]
             ELSE [round EXCEPT !.pc = pc, !.after = s]
Capture(slot) ==
    LET s == [NoSnapshot EXCEPT !.pr = IF kind = "pr" THEN 1 ELSE 0] IN
    round' = IF slot = "before"
             THEN [IdleRound EXCEPT !.pc = First, !.before = s]
             ELSE [round EXCEPT !.pc = First, !.slot = slot,
                                !.after = [s EXCEPT !.comment = round.comment]]

reads == <<kind, target, rounds, ghosts>>
TakenAsEmpty(s) == s
Unread(s) == [s EXCEPT !.complete = FALSE]


ReadPulls ==
    /\ round.pc = "pulls" /\ UNCHANGED reads
    /\ \/ Reading("labels", [Shot EXCEPT !.pr = pr])
       \/ Reading("labels", Unread(Shot))

ReadLabels ==
    /\ round.pc = "labels" /\ UNCHANGED reads
    /\ \/ Reading("view", [Shot EXCEPT !.label = label])
       \/ Reading("view", Unread(Shot))

After(slot) == CASE slot = "before" -> "launch"
                 [] slot = "after"  -> "transition"
                 [] slot = "again"  -> "classify"

ReadView ==
    /\ round.pc = "view" /\ UNCHANGED reads
    /\ LET s == Shot
           next == After(round.slot)
       IN IF s.pr = 0 THEN Reading(next, s)
          ELSE \/ Reading(next, [s EXCEPT !.head = head[s.pr],
                                          !.label = IF kind = "pr" THEN label ELSE @])
               \/ Reading(next, Unread(s))

(***************************************************************************)
(* The run                                                                 *)
(***************************************************************************)
Begin ==
    /\ round.pc = "idle" /\ rounds < MaxRounds /\ rounds' = rounds + 1
    /\ Capture("before")
    /\ moved' = FALSE /\ did' = FALSE
    /\ UNCHANGED <<kind, target, pushes, outside>>

Exit(code) == round' = [round EXCEPT !.pc = "idle", !.exit = code]

(* An incomplete snapshot before the run refuses the unit.                 *)
AnyBefore == TRUE
CompleteBefore == round.before.complete

Launch ==
    /\ round.pc = "launch" /\ UNCHANGED reads
    /\ IF CompleteBefore THEN Goes("provider") ELSE Exit(2)

Provider ==
    /\ round.pc = "provider"
    /\ \/ /\ PushHead \/ OpenPull
          /\ did' = TRUE /\ UNCHANGED round
       \/ ClosePull /\ UNCHANGED round
       \/ /\ \E f \in Files \ {"none"} : round' = [round EXCEPT !.file = f]
          /\ UNCHANGED <<pr, head, label, pushes, moved, did>>
    /\ UNCHANGED <<kind, comments, rounds, outside>>

(* The provider exits, or the supervisor ends it; its group is gone.       *)
ProviderEnds ==
    /\ round.pc = "provider" /\ UNCHANGED reads
    /\ \E reason \in Reasons, rc \in Exits :
          /\ reason \in Caps => rc = 0
          /\ round' = [round EXCEPT !.pc = First, !.slot = "after", !.reason = reason,
                       !.rc = IF reason \in Caps THEN CapExit[reason] ELSE rc,
                       !.after = [NoSnapshot EXCEPT !.pr = IF kind = "pr" THEN 1 ELSE 0]]

(* observed_transition                                                     *)
Opens(was, is) == is.pr # 0 /\ was.pr = 0
Advances(was, is) == is.pr # 0 /\ is.pr = was.pr /\ is.head # 0 /\ is.head # was.head
ObservedTransition ==
    IF ~round.before.complete \/ ~round.after.complete THEN "unknown"
    ELSE IF Opens(round.before, round.after) THEN "pr_opened"
    ELSE IF Advances(round.before, round.after) THEN "head_advanced"
    ELSE "none"

(* Only a run that was not stopped, exited well, left a valid declaration  *)
(* and was seen to deliver nothing has its outcome brokered.               *)
OwnExit == round.reason \notin Caps
NothingSeen == ObservedTransition = "none"
Declares == round.rc = 0 /\ OwnExit /\ round.file \in Bounded /\ NothingSeen

Transition ==
    /\ round.pc = "transition" /\ UNCHANGED reads
    /\ round' = IF Declares THEN [round EXCEPT !.pc = "comment", !.declared = round.file]
                ELSE [round EXCEPT !.pc = "classify"]

Posted(says) == comments' = comments \cup {[run |-> rounds, says |-> says]}

(* Posted, posted without an answer, or not posted; only a comment GitHub  *)
(* answered for counts, any other voids the declaration.                   *)
Voided == [round EXCEPT !.pc = "classify", !.declared = "none"]

Comment ==
    /\ round.pc = "comment" /\ UNCHANGED <<kind, pr, head, label, rounds, ghosts>>
    /\ \/ Posted(round.declared) /\ round' = [round EXCEPT !.pc = "label", !.comment = TRUE]
       \/ /\ Posted(round.declared) \/ UNCHANGED comments
          /\ round' = Voided

(* The block follows the explanation, and may fail to be applied.          *)
Blocks == round.declared = "owner_action"
Label ==
    /\ round.pc = "label" /\ UNCHANGED <<kind, pr, head, comments, rounds, ghosts>>
    /\ \/ Blocks /\ label' = TRUE
       \/ UNCHANGED label
    /\ Capture("again")

(* classify_delivery                                                       *)
Capped == round.reason \in Caps
Validated ==
    \/ round.declared = "no_change" /\ round.after.comment
    \/ round.declared = "owner_action" /\ round.after.label /\ round.after.comment
Delivered ==
    /\ round.before.complete /\ round.after.complete
    /\ Capped \/ round.rc = 0
    /\ \/ ObservedTransition \in {"pr_opened", "head_advanced"}
       \/ ~Capped /\ Validated

Classify ==
    /\ round.pc = "classify" /\ UNCHANGED reads
    /\ round' = [round EXCEPT !.pc = "report", !.delivered = Delivered]

(* A provider that ended itself keeps its exit code; a stopped one has none. *)
Passed  == ~Capped /\ round.rc # 0
ExitCode == IF round.delivered THEN 0 ELSE IF Passed THEN round.rc ELSE 3

Report ==
    /\ round.pc = "report"
    /\ \/ UNCHANGED comments
       \/ ~round.delivered /\ Posted("undelivered")
       \/ round.delivered /\ round.reason = "timeout" /\ Posted("capped")
    /\ Exit(ExitCode)
    /\ UNCHANGED <<kind, pr, head, label, rounds, ghosts>>

Killed == round.pc # "idle" /\ Exit(Signal) /\ UNCHANGED reads

DeliveryNext ==
    \/ Intrudes \/ Begin \/ ReadPulls \/ ReadLabels \/ ReadView \/ Launch \/ Provider
    \/ ProviderEnds \/ Transition \/ Comment \/ Label \/ Classify \/ Report \/ Killed
DeliverySpec == DeliveryInit /\ [][DeliveryNext]_deliveryVars

(***************************************************************************)
(* Properties                                                              *)
(***************************************************************************)
Mine(says) == [run |-> rounds, says |-> says] \in comments
SaidMine == \E o \in Bounded : Mine(o)

(* A run ends well only if its target moved while it read, or its owner    *)
(* was told why not: a read that failed never makes a delivery             *)
(* (classify_delivery, capture_target_state).                              *)
MovedOrTold == round.pc = "idle" /\ round.exit = 0 => moved \/ SaidMine

(* Whatever is stopped, fails or is killed in between, the runner blocks a *)
(* target only after the comment that explains it is on GitHub             *)
(* (run_mac_lane.sh).                                                      *)
BlockIsExplained ==
    Label => (label' # label => Mine("owner_action"))

(* Who is told to act is told by a provider that finished: one that was    *)
(* stopped, or failed, speaks for no declaration it left behind, and its   *)
(* target was read before and after.                                       *)
ToldByFinished ==
    round.pc \notin {"idle", "pulls", "labels", "view", "launch"} /\ SaidMine =>
        /\ round.reason = "completed" /\ round.rc = 0
        /\ round.before.complete

(* A provider that pushed to the lane's pull request, or opened one, has   *)
(* delivered: no comment and no block says that nothing changed.           *)
OutcomeIsInstead == SaidMine => ~did

(* The exit code a caller sees is the provider's own, or says that nothing *)
(* was delivered; never the supervisor's.                                  *)
ExitIsProviders ==
    round.pc = "idle" /\ round.exit \notin {NoExit, Signal, 0, 2, 3} =>
        round.reason = "completed" /\ round.exit = round.rc

(* What a caller reads off a round: it moved its target or told its owner, *)
(* it told on the word of a provider that finished, never when that        *)
(* provider delivered, and it exits as the provider did.                   *)
DeliveryIsReal == MovedOrTold /\ ToldByFinished /\ OutcomeIsInstead /\ ExitIsProviders
==============================================================================
