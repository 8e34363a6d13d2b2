------------------------------- MODULE MCAudits -------------------------------
(***************************************************************************)
(* The parts an audit goes through: the lock its process takes (AuditLock),*)
(* the publication of its verdict (AuditPublication), the reading of the   *)
(* comments (CommentHistory) and the labels and the gate (MergeGate).  A   *)
(* behaviour is of one of them, "scope" says which and for the gate also   *)
(* of what people, runs and faults.                                        *)
(***************************************************************************)
EXTENDS AuditLock, AuditPublication, CommentHistory

CONSTANTS l1, l2, b, g1, g2, j1, j2, None

VARIABLES scope,
          head, labels, timeline, audits, verdicts, labeler, clearer, gate, status,
          queued, merged, clean, waived, carried

merge   == <<head, labels, timeline, audits, verdicts, labeler, clearer, gate, status,
             queued, merged, clean, waived, carried>>

(* An override and pushes, ordinary or forced.                             *)
Owner == INSTANCE MergeGate WITH Lanes <- {l1}, Builder <- b, Gates <- {g1, g2},
    Triggers <- {"event"}, Uses <- {"committed", "forced", "override"}, Faults <- {},
    MaxHead <- 1, MaxAudits <- 0, MaxEvents <- 4, MaxAttempts <- 1
(* Others apply the label or take it away, and its removal may fail.       *)
Others == INSTANCE MergeGate WITH Lanes <- {l1}, Builder <- b, Gates <- {g1, g2},
    Triggers <- {"event"}, Uses <- {"committed", "forced", "override", "intrude"},
    Faults <- {"remove"}, MaxHead <- 1, MaxAudits <- 0, MaxEvents <- 3, MaxAttempts <- 1
(* The same beside a run that a comment starts.                            *)
Commented == INSTANCE MergeGate WITH Lanes <- {l1}, Builder <- b, Gates <- {g1},
    Triggers <- {"comment"}, Uses <- {"committed", "forced", "override"}, Faults <- {},
    MaxHead <- 1, MaxAudits <- 0, MaxEvents <- 4, MaxAttempts <- 1
(* A push while an audit is under way, and the gate run of either head.    *)
Moved == INSTANCE MergeGate WITH Lanes <- {l1}, Builder <- b, Gates <- {g1, g2},
    Triggers <- {"event"}, Uses <- {"committed"}, Faults <- {},
    MaxHead <- 1, MaxAudits <- 1, MaxEvents <- 2, MaxAttempts <- 1
(* A head that is left and comes back, with its old verdict.               *)
Forced == INSTANCE MergeGate WITH Lanes <- {l1}, Builder <- b, Gates <- {g1},
    Triggers <- {"comment"}, Uses <- {"forced"}, Faults <- {},
    MaxHead <- 1, MaxAudits <- 1, MaxEvents <- 3, MaxAttempts <- 1
(* Two lanes, or two verdicts of one.                                      *)
Agreed == INSTANCE MergeGate WITH Lanes <- {l1, l2}, Builder <- b, Gates <- {g1},
    Triggers <- {"comment"}, Uses <- {}, Faults <- {},
    MaxHead <- 0, MaxAudits <- 2, MaxEvents <- 1, MaxAttempts <- 1
(* An audit of the builder's own lane.                                     *)
Asked == INSTANCE MergeGate WITH Lanes <- {l1, b}, Builder <- b, Gates <- {g1},
    Triggers <- {"comment"}, Uses <- {"ask"}, Faults <- {},
    MaxHead <- 0, MaxAudits <- 1, MaxEvents <- 1, MaxAttempts <- 1
(* What fails, and an owner who is waited for.                             *)
Failing == INSTANCE MergeGate WITH Lanes <- {l1}, Builder <- b, Gates <- {g1},
    Triggers <- {"event", "comment"}, Uses <- {"committed", "owner"},
    Faults <- {"history", "merge", "lineage"},
    MaxHead <- 1, MaxAudits <- 1, MaxEvents <- 2, MaxAttempts <- 2

ASSUME /\ PublicationAssumption /\ HistoryAssumption
       /\ Owner!GateAssumption /\ Others!GateAssumption /\ Commented!GateAssumption
       /\ Moved!GateAssumption /\ Forced!GateAssumption
       /\ Agreed!GateAssumption /\ Asked!GateAssumption /\ Failing!GateAssumption

Gating == {"owner", "others", "commented", "moved", "forced", "agreed", "asked", "failing"}

MCInit ==
    /\ scope \in {"lock", "twice", "again", "pages"} \cup Gating
    /\ LockInit
    /\ PublicationInit
    /\ scope # "pages" => comments = <<>>
    /\ HistoryInit
    /\ CASE scope = "owner" -> Owner!Init [] scope = "others" -> Others!Init
         [] scope = "commented" -> Commented!Init [] scope = "forced" -> Forced!Init
         [] scope = "agreed" -> Agreed!Init [] scope = "asked" -> Asked!Init
         [] scope = "failing" -> Failing!Init [] OTHER -> Moved!Init

(* Two jobs with two runs and one fault, or one job with all runs and faults. *)
InScope ==
    IF scope = "twice" THEN faults' <= 1 /\ run'[3].pc = "none"
    ELSE job'[j2].pc = "idle" /\ j2 \notin aged'

InLock == UNCHANGED <<scope, publicationVars, historyVars, merge>>
InPublication == UNCHANGED <<scope, lockVars, historyVars, merge>>
InHistory == UNCHANGED <<scope, lockVars, publicationVars, merge>>
InGate == UNCHANGED <<scope, lockVars, publicationVars, historyVars>>
(* Of two gate runs, which are alike, the first to start is g1.            *)
InOrder == InGate /\ (gate'[g2].pc # "none" => gate'[g1].pc # "none")

MCNext ==
    \/ scope = "lock" /\ LockNext /\ InLock
    \/ scope \in {"twice", "again"} /\ PublicationNext /\ InScope /\ InPublication
    \/ scope = "pages" /\ HistoryNext /\ InHistory
    \/ scope = "owner" /\ Owner!Next /\ InOrder
    \/ scope = "others" /\ Others!Next /\ InOrder
    \/ scope = "commented" /\ Commented!Next /\ InGate
    \/ scope = "moved" /\ Moved!Next /\ InOrder
    \/ scope = "forced" /\ Forced!Next /\ InGate
    \/ scope = "agreed" /\ Agreed!Next /\ InGate
    \/ scope = "asked" /\ Asked!Next /\ InGate
    \/ scope = "failing" /\ Failing!Next /\ InGate
MCSpec == MCInit /\ [][MCNext]_<<scope, lockVars, publicationVars, historyVars, merge>>

(* Every part has its types, and one publication run works at a time.      *)
Typed ==
    /\ LockTypeOK /\ PublicationTypeOK /\ HistoryTypeOK
    /\ CASE scope = "owner" -> Owner!TypeOK [] scope = "others" -> Others!TypeOK
         [] scope = "commented" -> Commented!TypeOK [] scope = "forced" -> Forced!TypeOK
         [] scope = "agreed" -> Agreed!TypeOK [] scope = "asked" -> Asked!TypeOK
         [] scope = "failing" -> Failing!TypeOK [] OTHER -> Moved!TypeOK

(* No commit is green or merged that the required lanes never passed       *)
(* together and the owner did not let through (code-mower-gate.yml).       *)
GreenIsEarned ==
    CASE scope = "owner" -> Owner!GreenIsEarned [] scope = "others" -> Others!GreenIsEarned
      [] scope = "commented" -> Commented!GreenIsEarned [] scope = "moved" -> Moved!GreenIsEarned
      [] scope = "forced" -> Forced!GreenIsEarned [] scope = "agreed" -> Agreed!GreenIsEarned
      [] scope = "asked" -> Asked!GreenIsEarned [] scope = "failing" -> Failing!GreenIsEarned
      [] OTHER -> TRUE
===============================================================================
