-------------------------------- MODULE MCLive --------------------------------
(***************************************************************************)
(* What must eventually happen: the polls of a campaign (ReleaseCampaign), *)
(* the takeovers of a branch (LaneHandoff), the attachment of a context    *)
(* (ContextSession) and the dispatch of an issue (LaneDispatch), each      *)
(* under the fairness its module justifies.  A behaviour is of one of them *)
(* and "scope" says which.                                                 *)
(***************************************************************************)
EXTENDS Naturals

CONSTANTS cursor, codex, claude, devin, s1, c1, owner, r1, r2, r3, p1, p2, None

VARIABLES scope,
          disk, mem, cmd, todo, at, pc, file, adapter, dispatched, started,
          answer, misfit, session, asked, survived,
          remote, past, author, commits, checkout, pin, ledger, run, mailbox,
          procs, intent, locked, chain, launched,
          head, last, posted, lease, rec, entry, binding, auth, work, conn, call, audit,
          purge, minted, accepted, cut, calm,
          tags, open, assigned, trusted, order, waits, old, requests, told, pulls, walk,
          runner, faults, changes, vouched, retaken, quiet, before

campaign == <<disk, mem, cmd, todo, at, pc, file, adapter, dispatched, started,
              answer, misfit, session, asked, survived>>
lanes    == <<remote, past, author, commits, checkout, pin, ledger, run, mailbox,
              procs, intent, locked, chain, launched>>
context  == <<head, last, posted, lease, rec, entry, binding, auth, work, conn, call, audit,
              purge, minted, accepted, cut, calm>>
issues   == <<tags, open, assigned, trusted, order, waits, old, requests, told, pulls, walk,
              runner, faults, changes, vouched, retaken, quiet, before>>
vars     == <<scope, campaign, lanes, context, issues>>

Polls == INSTANCE ReleaseCampaign WITH
    Local <- {}, Hosted <- {cursor}, Triggered <- {cursor}, Devin <- {},
    Informational <- {}, Surfaces <- {"issue"}, Retries <- 1
Hands == INSTANCE LaneHandoff WITH
    Lanes <- {codex, claude, devin}, Owner <- codex, MaxRounds <- 2, MaxCommits <- 0
Guide == INSTANCE ContextSession WITH
    Sessions <- {s1}, Commands <- {c1}, Owner <- owner, MaxHead <- 1,
    Revs <- {r1, r2, r3}, Handles <- {p1, p2}, MaxListed <- 3,
    Uses <- {"retry", "refresh"}, Events <- {"crash", "loss", "push", "calm"},
    cmd <- call, owner <- purge
Queue == INSTANCE LaneDispatch WITH
    Issues <- {1}, LaneIds <- {1}, Local <- {1}, MaxWip <- 1,
    Starts <- {{<<"ready", 0>>, <<"builder", 1>>}}, Uses <- {},
    MaxFaults <- 2, MaxChanges <- 0,
    labels <- tags, asked <- requests

ASSUME Polls!CampaignAssumption /\ Hands!HandoffAssumption /\ Guide!ContextAssumption
       /\ Queue!DispatchAssumption

Init ==
    /\ scope \in {"polls", "hands", "guide", "queue"}
    /\ Polls!Init /\ Hands!Init /\ Guide!Init
    /\ Queue!DispatchInit /\ trusted = {1} /\ waits = {}

InPolls == scope = "polls" /\ UNCHANGED <<scope, lanes, context, issues>>
InHands == scope = "hands" /\ UNCHANGED <<scope, campaign, context, issues>>
InGuide == scope = "guide" /\ UNCHANGED <<scope, campaign, lanes, issues>>
InQueue == scope = "queue" /\ UNCHANGED <<scope, campaign, lanes, context>>

(* The providers of the lanes start no process of their own here.          *)
Alone == \A r \in DOMAIN procs : procs'[r] \subseteq {"provider"}

Next ==
    \/ scope = "polls" /\ Polls!Next /\ InPolls
    \/ scope = "hands" /\ Hands!Next /\ Alone /\ InHands
    \/ scope = "guide" /\ Guide!Next /\ InGuide
    \/ scope = "queue" /\ Queue!DispatchNext /\ InQueue

(* A command that is under way goes on, a supervisor too, and the schedule *)
(* starts the dispatcher again; nothing is asked of a provider or of its   *)
(* wall clock.                                                             *)
GoesOn ==
    /\ WF_vars(\/ InPolls /\ Polls!Finish
               \/ InHands /\ (Hands!Launching(codex) \/ Hands!Ending(codex))
               \/ InGuide /\ Guide!Step(c1)
               \/ InQueue /\ Queue!Dispatcher)
    /\ WF_vars(\/ InPolls /\ Polls!Visit
               \/ InHands /\ (Hands!Launching(claude) \/ Hands!Ending(claude))
               \/ InGuide /\ Guide!Calm)
    /\ WF_vars(\/ InPolls /\ Polls!Dispatch
               \/ InHands /\ (Hands!Launching(devin) \/ Hands!Ending(devin))
               \/ InGuide /\ Guide!Verify)

(* A campaign is polled again and again, now and then every surface can be *)
(* read, and time goes on; a handoff command takes a lock that is free     *)
(* again and again; an operator reruns what did not finish; days pass      *)
(* between two runs of the dispatcher.  A behaviour has one scope, so the  *)
(* parts share their conjuncts.                                            *)
GetsItsTurn ==
    /\ SF_vars(\/ InPolls /\ Polls!Polling
               \/ InHands /\ Hands!Handing(codex)
               \/ InGuide /\ Guide!Rerun(c1)
               \/ InQueue /\ Queue!Day)
    /\ SF_vars(\/ InPolls /\ Polls!FullPoll(cursor)
               \/ InHands /\ Hands!Handing(claude)
               \/ InGuide /\ Guide!Lock(c1) /\ work' = c1)
    /\ SF_vars(\/ InPolls /\ Polls!Expire(cursor)
               \/ InHands /\ Hands!Handing(devin))

Spec == Init /\ [][Next]_vars /\ GoesOn /\ GetsItsTurn

(* A campaign whose commands are killed only finitely often and that is    *)
(* polled takes the answer of a hosted provider or gives up on it, and no  *)
(* confirmed attempt stays running for ever (_advance_hosted).             *)
PollsConclude == Polls!AnswerIsTaken /\ Polls!SilenceEnds

(* A stop request ends its round, whatever the provider does, a handoff    *)
(* command never waits for ever on a lock, a writer or a head              *)
(* (supervise_process, LocalWriter.stop), and an issue that is ready is    *)
(* handed out again until a pull request closes it                         *)
(* (expire_stale_dispatches).                                              *)
HandoffsEnd == /\ Hands!StopIsObeyed /\ Hands!HandingEnds
               /\ []<>(scope = "queue" => Queue!Served(1))

(* Crashes, lost answers and moved heads leave nothing that rerunning the  *)
(* command does not finish (attach_session).                               *)
ContextIsAttached == Guide!AttachEnds
==============================================================================
