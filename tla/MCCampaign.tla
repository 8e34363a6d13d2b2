------------------------------ MODULE MCCampaign ------------------------------
(***************************************************************************)
(* Work that is paid for at a provider: small campaigns for                *)
(* ReleaseCampaign, the headline over all states of three providers, and   *)
(* work orders (WorkOrders): two rounds of one order, one round beside an  *)
(* observer, and two orders that want one branch.  A behaviour is of one   *)
(* of them: "scope" says which.                                            *)
(***************************************************************************)
EXTENDS Naturals

CONSTANTS codex, cursor, devin, None

VARIABLES scope,
          disk, mem, cmd, todo, at, pc, file, adapter, dispatched, started,
          answer, misfit, session, asked, survived,
          state, info, dry,
          order, writer, sess, prov, late, told, paid, proc, view

(* A local provider beside a hosted one that is triggered; one Devin       *)
(* session; a hosted provider that may answer on two surfaces.             *)
Mixed == INSTANCE ReleaseCampaign WITH
    Local <- {codex}, Hosted <- {cursor}, Triggered <- {cursor}, Devin <- {},
    Informational <- {}, Surfaces <- {"issue"}, Retries <- 1
Session == INSTANCE ReleaseCampaign WITH
    Local <- {}, Hosted <- {}, Triggered <- {}, Devin <- {devin},
    Informational <- {devin}, Surfaces <- {"issue"}, Retries <- 1
Answers == INSTANCE ReleaseCampaign WITH
    Local <- {}, Hosted <- {cursor}, Triggered <- {}, Devin <- {},
    Informational <- {}, Surfaces <- {"issue", "pr"}, Retries <- 1
Head == INSTANCE CampaignHeadline WITH Providers <- {codex, cursor, devin}

Work == INSTANCE WorkOrders WITH
    Orders <- {"o1", "o2"}, Requests <- {"q1", "q2"}, PRs <- {1, 2}, Heads <- {1}, MaxRound <- 2,
    Nothing <- None, obs <- view
Watched == INSTANCE WorkOrders WITH
    Orders <- {"o1"}, Requests <- {"q1"}, PRs <- {1}, Heads <- {1}, MaxRound <- 1,
    Nothing <- None, obs <- view
ASSUME Work!OrdersAssumption /\ Watched!OrdersAssumption
ASSUME Mixed!CampaignAssumption /\ Session!CampaignAssumption /\ Answers!CampaignAssumption

campaign == <<disk, mem, cmd, todo, at, pc, file, adapter, dispatched, started,
              answer, misfit, session, asked, survived>>
headline == <<state, info, dry>>
orders   == <<order, writer, sess, prov, late, told, paid, proc, view>>
vars     == <<scope, campaign, headline, orders>>

NoHeadline == state = [p \in {} |-> "queued"] /\ info = {} /\ dry = TRUE

Init ==
    /\ \/ scope \in {"mixed", "rounds", "viewed", "writers"} /\ Mixed!Init /\ NoHeadline
       \/ scope = "session" /\ Session!Init /\ NoHeadline
       \/ scope = "answers" /\ Answers!Init /\ NoHeadline
       \/ scope = "headline" /\ Head!Init /\ Mixed!Init
    /\ IF scope = "viewed" THEN Watched!OrdersInit ELSE Work!OrdersInit

(* An adapter outlives its command beside a hosted provider that was not   *)
(* started: the two share the record and nothing else.                     *)
Apart ==
    survived'[codex] # {} => asked'[cursor] = 0 /\ misfit' = {} /\ started'[cursor][1] = 0

Advance ==
    \/ scope = "mixed" /\ Mixed!Next /\ Apart
    \/ scope = "session" /\ Session!Next
    \/ scope = "answers" /\ Answers!Next

Alone == proc'["o2"].pc = "idle"
Unseen == view'.pc = "idle"
Silent == \A o \in {"o1", "o2"} : proc'[o].req = None
Delivery ==
    \/ scope = "rounds" /\ Work!OrdersNext /\ Alone /\ Unseen
    \/ scope = "viewed" /\ Watched!OrdersNext /\ proc'["o1"].cmd # "cancel"
    \/ scope = "writers" /\ Work!OrdersNext /\ Unseen /\ Silent

Next ==
    \/ Advance /\ UNCHANGED <<scope, headline, orders>>
    \/ scope = "headline" /\ Head!Next /\ UNCHANGED <<scope, campaign, orders>>
    \/ Delivery /\ UNCHANGED <<scope, campaign, headline>>

Spec == Init /\ [][Next]_vars

TypeOK ==
    /\ scope \in {"mixed", "headline"} => Mixed!TypeOK
    /\ scope = "session" => Session!TypeOK
    /\ scope = "answers" => Answers!TypeOK

(* What a lock-free reader or an upload sees of a campaign is what its     *)
(* providers are: the stored headline is the one they give, also after a   *)
(* crash between two saves; a provider is complete exactly when it passed; *)
(* and the headline publishes a pass, or promises a dispatch, only when    *)
(* every required provider earned it (_save_campaign_progress,             *)
(* build_campaign_upload_events, _aggregate_campaign_status).              *)
HeadlineIsEarned ==
    /\ scope = "mixed" => Mixed!HeadlineIsHonest /\ Mixed!CompleteMeansPassed
    /\ scope = "session" => Session!HeadlineIsHonest /\ Session!CompleteMeansPassed
    /\ scope = "answers" => Answers!HeadlineIsHonest /\ Answers!CompleteMeansPassed
    /\ scope = "headline" => Head!CompleteIsEarned /\ Head!QueuedIsDispatchable

(* However often a campaign is resumed, watched, killed or started over,   *)
(* an attempt leaves the machine once and only when it was asked for, none *)
(* is left where nothing resumes it, and what it brought back is kept as   *)
(* evidence of itself alone (dispatch_or_advance_campaign).                *)
AttemptIsPaidOnce ==
    /\ scope = "mixed" => /\ Mixed!OncePerAttempt /\ Mixed!AttemptsAreAsked
                          /\ Mixed!NeverStranded /\ Mixed!EvidenceIsOfThisAttempt
    /\ scope = "session" => Session!OncePerAttempt /\ Session!EvidenceIsOfThisAttempt
    /\ scope = "answers" => Answers!OncePerAttempt

(* No command undoes what another one did: a preview or a watch keeps an   *)
(* applied campaign applied, a retry leaves the other providers alone, a   *)
(* provider that answered is not timed out by a resume that read, a Devin  *)
(* session is not begun beside one that runs, and what an informational    *)
(* provider found does not change the headline.                            *)
CommandsKeep ==
    [][/\ scope = "mixed" => /\ Mixed!AppliedForGood /\ Mixed!RetryFreezesOthers
                             /\ Mixed!TimeoutIsSilence
       /\ scope = "session" => Session!AppliedForGood /\ Session!SessionEndsFirst
       /\ scope = "answers" => Answers!TimeoutIsSilence
       /\ scope = "headline" => Head!FindingsDoNotBlock]_vars

(* Whatever is lost, late or killed: one order pays for a session on the   *)
(* branch, rounds go out one after the other, and evidence, like what      *)
(* observers are told of a finished round, is of the round the order is in *)
(* and always of one pull request (DevinWorkOrders.run, observe).          *)
OrdersAreBound ==
    /\ [](IF scope = "viewed"
          THEN /\ Watched!OrdersTypeOK /\ Watched!OneWriter
               /\ Watched!EvidenceIsCurrent /\ Watched!RoundsInOrder
          ELSE /\ Work!OrdersTypeOK /\ Work!OneWriter
               /\ Work!EvidenceIsCurrent /\ Work!RoundsInOrder)
    /\ [][/\ scope = "rounds" => Work!OnePullRequest
         /\ scope = "viewed" => Watched!OnePullRequest /\ Watched!ViewIsCurrent]_vars
==============================================================================
