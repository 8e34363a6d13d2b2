--------------------------- MODULE CampaignHeadline ---------------------------
(***************************************************************************)
(* The headline of CampaignStatus over every campaign of a few providers:  *)
(* any states, any choice of informational providers, applied or preview,  *)
(* and any single provider changing its state.                             *)
(***************************************************************************)
EXTENDS CampaignStatus

CONSTANT Providers

VARIABLES state, info, dry

vars == <<state, info, dry>>

(* --required-providers names at least one provider.                       *)
Init ==
    /\ state \in [Providers -> ProviderStates]
    /\ info \in SUBSET Providers /\ info # Providers
    /\ dry \in BOOLEAN

Changes(p, s) ==
    /\ state' = [state EXCEPT ![p] = s]
    /\ UNCHANGED <<info, dry>>

Next == \E p \in Providers, s \in ProviderStates : Changes(p, s)

Headline == Aggregate(state, info, dry)
Required == Providers \ info

(* A campaign is complete exactly when every required provider passed and  *)
(* no informational one is still to come; nothing else publishes a pass    *)
(* (_aggregate_campaign_status).                                           *)
CompleteIsEarned ==
    Headline = "complete" <=>
        /\ \A p \in Required : state[p] = "complete"
        /\ \A p \in info : state[p] \notin {"queued", "running"}

(* "queued" claims that applying would dispatch something, so some         *)
(* provider is queued, and none that must pass has failed.                 *)
QueuedIsDispatchable ==
    Headline = "queued" =>
        /\ \E p \in Providers : state[p] = "queued"
        /\ \A p \in Required : state[p] # "blocked"

(* What an informational provider finds never changes the headline: only   *)
(* whether it has ended does.                                              *)
Ended(s) == s \in {"complete", "blocked", "unavailable"}

FindingsDoNotBlock ==
    (\A p \in Providers : state'[p] # state[p] =>
         p \in info /\ Ended(state[p]) /\ Ended(state'[p]))
    => Headline' = Headline

=============================================================================
