---------------------------- MODULE CampaignStatus ----------------------------
(***************************************************************************)
(* The headline of a release campaign: one status computed from the states *)
(* of its providers (release_campaigns.py, _aggregate_campaign_status).    *)
(* The operators are pure; ReleaseCampaign stores what they return.        *)
(***************************************************************************)
EXTENDS Naturals, FiniteSets

ProviderStates == {"queued", "running", "complete", "blocked", "unavailable"}

Statuses == {"queued", "running", "complete", "blocked", "unavailable"}

(* Every provider is required: a failure first, then whoever still runs.   *)
AllRequired(state) ==
    LET Some(s)  == \E p \in DOMAIN state : state[p] = s
        Every(s) == \A p \in DOMAIN state : state[p] = s
    IN CASE Some("blocked")  -> "blocked"
         [] ~Some("blocked") /\ Some("running") -> "running"
         [] ~Some("blocked") /\ ~Some("running") /\ Every("complete") -> "complete"
         [] ~Some("blocked") /\ ~Some("running") /\ Some("queued") -> "queued"
         [] OTHER -> "unavailable"

(* Required providers decide; informational ones only delay completion.    *)
InfoAfterPass(state, info) ==
    LET Some(s) == \E p \in info : state[p] = s
    IN CASE Some("running") -> "running"
         [] ~Some("running") /\ Some("queued") -> "queued"
         [] OTHER -> "complete"

WithInformational(state, info, dry) ==
    LET req      == DOMAIN state \ info
        Some(s)  == \E p \in req : state[p] = s
        Every(s) == \A p \in req : state[p] = s
    IN IF Some("blocked") \/ (~dry /\ Some("unavailable")) THEN "blocked"
       ELSE IF dry /\ Every("unavailable") THEN "unavailable"
       ELSE IF Some("running") THEN "running"
       ELSE IF Some("queued") THEN "queued"
       ELSE IF Every("complete") THEN InfoAfterPass(state, info)
       ELSE "unavailable"

(* state maps the campaign's providers to their states, info is the set of *)
(* informational ones, dry whether nothing was ever applied.               *)
Aggregate(state, info, dry) ==
    IF info \cap DOMAIN state = {}
    THEN AllRequired(state)
    ELSE WithInformational(state, info \cap DOMAIN state, dry)

=============================================================================
