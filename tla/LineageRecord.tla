---------------------------- MODULE LineageRecord ----------------------------
(***************************************************************************)
(* Who wrote a pull request: the private record and the public history of  *)
(* its lineage (builder_lineage.py, builder_lineage_producer.py, the       *)
(* rounds of lane_delivery.py and templates/lanes/run_mac_lane.sh).        *)
(*                                                                         *)
(* A delivery of a supervised round becomes an episode.  It is recorded in *)
(* a private store under a lock, then posted as a public comment, read     *)
(* back, and the builder label set.  A creation round records under the    *)
(* issue it was launched for; the runner then moves the store to the pull  *)
(* request.  Rounds of several lanes, pushes from outside and kills        *)
(* interleave with every one of these steps.                               *)
(***************************************************************************)
EXTENDS Naturals, FiniteSets, Sequences, SequencesExt

CONSTANTS
    Lanes,       \* builder lanes
    Owner,       \* the lane whose prefix the branch carries
    Outsider,    \* a writer that is no lane
    MaxCommits,  \* bound: commits pushed to the branch
    MaxRuns,     \* bound: runs started
    None         \* no branch, no store

Heads == 0..MaxCommits   \* 0 is the immutable base
Kinds == {"creation", "handoff", "continuation"}
Episodes == [seq: 1..MaxRuns, kind: Kinds, from: Lanes, to: Lanes, expected: Heads,
             result: Heads]
NoEpisode == [seq |-> 0]
Records == [chain: Seq(Episodes), lane: Lanes]
Empty   == [chain |-> <<>>, lane |-> Owner]   \* a directory without a record

RecordAssumption ==
    /\ Owner \in Lanes /\ Outsider \notin Lanes
    /\ MaxCommits \in Nat /\ MaxRuns \in Nat
    /\ None \notin Lanes \cup Nat \cup Records \cup {Outsider}

Steps == {"idle", "work", "deliver", "history", "record", "name", "read", "check",
          "post", "readback", "plan", "label", "final", "relocate"}
IdleRun == [pc |-> "idle", kind |-> "plain", before |-> 0, from |-> Owner, count |-> 0,
            create |-> FALSE, mine |-> {}, episode |-> NoEpisode, seen |-> {},
            expected |-> {}, labels |-> {}, created |-> FALSE]

VARIABLES
    ref,      \* head of the branch, None while it does not exist
    pull,     \* the pull request is open
    author,   \* writer of each head
    public,   \* episodes in the comments of the pull request
    labels,   \* lanes whose builder label it carries
    atIssue,  \* the private store under the issue
    atPull,   \* the private store under the pull request
    copy,     \* head of each lane's working copy
    run,      \* the run of each lane
    handed,   \* heads a takeover was launched for
    runs      \* runs started

github == <<ref, pull, author>>
stores == <<atIssue, atPull>>
vars == <<ref, pull, author, public, labels, atIssue, atPull, copy, run, handed, runs>>

Commits == Cardinality({h \in Heads : author[h] # None})

TypeOK ==
    /\ ref \in Heads \cup {None} /\ pull \in BOOLEAN
    /\ author \in [Heads -> Lanes \cup {Outsider, None}]
    /\ public \subseteq Episodes /\ labels \subseteq Lanes
    /\ atIssue \in Records \cup {None} /\ atPull \in Records \cup {None}
    /\ copy \in [Lanes -> Heads]
    /\ handed \subseteq Heads /\ runs \in 0..MaxRuns
    /\ \A l \in Lanes :
          /\ run[l].pc \in Steps
          /\ run[l].episode \in Episodes \cup {NoEpisode}
          /\ run[l].seen \subseteq Episodes /\ run[l].expected \subseteq Episodes

Init ==
    /\ ref = None /\ pull = FALSE
    /\ author = [h \in Heads |-> IF h = 0 THEN Outsider ELSE None]
    /\ public = {} /\ labels = {}
    /\ atIssue = None /\ atPull = None
    /\ copy = [l \in Lanes |-> 0]
    /\ run = [l \in Lanes |-> IdleRun]
    /\ handed = {} /\ runs = 0

(***************************************************************************)
(* Chain.from_arrivals: the arrivals, in any order and repeated, are a     *)
(* chain, or they are refused.                                             *)
(***************************************************************************)
IsChain(arrivals) ==
    /\ \A a, b \in arrivals : a.seq = b.seq => a = b
    /\ {a.seq : a \in arrivals} = 1..Cardinality(arrivals)
    /\ \A a \in arrivals : a.seq = 1 => a.kind # "continuation"
    /\ \A a, b \in arrivals : b.seq = a.seq + 1 => b.expected = a.result /\ b.from = a.to

Ordered(arrivals) ==
    [n \in 1..Cardinality(arrivals) |-> CHOOSE a \in arrivals : a.seq = n]
Final(arrivals)   == CHOOSE a \in arrivals : a.seq = Cardinality(arrivals)
Named(arrivals)   == UNION {{a.from, a.to} : a \in arrivals}

(* resolve, at the head of a target                                        *)
Writer(arrivals) == IF arrivals = {} THEN Owner ELSE Final(arrivals).to
Ready(arrivals, marked, head) ==
    /\ IsChain(arrivals)
    /\ IF arrivals = {} THEN marked \subseteq {Owner}
       ELSE /\ marked \cup {Owner} \subseteq Named(arrivals)
            /\ Final(arrivals).result = head

Chain(store) == IF store = None THEN {} ELSE Range(store.chain)
Carries(store) == store # None /\ store.chain # <<>>

At(l, pc) == run[l].pc = pc
Now(l, r) == run' = [run EXCEPT ![l] = r]
Goto(l, pc) == Now(l, [run[l] EXCEPT !.pc = pc])
Halt(l) == Now(l, IdleRun)
(* A refusal inside publish ends the round; a creation still moves its     *)
(* store when it has named the pull request.                               *)
Refuse(l) == IF run[l].created THEN Goto(l, "relocate") ELSE Halt(l)

(***************************************************************************)
(* Starting a round                                                        *)
(***************************************************************************)
Starts(l, r) ==
    /\ At(l, "idle") /\ runs < MaxRuns /\ runs' = runs + 1
    /\ Now(l, r)
    /\ UNCHANGED <<github, public, labels, stores>>

(* reserve_creation_branch: no reference, and no pull request.             *)
Unclaimed == ref = None /\ ~pull

StartCreation(l) ==
    /\ l = Owner /\ Unclaimed
    /\ Starts(l, [IdleRun EXCEPT !.pc = "work", !.kind = "creation", !.from = l])
    /\ copy' = [copy EXCEPT ![l] = 0]
    /\ UNCHANGED handed

(* What _start_lineage_round reads: a store that exists must be readable.  *)
Known     == public \cup Chain(atPull)
Readable  == pull /\ (atPull = None \/ Carries(atPull)) /\ Ready(Known, labels, ref)

(* With no store the round publishes nothing, with one it continues it.    *)
StartRound(l) ==
    /\ At(l, "idle") /\ Readable /\ Writer(Known) = l
    /\ Starts(l, [IdleRun EXCEPT !.pc = "work", !.before = ref, !.from = l,
                    !.kind = IF atPull = None THEN "plain" ELSE "continuation",
                    !.count = Len(IF atPull = None THEN <<>> ELSE atPull.chain)])
    /\ copy' = [copy EXCEPT ![l] = ref]
    /\ UNCHANGED handed

(* A takeover: the source's supervised provider has stopped (LaneHandoff), *)
(* and each head is handed over once.                                      *)
StartHandoff(l) ==
    /\ At(l, "idle") /\ Readable /\ Writer(Known) # l /\ ~At(Writer(Known), "work")
    /\ ref \notin handed /\ handed' = handed \cup {ref}
    /\ Starts(l, [IdleRun EXCEPT !.pc = "work", !.before = ref, !.from = Writer(Known),
                    !.kind = "handoff", !.create = (atPull = None),
                    !.count = Cardinality(Known)])
    /\ copy' = [copy EXCEPT ![l] = ref]

(***************************************************************************)
(* The writers                                                             *)
(***************************************************************************)
Pushes(w) ==
    /\ Commits < MaxCommits + 1
    /\ ref' = Commits /\ author' = [author EXCEPT ![Commits] = w]
    /\ UNCHANGED <<pull, public, labels, stores, handed, runs>>

(* The pre-push guard lets a round push over the head it began with, which *)
(* for a creation is no branch at all, or over its own pushes.             *)
Allowed(l) ==
    \/ run[l].kind = "plain"
    \/ ref \in run[l].mine
    \/ ref = IF run[l].kind = "creation" THEN None ELSE run[l].before

Push(l) ==
    /\ At(l, "work") /\ Allowed(l) /\ Pushes(l)
    /\ copy' = [copy EXCEPT ![l] = Commits]
    /\ Now(l, [run[l] EXCEPT !.mine = @ \cup {Commits}])

PushOutside == Pushes(Outsider) /\ UNCHANGED <<copy, run>>

Open == 
    /\ ref # None /\ ~pull /\ pull' = TRUE
    /\ UNCHANGED <<ref, author, public, labels, stores, copy, run, handed, runs>>

Sync(l) ==
    /\ At(l, "work") /\ ref # None
    /\ copy' = [copy EXCEPT ![l] = ref]
    /\ UNCHANGED <<github, public, labels, stores, run, handed, runs>>

Stop(l) ==
    /\ At(l, "work") /\ Goto(l, "deliver")
    /\ UNCHANGED <<github, public, labels, stores, copy, handed, runs>>

(***************************************************************************)
(* finish: the delivery of a round that stopped                            *)
(***************************************************************************)
quiet == <<github, public, labels, stores, copy, handed, runs>>

(* observed_creation_branch and discover_created_pull                      *)
Created(l) ==
    [seq |-> 1, kind |-> "creation", from |-> l, to |-> l, expected |-> 0, result |-> ref]
(* lineage_handoff and lineage_continuation                                *)
Extended(l) ==
    [seq |-> run[l].count + 1, kind |-> run[l].kind, from |-> run[l].from, to |-> l,
     expected |-> run[l].before, result |-> ref]

Delivers(l) ==
    /\ pull /\ ref = copy[l] /\ ref # run[l].before
    /\ run[l].kind # "plain"

Deliver(l) ==
    /\ At(l, "deliver")
    /\ IF Delivers(l)
       THEN Now(l, [run[l] EXCEPT !.pc = "history", !.labels = labels,
                      !.episode = IF run[l].kind = "creation" THEN Created(l) ELSE Extended(l)])
       ELSE Halt(l)
    /\ UNCHANGED quiet

ReadHistory(l) ==
    /\ At(l, "history")
    /\ Now(l, [run[l] EXCEPT !.pc = "record", !.seen = public])
    /\ UNCHANGED quiet

(***************************************************************************)
(* ProducerStore.record, under the lock of the store                       *)
(***************************************************************************)
Store(l) == IF run[l].kind = "creation" THEN atIssue ELSE atPull
Creates(l) == run[l].kind = "creation" \/ run[l].create

ArrivalsPublic(l) == run[l].seen \cup {run[l].episode}
Arrivals(l) == run[l].seen \cup Chain(Store(l)) \cup {run[l].episode}

Recordable(l) ==
    LET r == run[l] IN
    /\ IF Carries(Store(l)) THEN r.kind = "continuation" => Store(l).lane = l
       ELSE Creates(l) /\ r.episode.seq = 1
    /\ Ready(Arrivals(l), r.labels, r.episode.result)
    (* An old round may not replace the metadata of the current writer.    *)
    /\ Carries(Store(l)) => r.episode.seq = Cardinality(Arrivals(l))

Updated(l) == [chain |-> Ordered(Arrivals(l)), lane |-> l]

(* Taking the lock makes the directory, whatever becomes of the record.    *)
Touched(l) == IF Store(l) = None THEN Empty ELSE Store(l)

Keep(l, value) ==
    IF run[l].kind = "creation" THEN atIssue' = value /\ UNCHANGED atPull
    ELSE atPull' = value /\ UNCHANGED atIssue

Record(l) ==
    /\ At(l, "record")
    /\ IF Recordable(l)
       THEN /\ Keep(l, Updated(l))
            /\ Goto(l, IF run[l].kind = "creation" THEN "name" ELSE "read")
       ELSE Keep(l, Touched(l)) /\ Halt(l)
    /\ UNCHANGED <<github, public, labels, copy, handed, runs>>

(* record_created_pull                                                     *)
NameCreated(l) ==
    /\ At(l, "name")
    /\ Now(l, [run[l] EXCEPT !.pc = "read", !.created = TRUE])
    /\ UNCHANGED quiet

(***************************************************************************)
(* publish                                                                 *)
(***************************************************************************)
Snapshot(l) == pull /\ ref = run[l].episode.result

ReadPublic(l) ==
    /\ At(l, "read")
    /\ LET all == public \cup Chain(Store(l)) IN
       IF Snapshot(l) /\ Ready(all, labels, ref)
       THEN Now(l, [run[l] EXCEPT !.pc = "check", !.seen = public, !.expected = all,
                      !.labels = labels])
       ELSE Refuse(l)
    /\ UNCHANGED quiet

Proceed(l) == IF run[l].seen = run[l].expected THEN "readback" ELSE "post"

CheckFresh(l) ==
    /\ At(l, "check")
    /\ IF Snapshot(l) /\ labels = run[l].labels
       THEN Goto(l, Proceed(l))
       ELSE Refuse(l)
    /\ UNCHANGED quiet

Post(l) ==
    /\ At(l, "post")
    /\ public' = public \cup run[l].expected
    /\ Goto(l, "readback")
    /\ UNCHANGED <<github, labels, stores, copy, handed, runs>>

(* The request fails; the comment may be there all the same.               *)
PostFails(l) ==
    /\ At(l, "post")
    /\ public' \in {public, public \cup run[l].expected}
    /\ Refuse(l)
    /\ UNCHANGED <<github, labels, stores, copy, handed, runs>>

Readback(l) ==
    /\ At(l, "readback")
    /\ IF public = run[l].expected THEN Goto(l, "plan") ELSE Refuse(l)
    /\ UNCHANGED quiet

PlanLabels(l) ==
    /\ At(l, "plan")
    /\ IF Snapshot(l)
       THEN Now(l, [run[l] EXCEPT !.labels = labels,
              !.pc = IF labels = {Writer(run[l].expected)} THEN "final" ELSE "label"])
       ELSE Refuse(l)
    /\ UNCHANGED quiet

SetLabels(l) ==
    /\ At(l, "label")
    /\ labels' = (labels \ run[l].labels) \cup {Writer(run[l].expected)}
    /\ Goto(l, "final")
    /\ UNCHANGED <<github, public, stores, copy, handed, runs>>

(* Either way the round is over.                                           *)
VerifyLabels(l) ==
    /\ At(l, "final") /\ Refuse(l)
    /\ UNCHANGED quiet

(* run_mac_lane.sh: a destination that exists belongs to another round.    *)
FreeDestination == atPull = None

Relocate(l) ==
    /\ At(l, "relocate")
    /\ IF FreeDestination /\ atIssue # None
       THEN atPull' = atIssue /\ atIssue' = None
       ELSE UNCHANGED stores
    /\ Halt(l)
    /\ UNCHANGED <<github, public, labels, copy, handed, runs>>

(* The run is killed, or fails where nothing is left to undo.              *)
Crash(l) ==
    /\ ~At(l, "idle") /\ Halt(l)
    /\ UNCHANGED quiet

Round(l) ==
    \/ StartCreation(l) \/ StartRound(l) \/ StartHandoff(l)
    \/ Push(l) \/ Sync(l) \/ Stop(l)
    \/ Deliver(l) \/ ReadHistory(l) \/ Record(l) \/ NameCreated(l)
    \/ ReadPublic(l) \/ CheckFresh(l) \/ Post(l) \/ PostFails(l) \/ Readback(l)
    \/ PlanLabels(l) \/ SetLabels(l) \/ VerifyLabels(l) \/ Relocate(l) \/ Crash(l)

Next == (\E l \in Lanes : Round(l)) \/ PushOutside \/ Open

Spec == Init /\ [][Next]_vars

(* Started later: the record is at the pull request, its history published *)
(* and complete, and no round runs.                                        *)
Published ==
    /\ TypeOK /\ pull /\ ref # None
    /\ atIssue = None /\ Carries(atPull)
    /\ \A n \in DOMAIN atPull.chain : atPull.chain[n].seq = n /\ n <= runs
    /\ IsChain(Chain(atPull)) /\ public = Chain(atPull) /\ labels \subseteq Named(public) \cup {Owner}
    /\ run = [l \in Lanes |-> IdleRun]
PublishedSpec == Published /\ [][Next]_vars

(***************************************************************************)
(* Safety                                                                  *)
(***************************************************************************)

(* A lane's builder label is on the pull request only when the public      *)
(* history already names the lane, wherever a publication stops: a label   *)
(* that runs ahead would make every later decision a conflict (publish).   *)
LabelsAreNamed == labels \subseteq Named(public) \cup {Owner}

(* Every published episode is in a private record, under the issue or the  *)
(* pull request, although posts fail and runs are killed between the       *)
(* record, the post and the move (ProducerStore.record, publish, the       *)
(* relocation of run_mac_lane.sh).                                         *)
PublicIsRecorded == public \subseteq Chain(atIssue) \cup Chain(atPull)

(* The record of the pull request only ever grows at its end: no round     *)
(* that read it earlier replaces what a later one wrote.                   *)
RecordExtends ==
    Carries(atPull) => Carries(atPull') /\ IsPrefix(atPull.chain, atPull'.chain)

(* The public history is one chain, so that the next reader is not         *)
(* refused.  It holds once the record is at the pull request.  A creation  *)
(* whose record is still under the issue and a takeover each publish a     *)
(* first episode: templates/lanes/run_mac_lane.sh says of a destination    *)
(* that exists "a stranded record costs a chain restart", and no chain can *)
(* restart after it.                                                       *)
PublicIsChain == IsChain(public)

(***************************************************************************)
(* Claims the code does not keep                                           *)
(***************************************************************************)

(* templates/lanes/run_mac_lane.sh: "that record is what says a chain      *)
(* exists: only a pull request actually carrying one is routed here".  The *)
(* runner looks for the directory, and taking its lock makes it.           *)
StoreCarriesRecord == atPull # None => Carries(atPull)

(* CreationOrigin: "neither a pre-existing pull request nor another        *)
(* writer's concurrent one can be claimed as created".  The branch is      *)
(* proved unused before the launch, not written by this round after it.    *)
CreationIsOwn == \A e \in public : e.kind = "creation" => author[e.result] = e.to

==============================================================================
