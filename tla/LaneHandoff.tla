----------------------------- MODULE LaneHandoff -----------------------------
(***************************************************************************)
(* One pull request, the builder lanes that write it, and the takeover of  *)
(* its branch by another lane (lane_handoff.py, lane_delivery.py and the   *)
(* runner templates/lanes/run_mac_lane.sh).                                *)
(*                                                                         *)
(* A run of a lane prepares its checkout, registers a round in a private   *)
(* mailbox, and supervises a provider in a process group of its own.  A    *)
(* takeover first stops one named round of the lane that owns the branch:  *)
(* it writes a stop request into the mailbox, waits until the supervisor   *)
(* of that round reports the group gone, and reserves the single launch.   *)
(* A killed run leaves its processes alive and its mailbox unfinished.     *)
(***************************************************************************)
EXTENDS Naturals, FiniteSets, Functions

CONSTANTS
    Lanes,       \* builder lanes; each runs one unit at a time
    Owner,       \* the lane whose prefix the branch carries
    MaxRounds,   \* bound: supervised rounds
    MaxCommits,  \* bound: commits made after the first head
    None         \* no lane, round or head

Rounds == 1..MaxRounds
Heads  == 0..MaxCommits

Mailboxes == [lane: Lanes, stop: BOOLEAN, started: BOOLEAN, finished: BOOLEAN,
              quiescent: BOOLEAN]
Intents   == [source: Lanes, to: Lanes, round: Rounds, accepted: BOOLEAN,
              reserved: BOOLEAN]
Chains    == [lane: Lanes, head: Heads, named: SUBSET Lanes]

HandoffAssumption ==
    /\ Owner \in Lanes
    /\ MaxRounds \in Nat /\ MaxCommits \in Nat
    /\ None \notin Lanes \cup Nat
    /\ None \notin Mailboxes \cup Intents \cup Chains

(***************************************************************************)
(* The run of a lane.  head is the head it read when it chose its unit,    *)
(* source and bound what a takeover was given, round the mailbox of its    *)
(* own round, ended how the supervised provider ended.                     *)
(***************************************************************************)
Steps == {"idle", "prepare", "stop", "await", "verify", "head", "write", "setup",
          "reserve", "register", "check", "popen", "watch", "reap", "finish",
          "attribute"}
Runs == [pc: Steps, phase: {"accept", "reserve"}, head: Heads,
         source: Lanes \cup {None}, bound: Rounds \cup {None},
         round: Rounds \cup {None}, ended: {"no", "completed", "stopped"}]
IdleRun == [pc |-> "idle", phase |-> "accept", head |-> 0, source |-> None,
            bound |-> None, round |-> None, ended |-> "no"]

VARIABLES
    remote,    \* head of the branch on GitHub
    past,      \* the commits each head contains, itself included
    author,    \* lane that wrote each commit
    commits,   \* commits made so far
    checkout,  \* head of each lane's working copy
    pin,       \* the pre-push guard: the handed head, None without a handoff
    ledger,    \* heads the guard let this run push
    run,       \* the run of each lane
    mailbox,   \* the mailbox of each round
    procs,     \* the process group of each round's provider
    intent,    \* the durable takeover intents, by expected head
    locked,    \* the lane holding the lock of an intent
    chain,     \* the published lineage
    launched   \* history: rounds a takeover of each head launched

github == <<remote, past, author, commits, chain>>
copies == <<checkout, pin, ledger>>
vars == <<remote, past, author, commits, checkout, pin, ledger, run, mailbox,
          procs, intent, locked, chain, launched>>

TypeOK ==
    /\ remote \in Heads /\ commits \in Heads
    /\ past \in [Heads -> SUBSET Heads]
    /\ author \in [Heads -> Lanes]
    /\ checkout \in [Lanes -> Heads]
    /\ pin \in [Lanes -> Heads \cup {None}]
    /\ ledger \in [Lanes -> SUBSET Heads]
    /\ run \in [Lanes -> Runs]
    /\ mailbox \in [Rounds -> Mailboxes \cup {None}]
    /\ procs \in [Rounds -> SUBSET {"provider", "descendant"}]
    /\ intent \in [Heads -> Intents \cup {None}]
    /\ locked \in [Heads -> Lanes \cup {None}]
    /\ chain \in Chains \cup {None}
    /\ launched \in [Heads -> SUBSET Rounds]

Quiet ==
    /\ remote = 0 /\ commits = 0
    /\ past = [h \in Heads |-> {h}]
    /\ author = [h \in Heads |-> Owner]
    /\ checkout = [l \in Lanes |-> 0]
    /\ pin = [l \in Lanes |-> None]
    /\ ledger = [l \in Lanes |-> {}]
    /\ run = [l \in Lanes |-> IdleRun]
    /\ procs = [r \in Rounds |-> {}]
    /\ intent = [h \in Heads |-> None]
    /\ locked = [h \in Heads |-> None]
    /\ chain = None
    /\ launched = [h \in Heads |-> {}]

Init == Quiet /\ mailbox = [r \in Rounds |-> None]

(***************************************************************************)
(* Ownership, as the runner and validate_handoff read it: the published    *)
(* chain when there is one, the branch prefix otherwise.  A chain that     *)
(* does not end at the current head answers "waiting" and owns nothing.    *)
(***************************************************************************)
Decision ==
    IF chain = None THEN [ready |-> TRUE, writer |-> Owner, named |-> {Owner}]
    ELSE [ready |-> chain.head = remote, writer |-> chain.lane,
          named |-> chain.named]

Owns(l) == Decision.ready /\ Decision.writer = l

(* admit: only a ready decision permits a reviewer, outside contributors.  *)
Admits(l) == Decision.ready /\ l \notin Decision.named

At(l, pc)     == run[l].pc = pc
Goto(l, pc)   == run' = [run EXCEPT ![l].pc = pc]
Halt(l)       == run' = [run EXCEPT ![l] = IdleRun]
IsTakeover(l) == run[l].source # None
Lock(l, h)    == locked[h] = None /\ locked' = [locked EXCEPT ![h] = l]
Unlock(l)     == locked' = [h \in Heads |-> IF locked[h] = l THEN None ELSE locked[h]]

Exited(r)  == mailbox[r].finished /\ mailbox[r].quiescent
Alive(l)   == \E r \in Rounds : mailbox[r] # None /\ mailbox[r].lane = l /\ procs[r] # {}
Unused     == {r \in Rounds : mailbox[r] = None}
NextRound  == CHOOSE r \in Unused : \A q \in Unused : r <= q

(***************************************************************************)
(* Choosing a unit.  A lane takes a pull request it owns as it is; one it  *)
(* does not own only with an explicit handoff, which names the lane that   *)
(* owns it and one round of that lane.                                     *)
(***************************************************************************)
Begin(l) ==
    /\ At(l, "idle") /\ Unused # {} /\ Owns(l)
    /\ run' = [run EXCEPT ![l] = [IdleRun EXCEPT !.pc = "setup", !.head = remote]]
    /\ UNCHANGED <<github, copies, mailbox, procs, intent, locked, launched>>

BeginTakeover(l) ==
    /\ At(l, "idle") /\ Unused # {} /\ ~Owns(l)
    /\ \E s \in Lanes \ {l}, r \in Rounds \ Unused :
          /\ Owns(s)
          /\ run' = [run EXCEPT ![l] = [IdleRun EXCEPT !.pc = "prepare",
                        !.head = remote, !.source = s, !.bound = r]]
    /\ UNCHANGED <<github, copies, mailbox, procs, intent, locked, launched>>

(***************************************************************************)
(* prepare: the intent is durable before the cancellation, so a repeated   *)
(* or conflicting one ends here and cancels nothing.                       *)
(***************************************************************************)
Recorded(l) == intent[run[l].head] # None

Prepare(l) ==
    /\ At(l, "prepare") /\ ~Recorded(l)
    /\ Lock(l, run[l].head)
    /\ intent' = [intent EXCEPT ![run[l].head] =
          [source |-> run[l].source, to |-> l, round |-> run[l].bound,
           accepted |-> FALSE, reserved |-> FALSE]]
    /\ Goto(l, "stop")
    /\ UNCHANGED <<github, copies, mailbox, procs, launched>>

PrepareRepeats(l) ==
    /\ At(l, "prepare") /\ locked[run[l].head] = None /\ Recorded(l)
    /\ Halt(l)
    /\ UNCHANGED <<github, copies, mailbox, procs, intent, locked, launched>>

(***************************************************************************)
(* LocalWriter.stop: ask, wait for the exit the supervisor reports, then   *)
(* compare the source's own working copy with the handed head.             *)
(***************************************************************************)
RequestStop(l) ==
    /\ At(l, "stop") /\ mailbox[run[l].bound].lane = run[l].source
    /\ mailbox' = [mailbox EXCEPT ![run[l].bound].stop = TRUE]
    /\ Goto(l, "await")
    /\ UNCHANGED <<github, copies, procs, intent, locked, launched>>

AwaitExit(l) ==
    /\ At(l, "await") /\ Exited(run[l].bound)
    /\ Goto(l, "verify")
    /\ UNCHANGED <<github, copies, mailbox, procs, intent, locked, launched>>

VerifyCheckout(l) ==
    /\ At(l, "verify") /\ checkout[run[l].source] = run[l].head
    /\ Goto(l, "head")
    /\ UNCHANGED <<github, copies, mailbox, procs, intent, locked, launched>>

ReadHead(l) ==
    /\ At(l, "head") /\ remote = run[l].head
    /\ Goto(l, "write")
    /\ UNCHANGED <<github, copies, mailbox, procs, intent, locked, launched>>

(* One owner action, and no destination: the binding is another lane's,    *)
(* the exit is not proved in time, or a head moved.                        *)
Refused(l) ==
    \/ At(l, "stop") /\ mailbox[run[l].bound].lane # run[l].source
    \/ At(l, "await") /\ ~Exited(run[l].bound)
    \/ At(l, "verify") /\ checkout[run[l].source] # run[l].head
    \/ At(l, "head") /\ remote # run[l].head

Refuse(l) ==
    /\ Refused(l)
    /\ Halt(l) /\ Unlock(l)
    /\ UNCHANGED <<github, copies, mailbox, procs, intent, launched>>

(* prepare's last write, and reserve_launch's.                             *)
Accept(l) ==
    /\ At(l, "write") /\ run[l].phase = "accept"
    /\ intent' = [intent EXCEPT ![run[l].head].accepted = TRUE]
    /\ Goto(l, "setup") /\ Unlock(l)
    /\ UNCHANGED <<github, copies, mailbox, procs, launched>>

Reserve(l) ==
    /\ At(l, "write") /\ run[l].phase = "reserve"
    /\ intent' = [intent EXCEPT ![run[l].head].reserved = TRUE]
    /\ Goto(l, "register") /\ Unlock(l)
    /\ UNCHANGED <<github, copies, mailbox, procs, launched>>

Mine(l) ==
    LET i == intent[run[l].head] IN
    i # None /\ i.accepted /\ i.to = l /\ i.source = run[l].source

Claimable(l) == Mine(l) /\ ~intent[run[l].head].reserved

ReserveLaunch(l) ==
    /\ At(l, "reserve") /\ Claimable(l)
    /\ Lock(l, run[l].head)
    /\ run' = [run EXCEPT ![l].pc = "stop", ![l].phase = "reserve"]
    /\ UNCHANGED <<github, copies, mailbox, procs, intent, launched>>

ReserveRepeats(l) ==
    /\ At(l, "reserve") /\ locked[run[l].head] = None /\ ~Claimable(l)
    /\ Halt(l)
    /\ UNCHANGED <<github, copies, mailbox, procs, intent, locked, launched>>

(***************************************************************************)
(* The workspace: the working copy at the chosen head and a fresh guard.   *)
(***************************************************************************)
Setup(l) ==
    /\ At(l, "setup")
    /\ checkout' = [checkout EXCEPT ![l] = run[l].head]
    /\ pin' = [pin EXCEPT ![l] = IF IsTakeover(l) THEN run[l].head ELSE None]
    /\ ledger' = [ledger EXCEPT ![l] = {}]
    /\ Goto(l, IF IsTakeover(l) THEN "reserve" ELSE "register")
    /\ UNCHANGED <<github, mailbox, procs, intent, locked, launched>>

(***************************************************************************)
(* _start_lineage_round registers the round if the pull request is still   *)
(* the one the working copy was made from, and still the writer's to write *)
(***************************************************************************)
Registrable(l) ==
    /\ remote = run[l].head /\ checkout[l] = remote
    /\ Owns(IF IsTakeover(l) THEN run[l].source ELSE l)
    /\ Unused # {}

Register(l) ==
    /\ At(l, "register") /\ Registrable(l)
    /\ mailbox' = [mailbox EXCEPT ![NextRound] =
          [lane |-> l, stop |-> FALSE, started |-> FALSE, finished |-> FALSE,
           quiescent |-> FALSE]]
    /\ run' = [run EXCEPT ![l].pc = "check", ![l].round = NextRound]
    /\ launched' = IF IsTakeover(l)
                   THEN [launched EXCEPT ![run[l].head] = @ \cup {NextRound}]
                   ELSE launched
    /\ UNCHANGED <<github, copies, procs, intent, locked>>

RegisterFails(l) ==
    /\ At(l, "register") /\ ~Registrable(l)
    /\ Halt(l)
    /\ UNCHANGED <<github, copies, mailbox, procs, intent, locked, launched>>

(***************************************************************************)
(* supervise_process                                                       *)
(***************************************************************************)
Finished(r, gone) == [mailbox EXCEPT ![r].finished = TRUE, ![r].quiescent = gone]

StopUnread(r) == mailbox[r].stop /\ mailbox[r].finished
StopSeen(r) == mailbox[r].stop

(* A stop that came before the launch: nothing ran, and the round is over. *)
CheckStop(l) ==
    /\ At(l, "check")
    /\ IF StopSeen(run[l].round)
       THEN mailbox' = Finished(run[l].round, TRUE) /\ Halt(l)
       ELSE Goto(l, "popen") /\ UNCHANGED mailbox
    /\ UNCHANGED <<github, copies, procs, intent, locked, launched>>

Popen(l) ==
    /\ At(l, "popen")
    /\ procs' = [procs EXCEPT ![run[l].round] = {"provider"}]
    /\ mailbox' = [mailbox EXCEPT ![run[l].round].started = TRUE]
    /\ Goto(l, "watch")
    /\ UNCHANGED <<github, copies, intent, locked, launched>>

Watched(l, how) == run' = [run EXCEPT ![l].pc = "reap", ![l].ended = how]

WatchStop(l) ==
    /\ At(l, "watch") /\ StopSeen(run[l].round)
    /\ Watched(l, "stopped")
    /\ UNCHANGED <<github, copies, mailbox, procs, intent, locked, launched>>

(* The wall clock, the output cap, or a signal to the runner.              *)
WatchCut(l) ==
    /\ At(l, "watch")
    /\ Watched(l, "stopped")
    /\ UNCHANGED <<github, copies, mailbox, procs, intent, locked, launched>>

(* The provider ended; what it left may hold its output open.              *)
WatchExit(l) ==
    /\ At(l, "watch") /\ "provider" \notin procs[run[l].round]
    /\ \/ Watched(l, "completed")
       \/ procs[run[l].round] # {} /\ Watched(l, "stopped")
    /\ UNCHANGED <<github, copies, mailbox, procs, intent, locked, launched>>

(* terminate_process_group: TERM, then KILL; a process may outlast both.   *)
Reap(l) ==
    /\ At(l, "reap")
    /\ \E left \in {{}, procs[run[l].round]} :
          procs' = [procs EXCEPT ![run[l].round] = left]
    /\ Goto(l, "finish")
    /\ UNCHANGED <<github, copies, mailbox, intent, locked, launched>>

GroupGone(r) == procs[r] = {}

Finish(l) ==
    /\ At(l, "finish")
    /\ mailbox' = Finished(run[l].round, GroupGone(run[l].round))
    /\ Goto(l, "attribute")
    /\ UNCHANGED <<github, copies, procs, intent, locked, launched>>

(***************************************************************************)
(* The round's delivery becomes an episode of the published lineage.  It   *)
(* must be the exit and the head the mailbox and the working copy prove;   *)
(* a takeover's also needs the reserved intent, and the source it names    *)
(* still where it was handed over.                                         *)
(***************************************************************************)
Delivered(l) ==
    /\ run[l].ended = "completed" /\ Exited(run[l].round)
    /\ remote # run[l].head /\ checkout[l] = remote

SourceStayed(l) ==
    /\ Exited(intent[run[l].head].round) /\ mailbox[intent[run[l].head].round].started
    /\ checkout[run[l].source] = run[l].head

TakeoverProven(l) ==
    /\ IsTakeover(l) /\ Mine(l) /\ intent[run[l].head].reserved
    /\ SourceStayed(l)
    /\ chain = None \/ (chain.lane = run[l].source /\ chain.head = run[l].head)

Continues(l) == chain # None /\ chain.lane = l /\ chain.head = run[l].head

Episode(l) ==
    [lane |-> l, head |-> remote,
     named |-> (IF chain = None THEN {} ELSE chain.named)
               \cup {l} \cup (IF IsTakeover(l) THEN {run[l].source} ELSE {})]

Attribute(l) ==
    /\ At(l, "attribute")
    /\ chain' = IF Delivered(l) /\ (TakeoverProven(l) \/ (~IsTakeover(l) /\ Continues(l)))
                THEN Episode(l) ELSE chain
    /\ Halt(l)
    /\ UNCHANGED <<remote, past, author, commits, copies, mailbox, procs, intent,
                   locked, launched>>

(***************************************************************************)
(* The processes of a round, supervised or not                             *)
(***************************************************************************)
Works(r) == mailbox[r] # None /\ procs[r] # {}

(* A commit on top of the working copy, or one that replaces its last.     *)
Commit(r) ==
    /\ Works(r) /\ commits < MaxCommits
    /\ LET l == mailbox[r].lane
           new == commits + 1 IN
       /\ \E kept \in {past[checkout[l]], past[checkout[l]] \ {checkout[l]}} :
             past' = [past EXCEPT ![new] = kept \cup {new}]
       /\ author' = [author EXCEPT ![new] = l]
       /\ checkout' = [checkout EXCEPT ![l] = new]
       /\ commits' = new
    /\ UNCHANGED <<remote, chain, pin, ledger, run, mailbox, procs, intent,
                   locked, launched>>

Sync(r) ==
    /\ Works(r)
    /\ checkout' = [checkout EXCEPT ![mailbox[r].lane] = remote]
    /\ UNCHANGED <<github, pin, ledger, run, mailbox, procs, intent, locked, launched>>

(* The pre-push guard: a takeover pushes over the head it was handed, or   *)
(* over a head this run pushed.  The lane whose prefix the branch carries  *)
(* pushes on that authority, which looks at no head.                       *)
Pinned(l)      == l # Owner /\ pin[l] # None
GuardAllows(l) == Pinned(l) => remote = pin[l] \/ remote \in ledger[l]

Push(r) ==
    /\ Works(r)
    /\ LET l == mailbox[r].lane IN
       /\ GuardAllows(l)
       /\ remote' = checkout[l]
       /\ ledger' = IF Pinned(l) THEN [ledger EXCEPT ![l] = @ \cup {checkout[l]}]
                    ELSE ledger
    /\ UNCHANGED <<past, author, commits, chain, checkout, pin, run, mailbox,
                   procs, intent, locked, launched>>

Spawn(r) ==
    /\ Works(r)
    /\ procs' = [procs EXCEPT ![r] = @ \cup {"descendant"}]
    /\ UNCHANGED <<github, copies, run, mailbox, intent, locked, launched>>

Exit(r) ==
    /\ \E p \in procs[r] : procs' = [procs EXCEPT ![r] = @ \ {p}]
    /\ UNCHANGED <<github, copies, run, mailbox, intent, locked, launched>>

(* A run is killed: its locks go with it, its provider does not.           *)
Crash(l) ==
    /\ ~At(l, "idle")
    /\ Halt(l) /\ Unlock(l)
    /\ UNCHANGED <<github, copies, mailbox, procs, intent, launched>>

(***************************************************************************)
(* Specification                                                           *)
(***************************************************************************)
Choose(l)    == Begin(l) \/ BeginTakeover(l)
Handing(l)   == Prepare(l) \/ PrepareRepeats(l) \/ RequestStop(l) \/ AwaitExit(l)
                  \/ VerifyCheckout(l) \/ ReadHead(l) \/ Refuse(l) \/ Accept(l)
                  \/ Setup(l) \/ ReserveLaunch(l) \/ ReserveRepeats(l) \/ Reserve(l)
Launching(l) == Register(l) \/ RegisterFails(l) \/ CheckStop(l) \/ Popen(l)
Ending(l)    == WatchStop(l) \/ WatchExit(l) \/ Reap(l) \/ Finish(l) \/ Attribute(l)
Working(r)   == Commit(r) \/ Sync(r) \/ Push(r) \/ Spawn(r) \/ Exit(r)

Next ==
    \/ \E l \in Lanes : Choose(l) \/ Handing(l) \/ Launching(l) \/ Ending(l)
                          \/ WatchCut(l) \/ Crash(l)
    \/ \E r \in Rounds : Working(r)

Spec == Init /\ [][Next]_vars

(***************************************************************************)
(* A run that is not killed goes on: prepare and reserve_launch wait at    *)
(* most a deadline, a lock is held by a live run only, and the loop of     *)
(* supervise_process reads the mailbox at least twice a second.  No        *)
(* fairness is asked of the provider, nor of the wall clock that cuts it.  *)
(***************************************************************************)
Fairness ==
    \A l \in Lanes : /\ WF_vars(Launching(l) \/ Ending(l))
                     /\ SF_vars(Handing(l))

FairSpec == Spec /\ Fairness

(***************************************************************************)
(* Safety                                                                  *)
(***************************************************************************)

(* An accepted takeover has no process of the round it stopped: not one    *)
(* its supervisor left behind, not one started after the stop request, and *)
(* not one whose supervisor was killed (LocalWriter.stop and               *)
(* supervise_process).                                                     *)
BoundSourceIsGone ==
    \A h \in Heads : intent[h] # None /\ intent[h].accepted => procs[intent[h].round] = {}

(* However often a handoff is repeated, by however many runs, and wherever *)
(* they are killed, one head launches one destination (prepare and         *)
(* reserve_launch).                                                        *)
OneLaunchPerHead == \A h \in Heads : Cardinality(launched[h]) <= 1

(* A round a takeover launched has an accepted and reserved intent, and is *)
(* of the lane that intent names (prepare, reserve_launch).                *)
LaunchIsReserved ==
    \A h \in Heads : launched[h] # {} =>
        /\ intent[h] # None /\ intent[h].accepted /\ intent[h].reserved
        /\ \A r \in launched[h] : mailbox[r].lane = intent[h].to

(* When the round of a takeover is registered, the branch and the          *)
(* destination's working copy are at the head that was handed over, and no *)
(* process is left of the round that was stopped, although another round   *)
(* of the source may have moved the branch since the reservation found it  *)
(* there (reserve_launch, _start_lineage_round).                           *)
StartsWhereHanded ==
    \A h \in Heads : launched'[h] # launched[h] =>
        /\ remote = h /\ checkout[intent[h].to] = h
        /\ procs[intent[h].round] = {}

(* The writer of the published lineage changes by a takeover only: one     *)
(* that was accepted, and reserved its launch, over the writer before it   *)
(* (lineage_handoff, lineage_continuation).                                *)
HandsOver(from, to) ==
    \E h \in Heads : /\ intent[h] # None /\ intent[h].accepted /\ intent[h].reserved
                     /\ intent[h].source = from /\ intent[h].to = to
Writer == IF chain = None THEN Owner ELSE chain.lane
WriterChangesByHandoff == Writer' # Writer => HandsOver(Writer, Writer')

(* Once an episode is published, no process of its round, nor of the round *)
(* it took over from, is left to move the head it names.                   *)
EpisodeIsSettled ==
    \A l \in Lanes : At(l, "attribute") /\ chain' # chain /\ chain'.lane = l =>
        /\ procs[run[l].round] = {}
        /\ IsTakeover(l) => procs[intent[run[l].head].round] = {}

(***************************************************************************)
(* Liveness                                                                *)
(***************************************************************************)

(* A stop request is enough to end a supervised round, with no timeout and *)
(* no help from the provider, unless its supervisor is killed.             *)
Supervised(r) == \E l \in Lanes : run[l].round = r
StopIsObeyed ==
    \A r \in Rounds : (Supervised(r) /\ mailbox[r].stop) ~> ~Supervised(r)

(* A handoff command ends, whoever else wants the same head: it never      *)
(* waits for ever on a lock, a writer or a head.                           *)
HandingEnds == \A l \in Lanes : (IsTakeover(l) /\ run[l].round = None) ~> ~(IsTakeover(l) /\ run[l].round = None)

(***************************************************************************)
(* Claims the code does not keep                                           *)
(***************************************************************************)

(* docs/self-hosted-mac-runner.md: "The runner rechecks source quiescence  *)
(* and the PR head immediately before the single destination launch."      *)
(* reserve_launch checks one round of the source lane; another may run.    *)
SourceIsQuietAtLaunch ==
    [][\A l \in Lanes : At(l, "write") /\ run[l].phase = "reserve" /\ run'[l].pc = "register"
          => ~Alive(run[l].source)]_vars

(* docs/supervisor-contract.md: "The actual builder must appear in the     *)
(* contributor set".  A round of the source lane that the takeover did not *)
(* stop can take up the head the destination pushed and deliver it as its  *)
(* own.                                                                    *)
HeadIsNamed == chain # None => author[chain.head] \in chain.named

(* admit: "Only a ready full decision permits a reviewer outside all       *)
(* contributors."  Until the first episode is published the decision is    *)
(* the branch prefix's, and it is ready.                                   *)
NoContributorReviews ==
    \A l \in Lanes : Admits(l) => \A c \in past[remote] : author[c] # l

==============================================================================
