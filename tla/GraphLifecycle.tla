---------------------------- MODULE GraphLifecycle ----------------------------
(***************************************************************************)
(* The local repository graph of one checkout: context_graph_lifecycle.py, *)
(* its commands (context_graph_command.py) and the read of a query         *)
(* (context_graph_query.py).                                               *)
(*                                                                         *)
(* Builders and a remover exclude each other by a lock that dies with its  *)
(* process.  A build runs a provider in a process group of its own, packs  *)
(* what it left, publishes a generation by two renames and prunes the      *)
(* others.  Readers take no lock: they read the pointer, then the          *)
(* generation it named, file by file.                                      *)
(***************************************************************************)
EXTENDS Naturals, FiniteSets

CONSTANTS
    Builders,    \* build and refresh commands
    Remover,     \* the remove command
    Readers,     \* status and query commands
    MaxCommit,   \* bound: commits
    MaxBuilds,   \* bound: runs of the provider
    MaxReads,    \* bound: commands of readers
    Nil

GraphAssumption ==
    /\ MaxCommit \in Nat /\ MaxBuilds \in Nat \ {0} /\ MaxReads \in Nat
    /\ Remover \notin Builders /\ Nil \notin Builders \cup {Remover} \cup Nat

Attempts == 3   \* _STATUS_ATTEMPTS
Builds  == 1..MaxBuilds
Commits == 0..MaxCommit
Procs   == {"leader", "worker"}

Steps == {"idle", "check", "resolve", "lock", "run", "stop", "pack", "rename",
          "point", "prune", "clean"}
IdleBuild == [pc |-> "idle", n |-> Nil, commit |-> 0, first |-> FALSE, ok |-> FALSE,
              complete |-> FALSE, keep |-> FALSE, procs |-> {}]
Reads == {"idle", "pointer", "manifest", "artifact", "resolve", "confirm", "open"}
Verdicts == {"none", "absent", "broken", "stale", "partial", "current", "answer",
             "unreadable"}
IdleRead == [pc |-> "idle", g |-> Nil, k |-> 1, asked |-> 0, verdict |-> "none",
             from |-> Nil, cut |-> FALSE]

VARIABLES
    tip,      \* the commit HEAD names
    home,     \* the state directory of the checkout exists
    current,  \* the pointer: a generation, or Nil
    gen,      \* the directory of each build: its state, commit, completeness
    scratch,  \* build directories
    lock,     \* who holds the lock
    builder,  \* builders
    read,     \* readers
    builds,   \* provider runs so far
    reads,    \* reads so far
    torn,     \* a removal has begun and neither ended nor been built over
    doubled   \* a build published over a generation of its own revision

files == <<home, current, gen, scratch>>
graphVars == <<tip, files, lock, builder, read, builds, reads, torn, doubled>>

NoGraph == [dir |-> "none", commit |-> 0, complete |-> FALSE]
Dirs == {"none", "staging", "whole", "torn"}
GraphTypeOK ==
    /\ tip \in Commits /\ home \in BOOLEAN /\ current \in Builds \cup {Nil}
    /\ gen \in [Builds -> [dir: Dirs, commit: Commits, complete: BOOLEAN]]
    /\ scratch \subseteq Builds
    /\ lock \in Builders \cup {Remover, Nil}
    /\ builds \in 0..MaxBuilds /\ reads \in 0..MaxReads
    /\ torn \in BOOLEAN /\ doubled \in BOOLEAN
    /\ \A x \in Builders :
          /\ builder[x].pc \in Steps /\ builder[x].n \in Builds \cup {Nil}
          /\ builder[x].procs \subseteq Procs
          /\ builder[x].pc \in {"run", "stop", "pack", "rename", "point", "prune", "clean"}
                => lock = x /\ builder[x].n \in scratch
    /\ \A x \in Readers : read[x].pc \in Reads /\ read[x].k \in 1..Attempts
                       /\ read[x].verdict \in Verdicts

GraphInit ==
    /\ tip = 0 /\ home = FALSE /\ current = Nil
    /\ gen = [n \in Builds |-> NoGraph]
    /\ scratch = {}
    /\ lock = Nil
    /\ builder = [x \in Builders |-> IdleBuild] /\ read = [x \in Readers |-> IdleRead]
    /\ builds = 0 /\ reads = 0 /\ torn = FALSE /\ doubled = FALSE

UsableFor(commit) ==
    current # Nil /\ gen[current] = [dir |-> "whole", commit |-> commit, complete |-> TRUE]

Commit ==
    /\ tip < MaxCommit /\ tip' = tip + 1
    /\ UNCHANGED <<files, lock, builder, read, builds, reads, torn, doubled>>

(***************************************************************************)
(* build and refresh                                                       *)
(***************************************************************************)
Enters(x, pc) == builder' = [builder EXCEPT ![x].pc = pc]
building == <<tip, read, reads>>

Command(x) ==
    /\ builder[x].pc = "idle"
    /\ \E first \in BOOLEAN, keep \in BOOLEAN :
          builder' = [builder EXCEPT ![x] = [IdleBuild EXCEPT !.first = first, !.keep = keep,
                                   !.pc = IF first THEN "check" ELSE "resolve"]]
    /\ UNCHANGED <<building, files, lock, builds, torn, doubled>>

(* build refuses when a usable generation binds the revision; the verdict  *)
(* is taken before the lock.                                               *)
Check(x) ==
    /\ builder[x].pc = "check"
    /\ IF UsableFor(tip) THEN builder' = [builder EXCEPT ![x] = IdleBuild]
       ELSE Enters(x, "resolve")
    /\ UNCHANGED <<building, files, lock, builds, torn, doubled>>

Resolve(x) ==
    /\ builder[x].pc = "resolve"
    /\ builder' = [builder EXCEPT ![x].pc = "lock", ![x].commit = tip]
    /\ UNCHANGED <<building, files, lock, builds, torn, doubled>>

(* exclusive_handle_lock                                                   *)
Free == lock = Nil

(* The lock, ensure, the materialized copy and the launch.                 *)
TakeLock(x) ==
    /\ builder[x].pc = "lock" /\ Free /\ builds < MaxBuilds
    /\ lock' = x /\ builds' = builds + 1 /\ home' = TRUE
    /\ scratch' = scratch \cup {builds + 1}
    /\ builder' = [builder EXCEPT ![x].pc = "run", ![x].n = builds + 1, ![x].procs = Procs]
    /\ UNCHANGED <<building, current, gen, torn, doubled>>

(* A build is already running for this checkout.                           *)
LockTimeout(x) ==
    /\ builder[x].pc = "lock" /\ ~Free
    /\ builder' = [builder EXCEPT ![x] = IdleBuild]
    /\ UNCHANGED <<building, files, lock, builds, torn, doubled>>

(* A process of the provider exits.                                        *)
Exit(x) ==
    /\ builder[x].pc = "run"
    /\ \E p \in builder[x].procs : builder' = [builder EXCEPT ![x].procs = @ \ {p}]
    /\ UNCHANGED <<building, files, lock, builds, torn, doubled>>

(* The wait for the leader: it exited, well or badly, or the time is up.   *)
Wait(x) ==
    /\ builder[x].pc = "run"
    /\ \/ Enters(x, "stop")
       \/ /\ "leader" \notin builder[x].procs
          /\ \E complete \in BOOLEAN :
                builder' = [builder EXCEPT ![x].pc = "stop", ![x].ok = TRUE,
                                           ![x].complete = complete]
    /\ UNCHANGED <<building, files, lock, builds, torn, doubled>>

(* _terminate_process_group: nobody is left, or both signals were sent and *)
(* the group is asked again.                                               *)
GroupEmpty(left) == left = {}

Stop(x) ==
    /\ builder[x].pc = "stop"
    /\ \E left \in (IF GroupEmpty(builder[x].procs) THEN {builder[x].procs}
                    ELSE SUBSET builder[x].procs) :
          builder' = [builder EXCEPT ![x].procs = left, ![x].ok = FALSE,
                        ![x].pc = IF builder[x].ok /\ GroupEmpty(left) THEN "pack" ELSE "clean"]
    /\ UNCHANGED <<building, files, lock, builds, torn, doubled>>

(* Pack the state, and write it with its manifest under a staging name.    *)
Pack(x) ==
    /\ builder[x].pc = "pack"
    /\ gen' = [gen EXCEPT ![builder[x].n] = [dir |-> "staging", commit |-> builder[x].commit,
                                             complete |-> builder[x].complete]]
    /\ Enters(x, "rename")
    /\ UNCHANGED <<building, home, current, scratch, lock, builds, torn, doubled>>

Rename(x) ==
    /\ builder[x].pc = "rename"
    /\ gen' = [gen EXCEPT ![builder[x].n].dir = "whole"]
    /\ Enters(x, "point")
    /\ UNCHANGED <<building, home, current, scratch, lock, builds, torn, doubled>>

Point(x) ==
    /\ builder[x].pc = "point"
    /\ doubled' = (doubled \/ (builder[x].first /\ UsableFor(builder[x].commit)))
    /\ current' = builder[x].n /\ torn' = FALSE
    /\ Enters(x, IF builder[x].keep THEN "clean" ELSE "prune")
    /\ UNCHANGED <<building, home, gen, scratch, lock, builds>>

(* prune, one entry of the directory after the other, each torn before it  *)
(* is gone.                                                                *)
Spares(x, n) == n # builder[x].n
Torn(g) == IF g.dir = "whole" THEN [g EXCEPT !.dir = "torn"] ELSE NoGraph
Tear(n) == gen' = [gen EXCEPT ![n] = Torn(@)]
Others(x) == {n \in Builds : gen[n].dir # "none" /\ Spares(x, n)}

PruneOne(x) ==
    /\ builder[x].pc = "prune" /\ \E n \in Others(x) : Tear(n)
    /\ UNCHANGED <<building, home, current, scratch, lock, builder, builds, torn, doubled>>

PruneDone(x) ==
    /\ builder[x].pc = "prune" /\ Others(x) = {} /\ Enters(x, "clean")
    /\ UNCHANGED <<building, files, lock, builds, torn, doubled>>

(* An exception in publish: the staging directory is removed.              *)
PublishFails(x) ==
    /\ builder[x].pc \in {"pack", "rename", "point"} /\ Enters(x, "clean")
    /\ gen' = [gen EXCEPT ![builder[x].n] = IF @.dir = "staging" THEN NoGraph ELSE @]
    /\ UNCHANGED <<building, home, current, scratch, lock, builds, torn, doubled>>

Clean(x) ==
    /\ builder[x].pc = "clean"
    /\ scratch' = scratch \ {builder[x].n} /\ lock' = Nil
    /\ builder' = [builder EXCEPT ![x] = IdleBuild]
    /\ UNCHANGED <<building, home, current, gen, builds, torn, doubled>>

(* The command is killed.  Its provider is not, and goes on in a directory *)
(* nobody reads again.                                                     *)
BuildDies(x) ==
    /\ builder[x].pc # "idle"
    /\ lock' = IF lock = x THEN Nil ELSE lock
    /\ builder' = [builder EXCEPT ![x] = IdleBuild]
    /\ UNCHANGED <<building, files, builds, torn, doubled>>

(***************************************************************************)
(* remove                                                                  *)
(***************************************************************************)
removing == <<tip, builder, builds, reads, doubled>>
Cuts == [x \in Readers |-> IF read[x].pc = "idle" THEN read[x] ELSE [read[x] EXCEPT !.cut = TRUE]]

Remove ==
    /\ Free /\ home /\ lock' = Remover
    /\ UNCHANGED <<removing, files, read, torn>>

(* One entry after the other, in the order of the directory.               *)
RemoveOne ==
    /\ lock = Remover /\ torn' = TRUE /\ read' = Cuts
    /\ \/ /\ \E n \in {m \in Builds : gen[m].dir # "none"} : Tear(n)
          /\ UNCHANGED <<current, scratch>>
       \/ /\ current # Nil /\ current' = Nil
          /\ UNCHANGED <<gen, scratch>>
       \/ /\ \E n \in scratch : scratch' = scratch \ {n}
          /\ UNCHANGED <<gen, current>>
    /\ UNCHANGED <<removing, home, lock>>

RemoveDone ==
    /\ lock = Remover /\ lock' = Nil
    /\ \A n \in Builds : gen[n].dir = "none"
    /\ current = Nil /\ scratch = {}
    /\ home' = FALSE /\ torn' = FALSE
    /\ UNCHANGED <<removing, current, gen, scratch, read>>

(* Killed, or a provider nobody watches wrote into what was being deleted. *)
RemoveFails ==
    /\ lock = Remover /\ lock' = Nil
    /\ UNCHANGED <<removing, files, read, torn>>

(***************************************************************************)
(* status, and a query                                                     *)
(***************************************************************************)
reading == <<tip, files, lock, builder, builds, torn, doubled>>
Turns(x, v) == read' = [read EXCEPT ![x] = v] /\ UNCHANGED reading
Answers(x, verdict) == [read[x] EXCEPT !.pc = "idle", !.verdict = verdict]
Doubts(x, verdict) == [read[x] EXCEPT !.pc = "confirm", !.verdict = verdict]

Ask(x) ==
    /\ read[x].pc = "idle" /\ reads < MaxReads /\ reads' = reads + 1
    /\ read' = [read EXCEPT ![x] = [IdleRead EXCEPT !.pc = "pointer", !.cut = torn]]
    /\ UNCHANGED reading

ReadPointer(x) ==
    /\ read[x].pc = "pointer" /\ UNCHANGED reads
    /\ Turns(x, IF ~home \/ current = Nil THEN Answers(x, "absent")
                ELSE [read[x] EXCEPT !.pc = "manifest", !.g = current])

(* A torn directory may have lost either of its files.                     *)
Finds(x) == CASE gen[read[x].g].dir = "whole" -> {TRUE}
              [] gen[read[x].g].dir = "torn"  -> BOOLEAN
              [] OTHER -> {FALSE}

ReadManifest(x) ==
    /\ read[x].pc = "manifest" /\ UNCHANGED reads
    /\ \E found \in Finds(x) :
          Turns(x, IF found THEN [read[x] EXCEPT !.pc = "artifact"] ELSE Doubts(x, "broken"))

ReadArtifact(x) ==
    /\ read[x].pc = "artifact" /\ UNCHANGED reads
    /\ \E found \in Finds(x) :
          Turns(x, IF found THEN [read[x] EXCEPT !.pc = "resolve"] ELSE Doubts(x, "broken"))

ResolveRevision(x) ==
    /\ read[x].pc = "resolve" /\ UNCHANGED reads
    /\ Turns(x, IF gen[read[x].g].commit # tip THEN Doubts(x, "stale")
                ELSE IF ~gen[read[x].g].complete THEN Doubts(x, "partial")
                ELSE [read[x] EXCEPT !.pc = "open", !.asked = tip, !.verdict = "current"])

(* A verdict about a generation the pointer has left is read again.        *)
NeverMoved(x) == FALSE
Moved(x) == current # read[x].g

Confirm(x) ==
    /\ read[x].pc = "confirm" /\ UNCHANGED reads
    /\ Turns(x, IF read[x].k < Attempts /\ Moved(x)
                THEN [read[x] EXCEPT !.pc = "pointer", !.k = @ + 1, !.verdict = "none"]
                ELSE Answers(x, read[x].verdict))

(* read_graph opens the artifact once more.                                *)
Opened(x) == read[x].g

Open(x) ==
    /\ read[x].pc = "open" /\ UNCHANGED reads
    /\ \E found \in Finds(x) :
          Turns(x, IF found THEN [Answers(x, "answer") EXCEPT !.from = gen[Opened(x)]]
                   ELSE Answers(x, "unreadable"))

Build(x) ==
    \/ Command(x) \/ Check(x) \/ Resolve(x) \/ TakeLock(x) \/ LockTimeout(x)
    \/ Exit(x) \/ Wait(x) \/ Stop(x) \/ Pack(x) \/ Rename(x) \/ Point(x) \/ PruneOne(x)
    \/ PruneDone(x) \/ PublishFails(x) \/ Clean(x) \/ BuildDies(x)
Read(x) ==
    \/ Ask(x) \/ ReadPointer(x) \/ ReadManifest(x) \/ ReadArtifact(x)
    \/ ResolveRevision(x) \/ Confirm(x) \/ Open(x)

GraphNext ==
    \/ Commit
    \/ \E x \in Builders : Build(x)
    \/ Remove \/ RemoveOne \/ RemoveDone \/ RemoveFails
    \/ \E x \in Readers : Read(x)

GraphSpec == GraphInit /\ [][GraphNext]_graphVars

(***************************************************************************)
(* Safety                                                                  *)
(***************************************************************************)

(* The pointer names a complete generation through every kill, failed      *)
(* publication, prune and rebuild; only a removal under way, or one that   *)
(* was cut short, leaves it dangling (publish, prune, remove_all).         *)
PointerIsWhole == current # Nil => gen[current].dir = "whole" \/ torn

(* A status that calls the graph broken before its last attempt does not   *)
(* describe a generation a healthy build has just superseded: a removal    *)
(* was at work since it was asked (graph_status).                          *)
BlameIsDeserved ==
    \A x \in Readers :
        read[x].pc = "idle" /\ read[x].verdict = "broken" /\ read[x].k < Attempts => read[x].cut

(* Nothing the provider started still runs when its state is packed and    *)
(* published, also after a leader that left its workers behind             *)
(* (_run_contained, _terminate_process_group).                             *)
PackedQuiet ==
    \A x \in Builders :
        builder[x].pc \in {"pack", "rename", "point", "prune"} => builder[x].procs = {}

(* What a query answers from is a complete graph of the revision it asked  *)
(* about, whatever is published between the verdict and the read           *)
(* (graph_context, read_graph).                                            *)
AnswerIsBound ==
    \A x \in Readers : read[x].verdict = "answer" =>
        read[x].from.commit = read[x].asked /\ read[x].from.complete

(* What a reader can rely on, of whatever builds and removals come between *)
(* two of its reads: the pointer, the generation behind it, the blame and  *)
(* the answer (context_graph_lifecycle.py, context_graph_query.py).        *)
GraphIsWhole == PointerIsWhole /\ PackedQuiet /\ BlameIsDeserved /\ AnswerIsBound

(***************************************************************************)
(* Claims the code does not keep                                           *)
(***************************************************************************)

(* context_graph_command.py: "A usable generation already binds this       *)
(* revision, so rebuilding it is refresh -- an explicit choice, never      *)
(* something build does by surprise".                                      *)
BuildIsFirst == ~doubled

(* docs/context-graph-lifecycle.md says of unreadable: "The reader has no  *)
(* account of what the generation contains", a defect.                     *)
UnreadableIsDefect == \A x \in Readers : read[x].verdict = "unreadable" => read[x].cut
==============================================================================
