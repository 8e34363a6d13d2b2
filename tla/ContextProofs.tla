----------------------------- MODULE ContextProofs -----------------------------
(***************************************************************************)
(* The repository graph of one checkout, for any number of builders,       *)
(* readers, builds, commits and reads: whoever builds holds the lock and   *)
(* writes a generation nobody else can see; a pointer, once it names a     *)
(* generation, names a whole one until a removal begins; and a reader that *)
(* takes no lock still knows whether a removal was at work under it.       *)
(*                                                                         *)
(* And the private context of one work item, for any number of sessions,   *)
(* commands, revisions, packets and heads: what a command holds (the lock  *)
(* of the work item, that of the connection) and what it has read say      *)
(* enough of where it is for every record, binding and comment it writes.  *)
(***************************************************************************)
EXTENDS GraphLifecycle, ContextSession, FiniteSetTheorems, TLAPS

GraphRecs == [dir: Dirs, commit: Commits, complete: BOOLEAN]
BuildRecs ==
    [pc: Steps, n: Builds \cup {Nil}, commit: Commits, first: BOOLEAN, ok: BOOLEAN,
     complete: BOOLEAN, keep: BOOLEAN, procs: SUBSET Procs]
ReadRecs ==
    [pc: Reads, g: Builds \cup {Nil}, k: 1..Attempts, asked: Commits, verdict: Verdicts,
     from: GraphRecs \cup {Nil}, cut: BOOLEAN]

Making  == {"run", "stop", "pack", "rename", "point"}
Holding == Making \cup {"prune", "clean"}

GraphTyped ==
    /\ tip \in Commits /\ home \in BOOLEAN /\ current \in Builds \cup {Nil}
    /\ gen \in [Builds -> GraphRecs] /\ scratch \subseteq Builds
    /\ lock \in Builders \cup {Remover, Nil}
    /\ builder \in [Builders -> BuildRecs] /\ read \in [Readers -> ReadRecs]
    /\ builds \in 0..MaxBuilds /\ reads \in 0..MaxReads
    /\ torn \in BOOLEAN /\ doubled \in BOOLEAN

\* Whoever works on a generation holds the lock, and numbers it anew.
HolderInv ==
    \A x \in Builders : builder[x].pc \in Holding =>
        /\ lock = x /\ builder[x].n \in scratch
        /\ builder[x].n \in Builds /\ builder[x].n <= builds

\* What is being made was never pointed to, nor read.
UnseenInv ==
    /\ current # Nil => current <= builds
    /\ \A y \in Readers : read[y].g # Nil => read[y].g <= builds
    /\ \A x \in Builders : builder[x].pc \in Making =>
         /\ current # builder[x].n
         /\ \A y \in Readers : read[y].g # builder[x].n

\* How far the generation of a build has come.
StageInv ==
    \A x \in Builders :
        /\ builder[x].pc = "rename" => gen[builder[x].n].dir = "staging"
        /\ builder[x].pc = "point" => gen[builder[x].n].dir = "whole"
        /\ builder[x].pc = "prune" => current = builder[x].n

\* A removal that may still show is known to whoever reads through it.
WatchInv == torn => \A y \in Readers : read[y].pc # "idle" => read[y].cut

\* A generation that was found torn stays torn, and one whose commit was
\* read keeps it for as long as it can be opened.
SeenInv ==
    \A y \in Readers :
        /\ read[y].pc \notin {"idle", "pointer"} => read[y].g # Nil
        /\ read[y].pc = "confirm" /\ read[y].verdict = "broken" => gen[read[y].g].dir # "whole"
        /\ read[y].pc = "open" /\ gen[read[y].g].dir \in {"whole", "torn"} =>
             gen[read[y].g].commit = read[y].asked /\ gen[read[y].g].complete

GraphInv ==
    /\ GraphTyped /\ HolderInv /\ UnseenInv /\ StageInv /\ WatchInv /\ SeenInv
    /\ PointerIsWhole /\ PackedQuiet /\ BlameIsDeserved /\ AnswerIsBound

\* The checkout starts with no graph.
LEMMA GraphStarts == GraphAssumption /\ GraphInit => GraphInv
<1> SUFFICES ASSUME GraphAssumption, GraphInit PROVE GraphInv
  OBVIOUS
<1>1. NoGraph \in GraphRecs /\ IdleBuild \in BuildRecs /\ IdleRead \in ReadRecs
  BY DEF GraphAssumption, NoGraph, GraphRecs, Dirs, Commits, IdleBuild, BuildRecs, Steps, IdleRead,
     ReadRecs, Reads, Attempts, Verdicts
<1>2. GraphTyped
  <2>1. tip \in Commits /\ builds \in 0..MaxBuilds /\ reads \in 0..MaxReads
    BY DEF GraphInit, GraphAssumption, Commits
  <2>2. gen \in [Builds -> GraphRecs] /\ builder \in [Builders -> BuildRecs]
        /\ read \in [Readers -> ReadRecs]
    BY <1>1 DEF GraphInit
  <2>3. home \in BOOLEAN /\ torn \in BOOLEAN /\ doubled \in BOOLEAN
    BY DEF GraphInit
  <2> QED
    BY <2>1, <2>2, <2>3 DEF GraphInit, GraphTyped
<1>3. /\ \A x \in Builders : builder[x] = IdleBuild
      /\ \A y \in Readers : read[y] = IdleRead
  BY DEF GraphInit
<1>4. HolderInv /\ UnseenInv /\ StageInv
  BY <1>3 DEF GraphInit, HolderInv, UnseenInv, StageInv, IdleBuild, IdleRead, Holding, Making
<1>5. WatchInv /\ SeenInv /\ PointerIsWhole /\ PackedQuiet /\ BlameIsDeserved /\ AnswerIsBound
  BY <1>3 DEF GraphInit, WatchInv, SeenInv, PointerIsWhole, PackedQuiet, BlameIsDeserved, AnswerIsBound,
     IdleBuild, IdleRead
<1> QED
  BY <1>2, <1>4, <1>5 DEF GraphInv

LEMMA CommitStep ==
    ASSUME GraphAssumption, GraphInv, Commit PROVE GraphInv'
<1>1. /\ tip' \in Commits
      /\ UNCHANGED <<home, current, gen, scratch, lock, builder, read, builds, reads, torn, doubled>>
  BY DEF Commit, GraphInv, GraphTyped, GraphAssumption, Commits, files
<1> QED
  BY <1>1 DEF GraphInv, GraphTyped, HolderInv, UnseenInv, StageInv, WatchInv, SeenInv, PointerIsWhole,
     PackedQuiet, BlameIsDeserved, AnswerIsBound

(* Builds.                                                                 *)

\* A builder that touches no file and does not come nearer to publishing,
\* nor keeps what it gives up, endangers nothing.
LEMMA BuilderTurn ==
    ASSUME GraphAssumption, GraphInv, NEW x \in Builders, NEW v \in BuildRecs,
           builder' = [builder EXCEPT ![x] = v],
           UNCHANGED <<building, files, lock, builds, torn, doubled>>,
           v.pc \in Holding => builder[x].pc \in Holding /\ v.n = builder[x].n,
           v.pc \in Making => builder[x].pc \in Making,
           v.pc \notin {"rename", "point", "prune"},
           v.pc = "pack" => v.procs = {}
    PROVE  GraphInv'
<1>1. UNCHANGED <<tip, home, current, gen, scratch, lock, read, builds, reads, torn, doubled>>
  BY DEF building, files
<1>2. GraphTyped'
  BY <1>1 DEF GraphInv, GraphTyped
<1>3. builder'[x] = v /\ \A z \in Builders \ {x} : builder'[z] = builder[z]
  BY DEF GraphInv, GraphTyped
<1>4. HolderInv' /\ UnseenInv'
  BY <1>1, <1>3 DEF GraphInv, HolderInv, UnseenInv, Making, Holding
<1>5. StageInv' /\ PackedQuiet'
  BY <1>1, <1>3 DEF GraphInv, StageInv, PackedQuiet
<1>6. WatchInv' /\ SeenInv' /\ PointerIsWhole' /\ BlameIsDeserved' /\ AnswerIsBound'
  BY <1>1 DEF GraphInv, WatchInv, SeenInv, PointerIsWhole, BlameIsDeserved, AnswerIsBound
<1> QED
  BY <1>2, <1>4, <1>5, <1>6 DEF GraphInv

LEMMA IdleTurn ==
    ASSUME GraphAssumption, GraphInv, NEW x \in Builders,
           builder' = [builder EXCEPT ![x] = IdleBuild],
           UNCHANGED <<building, files, lock, builds, torn, doubled>>
    PROVE  GraphInv'
<1>1. IdleBuild \in BuildRecs /\ IdleBuild.pc = "idle"
  BY DEF GraphAssumption, Commits, IdleBuild, BuildRecs, Steps
<1> QED
  BY <1>1, BuilderTurn DEF Holding, Making

LEMMA CommandStep ==
    ASSUME GraphAssumption, GraphInv, NEW x \in Builders, Command(x) PROVE GraphInv'
<1>1. PICK first \in BOOLEAN, keep \in BOOLEAN :
        builder' = [builder EXCEPT ![x] = [IdleBuild EXCEPT !.first = first, !.keep = keep,
                                             !.pc = IF first THEN "check" ELSE "resolve"]]
  BY DEF Command
<1> DEFINE v == [IdleBuild EXCEPT !.first = first, !.keep = keep,
                                  !.pc = IF first THEN "check" ELSE "resolve"]
<1>2. v \in BuildRecs /\ v.pc \in {"check", "resolve"}
  <2>1. IdleBuild \in BuildRecs
    BY DEF GraphAssumption, Commits, IdleBuild, BuildRecs, Steps
  <2> DEFINE pc == IF first THEN "check" ELSE "resolve"
  <2>2. pc \in {"check", "resolve"} /\ pc \in Steps
    BY DEF Steps
  <2>3. v = [IdleBuild EXCEPT !.first = first, !.keep = keep, !.pc = pc]
    OBVIOUS
  <2> HIDE DEF pc
  <2> QED
    BY <2>1, <2>2, <2>3 DEF BuildRecs
<1>3. builder' = [builder EXCEPT ![x] = v]
  BY <1>1
<1> HIDE DEF v
<1> QED
  BY <1>2, <1>3, BuilderTurn DEF Command, Holding, Making

LEMMA CheckStep ==
    ASSUME GraphAssumption, GraphInv, NEW x \in Builders, Check(x) PROVE GraphInv'
<1>1. CASE builder' = [builder EXCEPT ![x] = IdleBuild]
  BY <1>1, IdleTurn DEF Check
<1>2. CASE builder' = [builder EXCEPT ![x].pc = "resolve"]
  <2> DEFINE v == [builder[x] EXCEPT !.pc = "resolve"]
  <2>1. v \in BuildRecs /\ v.pc = "resolve"
    BY DEF GraphInv, GraphTyped, BuildRecs, Steps
  <2>2. builder' = [builder EXCEPT ![x] = v]
    BY <1>2
  <2> QED
    BY <2>1, <2>2, BuilderTurn DEF Check, Holding, Making
<1> QED
  BY <1>1, <1>2 DEF Check, Enters

LEMMA ResolveStep ==
    ASSUME GraphAssumption, GraphInv, NEW x \in Builders, Resolve(x) PROVE GraphInv'
<1> DEFINE v == [builder[x] EXCEPT !.pc = "lock", !.commit = tip]
<1>1. v \in BuildRecs /\ v.pc = "lock"
  <2>1. builder[x] \in BuildRecs /\ tip \in Commits /\ "lock" \in Steps
    BY DEF GraphInv, GraphTyped, Steps
  <2> QED
    BY <2>1 DEF BuildRecs
<1>2. builder' = [builder EXCEPT ![x] = v]
  BY DEF Resolve, GraphInv, GraphTyped, BuildRecs
<1> QED
  BY <1>1, <1>2, BuilderTurn DEF Resolve, Holding, Making

\* The lock gives a builder a generation nobody has seen.
LEMMA TakeLockStep ==
    ASSUME GraphAssumption, GraphInv, NEW x \in Builders, TakeLock(x) PROVE GraphInv'
<1>1. /\ lock = Nil /\ lock' = x /\ builds' = builds + 1 /\ builds < MaxBuilds /\ home' = TRUE
      /\ scratch' = scratch \cup {builds + 1}
      /\ UNCHANGED <<tip, current, gen, read, reads, torn, doubled>>
  BY DEF TakeLock, Free, building
<1>2. builds \in Nat /\ builds + 1 \in Builds /\ builds + 1 \in 0..MaxBuilds
  BY <1>1 DEF GraphInv, GraphTyped, GraphAssumption, Builds
<1> DEFINE v == [builder[x] EXCEPT !.pc = "run", !.n = builds + 1, !.procs = Procs]
<1>3. v \in BuildRecs /\ v.pc = "run" /\ v.n = builds + 1
  <2>1. builder[x] \in BuildRecs /\ builds + 1 \in Builds \cup {Nil} /\ "run" \in Steps
    BY <1>2 DEF GraphInv, GraphTyped, Steps
  <2> HIDE <1>2
  <2> QED
    BY <2>1 DEF BuildRecs
<1>4. builder' = [builder EXCEPT ![x] = v]
  BY DEF TakeLock, GraphInv, GraphTyped, BuildRecs
<1> HIDE DEF v
<1>5. builder'[x] = v /\ \A z \in Builders \ {x} : builder'[z] = builder[z]
  BY <1>4 DEF GraphInv, GraphTyped
<1>6. \A z \in Builders : builder[z].pc \notin Holding
  BY <1>1 DEF GraphInv, HolderInv, GraphAssumption
<1>7. GraphTyped'
  <2>1. scratch' \subseteq Builds
    BY <1>1, <1>2 DEF GraphInv, GraphTyped
  <2>2. builder' \in [Builders -> BuildRecs]
    BY <1>3, <1>4 DEF GraphInv, GraphTyped
  <2> QED
    BY <1>1, <1>2, <2>1, <2>2 DEF GraphInv, GraphTyped
<1>8. HolderInv'
  BY <1>1, <1>2, <1>3, <1>5, <1>6 DEF HolderInv
<1>9. UnseenInv'
  <2>1. current # Nil => current \in Nat /\ current <= builds
    BY DEF GraphInv, GraphTyped, UnseenInv, Builds
  <2>2. \A y \in Readers : read[y].g # Nil => read[y].g \in Nat /\ read[y].g <= builds
    BY DEF GraphInv, GraphTyped, UnseenInv, ReadRecs, Builds
  <2>3. builds + 1 # Nil
    BY <1>2 DEF GraphAssumption
  <2> QED
    BY <1>1, <1>2, <1>3, <1>5, <1>6, <2>1, <2>2, <2>3 DEF UnseenInv, Holding
<1>10. StageInv' /\ PackedQuiet'
  BY <1>1, <1>3, <1>5 DEF GraphInv, StageInv, PackedQuiet
<1>11. WatchInv' /\ SeenInv' /\ PointerIsWhole' /\ BlameIsDeserved' /\ AnswerIsBound'
  BY <1>1 DEF GraphInv, WatchInv, SeenInv, PointerIsWhole, BlameIsDeserved, AnswerIsBound
<1> QED
  BY <1>7, <1>8, <1>9, <1>10, <1>11 DEF GraphInv

LEMMA ProviderTurns ==
    ASSUME GraphAssumption, GraphInv, NEW x \in Builders, Exit(x) \/ Wait(x) \/ Stop(x)
    PROVE  GraphInv'
<1>1. builder[x] \in BuildRecs /\ builder \in [Builders -> BuildRecs]
  BY DEF GraphInv, GraphTyped
<1>2. CASE Exit(x)
  <2>1. PICK p \in builder[x].procs : builder' = [builder EXCEPT ![x].procs = @ \ {p}]
    BY <1>2 DEF Exit
  <2> DEFINE v == [builder[x] EXCEPT !.procs = @ \ {p}]
  <2>2. v \in BuildRecs /\ v.pc = "run" /\ v.n = builder[x].n
    BY <1>1, <1>2 DEF BuildRecs, Exit
  <2>3. builder' = [builder EXCEPT ![x] = v]
    BY <1>1, <2>1
  <2> QED
    BY <1>2, <2>2, <2>3, BuilderTurn DEF Exit, Holding, Making
<1>3. CASE Wait(x)
  <2>1. PICK v \in {[builder[x] EXCEPT !.pc = "stop"]} \cup
                   {[builder[x] EXCEPT !.pc = "stop", !.ok = TRUE, !.complete = c] : c \in BOOLEAN} :
          builder' = [builder EXCEPT ![x] = v]
    <3>1. CASE builder' = [builder EXCEPT ![x].pc = "stop"]
      BY <3>1
    <3>2. CASE \E c \in BOOLEAN : builder' = [builder EXCEPT ![x].pc = "stop", ![x].ok = TRUE,
                                                            ![x].complete = c]
      BY <1>1, <3>2
    <3> QED
      BY <1>3, <3>1, <3>2 DEF Wait, Enters
  <2>2. v \in BuildRecs /\ v.pc = "stop" /\ v.n = builder[x].n
    <3>1. CASE v = [builder[x] EXCEPT !.pc = "stop"]
      BY <1>1, <3>1 DEF BuildRecs, Steps
    <3>2. CASE \E c \in BOOLEAN : v = [builder[x] EXCEPT !.pc = "stop", !.ok = TRUE, !.complete = c]
      BY <1>1, <3>2 DEF BuildRecs, Steps
    <3> QED
      BY <2>1, <3>1, <3>2
  <2> QED
    BY <1>3, <2>1, <2>2, BuilderTurn DEF Wait, Holding, Making
<1>4. CASE Stop(x)
  <2>1. PICK left \in SUBSET builder[x].procs :
          builder' = [builder EXCEPT ![x].procs = left, ![x].ok = FALSE,
                        ![x].pc = IF builder[x].ok /\ GroupEmpty(left) THEN "pack" ELSE "clean"]
    BY <1>4 DEF Stop
  <2> DEFINE v == [builder[x] EXCEPT !.procs = left, !.ok = FALSE,
                     !.pc = IF builder[x].ok /\ GroupEmpty(left) THEN "pack" ELSE "clean"]
  <2>2. /\ v \in BuildRecs /\ v.n = builder[x].n
        /\ v.pc = "clean" \/ (v.pc = "pack" /\ v.procs = {})
    BY <1>1 DEF BuildRecs, Steps, GroupEmpty
  <2>3. builder' = [builder EXCEPT ![x] = v]
    BY <1>1, <2>1
  <2> QED
    BY <1>4, <2>2, <2>3, BuilderTurn DEF Stop, Holding, Making
<1> QED
  BY <1>2, <1>3, <1>4

\* A generation in the making is nobody's yet: whatever becomes of its
\* directory, the pointer and the readers are elsewhere.
LEMMA MakingStep ==
    ASSUME GraphAssumption, GraphInv, NEW x \in Builders, NEW v \in BuildRecs, NEW d \in GraphRecs,
           builder[x].pc \in {"pack", "rename", "point"},
           builder' = [builder EXCEPT ![x] = v], gen' = [gen EXCEPT ![builder[x].n] = d],
           v.n = builder[x].n, v.procs = builder[x].procs,
           \/ v.pc = "rename" /\ d.dir = "staging"
           \/ v.pc = "point" /\ d.dir = "whole"
           \/ v.pc = "clean",
           UNCHANGED <<building, home, current, scratch, lock, builds, torn, doubled>>
    PROVE  GraphInv'
<1>1. UNCHANGED <<tip, home, current, scratch, lock, read, builds, reads, torn, doubled>>
  BY DEF building
<1>2. builder[x].pc \in Making /\ builder[x].pc \in Holding
  BY DEF Making, Holding
<1>3. builder[x].n \in Builds /\ builder[x].procs = {} /\ lock = x
  BY <1>2 DEF GraphInv, HolderInv, PackedQuiet
<1>4. GraphTyped'
  BY <1>1 DEF GraphInv, GraphTyped
<1>5. builder'[x] = v /\ \A z \in Builders \ {x} : builder'[z] = builder[z]
  BY DEF GraphInv, GraphTyped
<1>6. gen'[builder[x].n] = d /\ \A n \in Builds \ {builder[x].n} : gen'[n] = gen[n]
  BY <1>3 DEF GraphInv, GraphTyped
<1>7. \A z \in Builders \ {x} : builder[z].pc \notin Holding
  BY <1>3 DEF GraphInv, HolderInv
<1>8. HolderInv' /\ UnseenInv'
  BY <1>1, <1>2, <1>5 DEF GraphInv, HolderInv, UnseenInv, Making, Holding
<1>9. StageInv' /\ PackedQuiet'
  BY <1>1, <1>3, <1>5, <1>6, <1>7 DEF GraphInv, StageInv, PackedQuiet, Making, Holding
<1>10. current # builder[x].n /\ \A y \in Readers : read[y].g # builder[x].n
  BY <1>2 DEF GraphInv, UnseenInv
<1>11. \A y \in Readers : read[y].pc \notin {"idle", "pointer"} => gen'[read[y].g] = gen[read[y].g]
  BY <1>6, <1>10 DEF GraphInv, GraphTyped, SeenInv, ReadRecs
<1>12. PointerIsWhole'
  BY <1>1, <1>6, <1>10 DEF GraphInv, GraphTyped, PointerIsWhole
<1>13. SeenInv'
  BY <1>1, <1>11 DEF GraphInv, SeenInv
<1>14. WatchInv' /\ BlameIsDeserved' /\ AnswerIsBound'
  BY <1>1 DEF GraphInv, WatchInv, BlameIsDeserved, AnswerIsBound
<1> QED
  BY <1>4, <1>8, <1>9, <1>12, <1>13, <1>14 DEF GraphInv

LEMMA PublishTurns ==
    ASSUME GraphAssumption, GraphInv, NEW x \in Builders,
           Pack(x) \/ Rename(x) \/ PublishFails(x)
    PROVE  GraphInv'
<1> DEFINE n == builder[x].n
<1>1. /\ builder[x].pc \in {"pack", "rename", "point"}
      /\ UNCHANGED <<building, home, current, scratch, lock, builds, torn, doubled>>
  BY DEF Pack, Rename, PublishFails
<1>2. n \in Builds /\ builder[x] \in BuildRecs /\ gen[n] \in GraphRecs
      /\ gen \in [Builds -> GraphRecs] /\ builder \in [Builders -> BuildRecs]
  BY <1>1 DEF GraphInv, GraphTyped, HolderInv, Holding, Making
<1>3. ASSUME NEW pc \in {"rename", "point", "clean"}
      PROVE  LET v == [builder[x] EXCEPT !.pc = pc] IN
             /\ v \in BuildRecs /\ v.pc = pc /\ v.n = n /\ v.procs = builder[x].procs
             /\ Enters(x, pc) => builder' = [builder EXCEPT ![x] = v]
  BY <1>2 DEF BuildRecs, Steps, Enters
<1>4. CASE Pack(x)
  <2> DEFINE d == [dir |-> "staging", commit |-> builder[x].commit, complete |-> builder[x].complete]
             v == [builder[x] EXCEPT !.pc = "rename"]
  <2>1. d \in GraphRecs /\ d.dir = "staging"
    BY <1>2 DEF GraphRecs, BuildRecs, Dirs
  <2>2. gen' = [gen EXCEPT ![n] = d]
    BY <1>4 DEF Pack
  <2>3. v \in BuildRecs /\ v.pc = "rename" /\ v.n = n /\ v.procs = builder[x].procs
        /\ builder' = [builder EXCEPT ![x] = v]
    BY <1>3, <1>4 DEF Pack
  <2> HIDE DEF d, v
  <2> QED
    BY <1>1, <2>1, <2>2, <2>3, MakingStep
<1>5. CASE Rename(x)
  <2> DEFINE d == [gen[n] EXCEPT !.dir = "whole"]
             v == [builder[x] EXCEPT !.pc = "point"]
  <2>1. d \in GraphRecs /\ d.dir = "whole"
    BY <1>2 DEF GraphRecs, Dirs
  <2>2. gen' = [gen EXCEPT ![n] = d]
    BY <1>2, <1>5 DEF Rename
  <2>3. v \in BuildRecs /\ v.pc = "point" /\ v.n = n /\ v.procs = builder[x].procs
        /\ builder' = [builder EXCEPT ![x] = v]
    BY <1>3, <1>5 DEF Rename
  <2> HIDE DEF d, v
  <2> QED
    BY <1>1, <2>1, <2>2, <2>3, MakingStep
<1>6. CASE PublishFails(x)
  <2> DEFINE d == IF gen[n].dir = "staging" THEN NoGraph ELSE gen[n]
             v == [builder[x] EXCEPT !.pc = "clean"]
  <2>1. d \in GraphRecs
    BY <1>2 DEF GraphRecs, Dirs, NoGraph, GraphAssumption, Commits
  <2>2. gen' = [gen EXCEPT ![n] = d]
    BY <1>6 DEF PublishFails
  <2>3. v \in BuildRecs /\ v.pc = "clean" /\ v.n = n /\ v.procs = builder[x].procs
        /\ builder' = [builder EXCEPT ![x] = v]
    BY <1>3, <1>6 DEF PublishFails
  <2> HIDE DEF d, v
  <2> QED
    BY <1>1, <2>1, <2>2, <2>3, MakingStep
<1> QED
  BY <1>4, <1>5, <1>6

\* The pointer moves to a generation that is whole.
LEMMA PointStep ==
    ASSUME GraphAssumption, GraphInv, NEW x \in Builders, Point(x) PROVE GraphInv'
<1> DEFINE pc == IF builder[x].keep THEN "clean" ELSE "prune"
           v == [builder[x] EXCEPT !.pc = pc]
<1>1. /\ builder[x].pc = "point" /\ current' = builder[x].n /\ torn' = FALSE
      /\ doubled' = (doubled \/ (builder[x].first /\ UsableFor(builder[x].commit)))
      /\ UNCHANGED <<tip, home, gen, scratch, lock, read, builds, reads>>
  BY DEF Point, building
<1>2. /\ lock = x /\ builder[x].n \in Builds /\ builder[x].n <= builds
      /\ gen[builder[x].n].dir = "whole" /\ builder[x].procs = {}
  BY <1>1 DEF GraphInv, HolderInv, StageInv, PackedQuiet, Holding, Making
<1>3. v \in BuildRecs /\ v.pc \in {"clean", "prune"} /\ v.n = builder[x].n /\ v.procs = builder[x].procs
  BY DEF GraphInv, GraphTyped, BuildRecs, Steps
<1>4. builder' = [builder EXCEPT ![x] = v]
  BY DEF Point, Enters
<1> HIDE DEF v
<1>5. builder'[x] = v /\ \A z \in Builders \ {x} : builder'[z] = builder[z]
  BY <1>4 DEF GraphInv, GraphTyped
<1>6. \A z \in Builders \ {x} : builder[z].pc \notin Holding
  BY <1>2 DEF GraphInv, HolderInv
<1>7. doubled' \in BOOLEAN
  BY <1>1
<1>8. GraphTyped'
  BY <1>1, <1>2, <1>3, <1>4, <1>7 DEF GraphInv, GraphTyped
<1>9. HolderInv' /\ UnseenInv'
  BY <1>1, <1>2, <1>3, <1>5, <1>6 DEF GraphInv, HolderInv, UnseenInv, Making, Holding
<1>10. StageInv' /\ PackedQuiet' /\ PointerIsWhole'
  BY <1>1, <1>2, <1>3, <1>5, <1>6 DEF GraphInv, StageInv, PackedQuiet, PointerIsWhole, Making, Holding
<1>11. WatchInv' /\ SeenInv' /\ BlameIsDeserved' /\ AnswerIsBound'
  BY <1>1 DEF GraphInv, WatchInv, SeenInv, BlameIsDeserved, AnswerIsBound
<1> QED
  BY <1>8, <1>9, <1>10, <1>11 DEF GraphInv

\* A torn generation has lost its file, or a whole one its second.
LEMMA TornGraph ==
    ASSUME GraphAssumption, GraphInv, NEW n \in Builds, Tear(n)
    PROVE  /\ gen' \in [Builds -> GraphRecs]
           /\ \A m \in Builds \ {n} : gen'[m] = gen[m]
           /\ gen'[n].dir # "whole"
           /\ gen'[n].dir = "torn" =>
                gen[n].dir = "whole" /\ gen'[n].commit = gen[n].commit
                                     /\ gen'[n].complete = gen[n].complete
<1>1. gen[n] \in GraphRecs /\ gen \in [Builds -> GraphRecs]
  BY DEF GraphInv, GraphTyped
<1>2. gen'[n] = Torn(gen[n]) /\ \A m \in Builds \ {n} : gen'[m] = gen[m]
  BY <1>1 DEF Tear
<1>3. CASE gen[n].dir = "whole"
  <2>1. Torn(gen[n]) = [gen[n] EXCEPT !.dir = "torn"]
    BY <1>3 DEF Torn
  <2>2. /\ Torn(gen[n]) \in GraphRecs /\ Torn(gen[n]).dir = "torn"
        /\ Torn(gen[n]).commit = gen[n].commit /\ Torn(gen[n]).complete = gen[n].complete
    BY <1>1, <2>1 DEF GraphRecs, Dirs
  <2> QED
    BY <1>1, <1>2, <1>3, <2>2 DEF Tear
<1>4. CASE gen[n].dir # "whole"
  <2>1. Torn(gen[n]) = NoGraph
    BY <1>4 DEF Torn
  <2>2. NoGraph \in GraphRecs /\ NoGraph.dir = "none"
    BY DEF NoGraph, GraphRecs, Dirs, GraphAssumption, Commits
  <2> QED
    BY <1>1, <1>2, <2>1, <2>2 DEF Tear
<1> QED
  BY <1>3, <1>4

\* What a reader has seen of a generation survives its tearing.
LEMMA SeenTorn ==
    ASSUME GraphAssumption, GraphInv, NEW n \in Builds, Tear(n),
           \A y \in Readers : /\ read'[y].pc = read[y].pc /\ read'[y].g = read[y].g
                             /\ read'[y].verdict = read[y].verdict
                             /\ read'[y].asked = read[y].asked
    PROVE  SeenInv'
<1> SUFFICES ASSUME NEW y \in Readers, read[y].pc \notin {"idle", "pointer"}
             PROVE  /\ read[y].pc = "confirm" /\ read[y].verdict = "broken" =>
                          gen'[read[y].g].dir # "whole"
                    /\ read[y].pc = "open" /\ gen'[read[y].g].dir \in {"whole", "torn"} =>
                          gen'[read[y].g].commit = read[y].asked /\ gen'[read[y].g].complete
  BY DEF SeenInv, GraphInv
<1>1. read[y].g \in Builds
  BY DEF GraphInv, GraphTyped, SeenInv, ReadRecs
<1>2. CASE read[y].g = n
  BY <1>2, TornGraph DEF GraphInv, SeenInv
<1>3. CASE read[y].g # n
  <2>1. gen'[read[y].g] = gen[read[y].g]
    BY <1>1, <1>3, TornGraph
  <2> QED
    BY <2>1 DEF GraphInv, SeenInv
<1> QED
  BY <1>2, <1>3

LEMMA PruneOneStep ==
    ASSUME GraphAssumption, GraphInv, NEW x \in Builders, PruneOne(x) PROVE GraphInv'
<1>1. /\ builder[x].pc = "prune"
      /\ UNCHANGED <<tip, home, current, scratch, lock, builder, read, builds, reads, torn, doubled>>
  BY DEF PruneOne, building
<1>2. PICK n \in Builds : n # builder[x].n /\ Tear(n)
  BY DEF PruneOne, Others, Spares
<1>3. current = builder[x].n /\ lock = x
  BY <1>1 DEF GraphInv, StageInv, HolderInv, Holding
<1>4. /\ gen' \in [Builds -> GraphRecs]
      /\ \A m \in Builds \ {n} : gen'[m] = gen[m]
  BY <1>2, TornGraph
<1>5. GraphTyped'
  BY <1>1, <1>4 DEF GraphInv, GraphTyped
<1>6. StageInv'
  <2>1. \A z \in Builders : builder[z].pc \in {"rename", "point"} => FALSE
    BY <1>1, <1>3 DEF GraphInv, HolderInv, Holding, Making
  <2> QED
    BY <1>1, <2>1 DEF GraphInv, StageInv
<1>7. PointerIsWhole'
  BY <1>1, <1>2, <1>3, <1>4 DEF GraphInv, GraphTyped, PointerIsWhole
<1>8. SeenInv'
  BY <1>1, <1>2, SeenTorn
<1>9. HolderInv' /\ UnseenInv' /\ WatchInv' /\ PackedQuiet' /\ BlameIsDeserved' /\ AnswerIsBound'
  BY <1>1 DEF GraphInv, HolderInv, UnseenInv, WatchInv, PackedQuiet, BlameIsDeserved, AnswerIsBound
<1> QED
  BY <1>5, <1>6, <1>7, <1>8, <1>9 DEF GraphInv

\* A builder gives up, and with it what only it may give up.
LEMMA LetGo ==
    ASSUME GraphAssumption, GraphInv, NEW x \in Builders,
           builder' = [builder EXCEPT ![x] = IdleBuild],
           UNCHANGED <<tip, home, current, gen, read, builds, reads, torn, doubled>>,
           lock' \in {lock, Nil}, scratch' \subseteq scratch,
           lock' # lock \/ scratch' # scratch => lock = x
    PROVE  GraphInv'
<1>1. IdleBuild \in BuildRecs /\ IdleBuild.pc = "idle"
  BY DEF GraphAssumption, Commits, IdleBuild, BuildRecs, Steps
<1>2. builder'[x] = IdleBuild /\ \A z \in Builders \ {x} : builder'[z] = builder[z]
  BY DEF GraphInv, GraphTyped
<1>3. GraphTyped'
  BY <1>1 DEF GraphInv, GraphTyped
<1>4. HolderInv'
  <2> SUFFICES ASSUME NEW z \in Builders, builder'[z].pc \in Holding
               PROVE  /\ lock' = z /\ builder'[z].n \in scratch'
                      /\ builder'[z].n \in Builds /\ builder'[z].n <= builds'
    BY DEF HolderInv
  <2>1. z # x /\ builder'[z] = builder[z]
    BY <1>1, <1>2 DEF Holding, Making
  <2>2. lock = z /\ builder[z].n \in scratch /\ builder[z].n \in Builds /\ builder[z].n <= builds
    BY <2>1 DEF GraphInv, HolderInv
  <2> QED
    BY <2>1, <2>2
<1>5. UnseenInv' /\ StageInv' /\ PackedQuiet'
  BY <1>1, <1>2 DEF GraphInv, UnseenInv, StageInv, PackedQuiet, Making
<1>6. WatchInv' /\ SeenInv' /\ PointerIsWhole' /\ BlameIsDeserved' /\ AnswerIsBound'
  BY DEF GraphInv, WatchInv, SeenInv, PointerIsWhole, BlameIsDeserved, AnswerIsBound
<1> QED
  BY <1>3, <1>4, <1>5, <1>6 DEF GraphInv

LEMMA EndingTurns ==
    ASSUME GraphAssumption, GraphInv, NEW x \in Builders,
           LockTimeout(x) \/ PruneDone(x) \/ Clean(x) \/ BuildDies(x)
    PROVE  GraphInv'
<1>1. CASE LockTimeout(x)
  BY <1>1, IdleTurn DEF LockTimeout
<1>2. CASE PruneDone(x)
  <2> DEFINE v == [builder[x] EXCEPT !.pc = "clean"]
  <2>1. v \in BuildRecs /\ v.pc = "clean" /\ v.n = builder[x].n
    BY DEF GraphInv, GraphTyped, BuildRecs, Steps
  <2>2. builder' = [builder EXCEPT ![x] = v] /\ builder[x].pc = "prune"
    BY <1>2 DEF PruneDone, Enters
  <2>3. UNCHANGED <<building, files, lock, builds, torn, doubled>>
    BY <1>2 DEF PruneDone
  <2> HIDE DEF v
  <2> QED
    BY <2>1, <2>2, <2>3, BuilderTurn DEF Holding, Making
<1>3. CASE Clean(x)
  <2>1. lock = x
    BY <1>3 DEF Clean, GraphInv, HolderInv, Holding
  <2> QED
    BY <1>3, <2>1, LetGo DEF Clean, building
<1>4. CASE BuildDies(x)
  BY <1>4, LetGo DEF BuildDies, building, files
<1> QED
  BY <1>1, <1>2, <1>3, <1>4

LEMMA BuildStep ==
    ASSUME GraphAssumption, GraphInv, NEW x \in Builders, Build(x) PROVE GraphInv'
<1>1. CASE Command(x) \/ Check(x) \/ Resolve(x) \/ TakeLock(x)
  BY <1>1, CommandStep, CheckStep, ResolveStep, TakeLockStep
<1>2. CASE Exit(x) \/ Wait(x) \/ Stop(x)
  BY <1>2, ProviderTurns
<1>3. CASE Pack(x) \/ Rename(x) \/ PublishFails(x)
  BY <1>3, PublishTurns
<1>4. CASE Point(x) \/ PruneOne(x)
  BY <1>4, PointStep, PruneOneStep
<1>5. CASE LockTimeout(x) \/ PruneDone(x) \/ Clean(x) \/ BuildDies(x)
  BY <1>5, EndingTurns
<1> QED
  BY <1>1, <1>2, <1>3, <1>4, <1>5 DEF Build

(* Removal.                                                                *)

\* Nobody builds while the lock is free or the remover's.
LEMMA NobodyBuilds ==
    ASSUME GraphAssumption, GraphInv, lock \in {Nil, Remover}
    PROVE  \A x \in Builders : builder[x].pc \notin Holding
  BY DEF GraphAssumption, GraphInv, HolderInv

LEMMA LockTurns ==
    ASSUME GraphAssumption, GraphInv, Remove \/ RemoveDone \/ RemoveFails PROVE GraphInv'
<1>1. \A x \in Builders : builder[x].pc \notin Holding
  BY NobodyBuilds DEF Remove, RemoveDone, RemoveFails, Free
<1>2. /\ lock' \in {Nil, Remover} /\ home' \in BOOLEAN /\ torn' \in {torn, FALSE}
      /\ torn' # torn => current = Nil
      /\ UNCHANGED <<tip, current, gen, scratch, builder, read, builds, reads, doubled>>
  BY DEF Remove, RemoveDone, RemoveFails, removing, files, GraphInv, GraphTyped
<1>3. GraphTyped'
  BY <1>2 DEF GraphInv, GraphTyped
<1>4. HolderInv' /\ UnseenInv' /\ StageInv'
  BY <1>1, <1>2 DEF GraphInv, HolderInv, UnseenInv, StageInv, Holding, Making
<1>5. SeenInv' /\ PackedQuiet' /\ BlameIsDeserved' /\ AnswerIsBound'
  BY <1>2 DEF GraphInv, SeenInv, PackedQuiet, BlameIsDeserved, AnswerIsBound
<1>6. WatchInv' /\ PointerIsWhole'
  <2>1. CASE torn' = torn
    BY <1>2, <2>1 DEF GraphInv, WatchInv, PointerIsWhole
  <2>2. CASE torn' = FALSE /\ current = Nil
    BY <1>2, <2>2 DEF WatchInv, PointerIsWhole
  <2> QED
    BY <1>2, <2>1, <2>2
<1> QED
  BY <1>3, <1>4, <1>5, <1>6 DEF GraphInv

\* Whoever reads while a removal is at work knows.
LEMMA CutReads ==
    ASSUME GraphAssumption, GraphInv, read' = Cuts
    PROVE  /\ read' \in [Readers -> ReadRecs]
           /\ \A y \in Readers :
                /\ read'[y].pc = read[y].pc /\ read'[y].g = read[y].g /\ read'[y].k = read[y].k
                /\ read'[y].verdict = read[y].verdict /\ read'[y].asked = read[y].asked
                /\ read'[y].from = read[y].from
                /\ read'[y].cut = (read[y].cut \/ read[y].pc # "idle")
<1>1. \A y \in Readers : read[y] \in ReadRecs
  BY DEF GraphInv, GraphTyped
<1>2. SUFFICES ASSUME NEW y \in Readers
               PROVE  /\ Cuts[y] \in ReadRecs
                      /\ Cuts[y].pc = read[y].pc /\ Cuts[y].g = read[y].g /\ Cuts[y].k = read[y].k
                      /\ Cuts[y].verdict = read[y].verdict /\ Cuts[y].asked = read[y].asked
                      /\ Cuts[y].from = read[y].from
                      /\ Cuts[y].cut = (read[y].cut \/ read[y].pc # "idle")
  BY DEF Cuts
<1>3. CASE read[y].pc = "idle"
  <2>1. Cuts[y] = read[y] /\ read[y].cut \in BOOLEAN
    BY <1>1, <1>3 DEF Cuts, ReadRecs
  <2> QED
    BY <1>1, <1>3, <2>1
<1>4. CASE read[y].pc # "idle"
  <2>1. Cuts[y] = [read[y] EXCEPT !.cut = TRUE]
    BY <1>4 DEF Cuts
  <2> QED
    BY <1>1, <1>4, <2>1 DEF ReadRecs
<1> QED
  BY <1>3, <1>4

LEMMA RemoveOneStep ==
    ASSUME GraphAssumption, GraphInv, RemoveOne PROVE GraphInv'
<1>1. /\ lock = Remover /\ torn' = TRUE /\ read' = Cuts
      /\ UNCHANGED <<tip, home, lock, builder, builds, reads, doubled>>
  BY DEF RemoveOne, removing
<1>2. \A x \in Builders : builder[x].pc \notin Holding
  BY <1>1, NobodyBuilds
<1>3. /\ read' \in [Readers -> ReadRecs]
      /\ \A y \in Readers :
           /\ read'[y].pc = read[y].pc /\ read'[y].g = read[y].g /\ read'[y].k = read[y].k
           /\ read'[y].verdict = read[y].verdict /\ read'[y].asked = read[y].asked
           /\ read'[y].from = read[y].from
           /\ read'[y].cut = (read[y].cut \/ read[y].pc # "idle")
  BY <1>1, CutReads
<1>4. /\ gen' \in [Builds -> GraphRecs] /\ current' \in {current, Nil} /\ scratch' \subseteq scratch
      /\ SeenInv'
  <2>1. CASE \E n \in Builds : Tear(n) /\ UNCHANGED <<current, scratch>>
    BY <1>3, <2>1, TornGraph, SeenTorn
  <2>2. CASE UNCHANGED gen /\ current' \in {current, Nil} /\ scratch' \subseteq scratch
    BY <1>3, <2>2 DEF GraphInv, GraphTyped, SeenInv
  <2> QED
    BY <2>1, <2>2 DEF RemoveOne
<1>5. GraphTyped'
  BY <1>1, <1>3, <1>4 DEF GraphInv, GraphTyped
<1>6. HolderInv' /\ UnseenInv' /\ StageInv' /\ PackedQuiet'
  BY <1>1, <1>2, <1>3, <1>4 DEF GraphInv, HolderInv, UnseenInv, StageInv, PackedQuiet, Holding, Making
<1>7. WatchInv' /\ PointerIsWhole'
  BY <1>1, <1>3 DEF WatchInv, PointerIsWhole
<1>8. AnswerIsBound'
  BY <1>3 DEF GraphInv, AnswerIsBound
<1>9. BlameIsDeserved'
  <2> SUFFICES ASSUME NEW y \in Readers, read'[y].pc = "idle", read'[y].verdict = "broken",
                      read'[y].k < Attempts
               PROVE  read'[y].cut
    BY DEF BlameIsDeserved
  <2>1. read[y].cut
    BY <1>3 DEF GraphInv, BlameIsDeserved
  <2> QED
    BY <1>3, <2>1
<1> QED
  BY <1>4, <1>5, <1>6, <1>7, <1>8, <1>9 DEF GraphInv

(* Readers.                                                                *)

\* A reader that knows of the removal it read through, believes no worse
\* than what it found and answers from what it asked about, keeps its word.
LEMMA ReaderTurn ==
    ASSUME GraphAssumption, GraphInv, NEW x \in Readers, NEW v \in ReadRecs,
           read' = [read EXCEPT ![x] = v], UNCHANGED reading, reads' \in 0..MaxReads,
           v.g \in {read[x].g, current, Nil},
           torn /\ v.pc # "idle" => v.cut,
           v.pc \notin {"idle", "pointer"} => v.g # Nil,
           v.pc = "confirm" /\ v.verdict = "broken" => gen[v.g].dir # "whole",
           v.pc = "open" /\ gen[v.g].dir \in {"whole", "torn"} =>
               gen[v.g].commit = v.asked /\ gen[v.g].complete,
           v.pc = "idle" /\ v.verdict = "broken" /\ v.k < Attempts => v.cut,
           v.verdict = "answer" => v.from.commit = v.asked /\ v.from.complete
    PROVE  GraphInv'
<1>1. UNCHANGED <<tip, home, current, gen, scratch, lock, builder, builds, torn, doubled>>
  BY DEF reading, files
<1>2. read'[x] = v /\ \A y \in Readers \ {x} : read'[y] = read[y]
  BY DEF GraphInv, GraphTyped
<1>3. GraphTyped'
  BY <1>1 DEF GraphInv, GraphTyped
<1>4. HolderInv' /\ StageInv' /\ PackedQuiet' /\ PointerIsWhole'
  BY <1>1 DEF GraphInv, HolderInv, StageInv, PackedQuiet, PointerIsWhole
<1>5. UnseenInv'
  <2>1. \A y \in Readers : read'[y].g # Nil => read'[y].g <= builds
    BY <1>2 DEF GraphInv, UnseenInv
  <2>2. \A z \in Builders : builder[z].pc \in Making =>
          /\ builder[z].n # Nil
          /\ \A y \in Readers : read'[y].g # builder[z].n
    <3> SUFFICES ASSUME NEW z \in Builders, builder[z].pc \in Making
                 PROVE  /\ builder[z].n # Nil
                        /\ \A y \in Readers : read'[y].g # builder[z].n
      OBVIOUS
    <3>1. builder[z].n \in Builds
      BY DEF GraphInv, HolderInv, Holding
    <3>2. builder[z].n # Nil
      BY <3>1 DEF Builds, GraphAssumption
    <3>3. current # builder[z].n /\ \A y \in Readers : read[y].g # builder[z].n
      BY DEF GraphInv, UnseenInv
    <3> QED
      BY <1>2, <3>2, <3>3
  <2> QED
    BY <1>1, <2>1, <2>2 DEF GraphInv, UnseenInv
<1>6. WatchInv' /\ SeenInv'
  BY <1>1, <1>2 DEF GraphInv, WatchInv, SeenInv
<1>7. BlameIsDeserved' /\ AnswerIsBound'
  BY <1>1, <1>2 DEF GraphInv, BlameIsDeserved, AnswerIsBound
<1> QED
  BY <1>3, <1>4, <1>5, <1>6, <1>7 DEF GraphInv

\* What the invariant says of one reader.
LEMMA ReaderKnows ==
    ASSUME GraphAssumption, GraphInv, NEW x \in Readers
    PROVE  /\ read[x] \in ReadRecs /\ reads \in 0..MaxReads
           /\ torn /\ read[x].pc # "idle" => read[x].cut
           /\ read[x].pc \notin {"idle", "pointer"} => read[x].g \in Builds /\ read[x].g # Nil
           /\ read[x].pc = "confirm" /\ read[x].verdict = "broken" => gen[read[x].g].dir # "whole"
           /\ read[x].pc = "open" /\ gen[read[x].g].dir \in {"whole", "torn"} =>
                gen[read[x].g].commit = read[x].asked /\ gen[read[x].g].complete
           /\ read[x].verdict = "answer" => read[x].from.commit = read[x].asked /\ read[x].from.complete
  BY DEF GraphInv, GraphTyped, WatchInv, SeenInv, AnswerIsBound, ReadRecs

LEMMA AskStep ==
    ASSUME GraphAssumption, GraphInv, NEW x \in Readers, Ask(x) PROVE GraphInv'
<1> DEFINE v == [IdleRead EXCEPT !.pc = "pointer", !.cut = torn]
<1>1. /\ v \in ReadRecs /\ v.pc = "pointer" /\ v.g = Nil /\ v.verdict = "none" /\ v.cut = torn
  <2>1. IdleRead \in ReadRecs
    BY DEF GraphAssumption, IdleRead, ReadRecs, Reads, Attempts, Commits, Verdicts
  <2>2. torn \in BOOLEAN
    BY DEF GraphInv, GraphTyped
  <2>3. v \in ReadRecs
    BY <2>1, <2>2 DEF ReadRecs, Reads
  <2>4. v.pc = "pointer" /\ v.g = Nil /\ v.verdict = "none" /\ v.cut = torn
    BY DEF IdleRead
  <2> QED
    BY <2>3, <2>4
<1>2. read' = [read EXCEPT ![x] = v] /\ UNCHANGED reading
  BY DEF Ask
<1>3. reads' \in 0..MaxReads
  BY DEF Ask, GraphInv, GraphTyped, GraphAssumption
<1> HIDE DEF v
<1> QED
  BY <1>1, <1>2, <1>3, ReaderTurn

LEMMA ReadPointerStep ==
    ASSUME GraphAssumption, GraphInv, NEW x \in Readers, ReadPointer(x) PROVE GraphInv'
<1>1. read[x].pc = "pointer" /\ UNCHANGED reads /\ UNCHANGED reading
  BY DEF ReadPointer, Turns
<1>2. CASE ~home \/ current = Nil
  <2> DEFINE v == Answers(x, "absent")
  <2>1. v \in ReadRecs /\ v.pc = "idle" /\ v.verdict = "absent" /\ v.g = read[x].g
    BY ReaderKnows DEF Answers, ReadRecs, Reads, Verdicts
  <2>2. read' = [read EXCEPT ![x] = v]
    BY <1>2 DEF ReadPointer, Turns
  <2> HIDE DEF v
  <2> QED
    BY <1>1, <2>1, <2>2, ReaderKnows, ReaderTurn
<1>3. CASE home /\ current # Nil
  <2> DEFINE v == [read[x] EXCEPT !.pc = "manifest", !.g = current]
  <2>1. /\ v \in ReadRecs /\ v.pc = "manifest" /\ v.g = current /\ v.verdict = read[x].verdict
        /\ v.cut = read[x].cut /\ v.asked = read[x].asked /\ v.from = read[x].from
    BY ReaderKnows DEF ReadRecs, Reads, GraphInv, GraphTyped
  <2>2. read' = [read EXCEPT ![x] = v]
    BY <1>3 DEF ReadPointer, Turns
  <2> HIDE DEF v
  <2> QED
    BY <1>1, <1>3, <2>1, <2>2, ReaderKnows, ReaderTurn
<1> QED
  BY <1>2, <1>3 DEF GraphInv, GraphTyped

\* A reader goes on with its generation, or doubts it.
LEMMA Onwards ==
    ASSUME GraphAssumption, GraphInv, NEW x \in Readers,
           NEW pc \in {"artifact", "resolve"},
           read' = [read EXCEPT ![x] = [read[x] EXCEPT !.pc = pc]],
           read[x].pc \notin {"idle", "pointer"}, UNCHANGED reads, UNCHANGED reading
    PROVE  GraphInv'
<1> DEFINE v == [read[x] EXCEPT !.pc = pc]
<1>1. /\ v \in ReadRecs /\ v.pc = pc /\ v.g = read[x].g /\ v.verdict = read[x].verdict
      /\ v.cut = read[x].cut /\ v.asked = read[x].asked /\ v.from = read[x].from
  BY ReaderKnows DEF ReadRecs, Reads
<1>2. read' = [read EXCEPT ![x] = v]
  OBVIOUS
<1> HIDE DEF v
<1>3. torn => v.cut
  BY <1>1, ReaderKnows
<1>4. v.g = read[x].g /\ v.g # Nil /\ reads' \in 0..MaxReads
  BY <1>1, ReaderKnows
<1>5. v.verdict = "answer" => v.from.commit = v.asked /\ v.from.complete
  BY <1>1, ReaderKnows
<1>6. v \in ReadRecs /\ v.pc \notin {"idle", "pointer", "confirm", "open"}
  BY <1>1
<1> QED
  BY <1>2, <1>3, <1>4, <1>5, <1>6, ReaderTurn

LEMMA Doubting ==
    ASSUME GraphAssumption, GraphInv, NEW x \in Readers,
           NEW verdict \in {"broken", "stale", "partial"},
           read' = [read EXCEPT ![x] = Doubts(x, verdict)],
           verdict = "broken" => gen[read[x].g].dir # "whole",
           read[x].pc \notin {"idle", "pointer"}, UNCHANGED reads, UNCHANGED reading
    PROVE  GraphInv'
<1> DEFINE v == Doubts(x, verdict)
<1>1. v \in ReadRecs /\ v.pc = "confirm" /\ v.verdict = verdict /\ v.g = read[x].g /\ v.cut = read[x].cut
  BY ReaderKnows DEF Doubts, ReadRecs, Reads, Verdicts
<1>2. read' = [read EXCEPT ![x] = v]
  OBVIOUS
<1> HIDE DEF v
<1>3. torn => v.cut
  BY <1>1, ReaderKnows
<1>4. v.g = read[x].g /\ v.g # Nil /\ reads' \in 0..MaxReads
  BY <1>1, ReaderKnows
<1>5. /\ v.verdict = "broken" => gen[v.g].dir # "whole"
      /\ v.verdict # "answer" /\ v.pc \notin {"idle", "pointer", "open"}
  BY <1>1, <1>4
<1> QED
  BY <1>1, <1>2, <1>3, <1>4, <1>5, ReaderTurn

LEMMA FilesStep ==
    ASSUME GraphAssumption, GraphInv, NEW x \in Readers, ReadManifest(x) \/ ReadArtifact(x)
    PROVE  GraphInv'
<1>1. /\ read[x].pc \in {"manifest", "artifact"} /\ UNCHANGED reads /\ UNCHANGED reading
      /\ \E found \in Finds(x), pc \in {"artifact", "resolve"} :
           read' = [read EXCEPT ![x] = IF found THEN [read[x] EXCEPT !.pc = pc]
                                       ELSE Doubts(x, "broken")]
  BY DEF ReadManifest, ReadArtifact, Turns
<1>2. PICK found \in Finds(x), pc \in {"artifact", "resolve"} :
        read' = [read EXCEPT ![x] = IF found THEN [read[x] EXCEPT !.pc = pc]
                                    ELSE Doubts(x, "broken")]
  BY <1>1
<1>3. CASE found = TRUE
  BY <1>1, <1>2, <1>3, Onwards
<1>4. CASE found = FALSE
  <2>1. gen[read[x].g].dir # "whole"
    BY <1>2, <1>4 DEF Finds
  <2> QED
    BY <1>1, <1>2, <1>4, <2>1, Doubting
<1>5. found \in BOOLEAN
  BY <1>2 DEF Finds
<1> QED
  BY <1>3, <1>4, <1>5

\* The verdict about a revision is taken from the commit and the
\* completeness of the generation, which it keeps.
LEMMA ResolveRevisionStep ==
    ASSUME GraphAssumption, GraphInv, NEW x \in Readers, ResolveRevision(x) PROVE GraphInv'
<1>1. read[x].pc = "resolve" /\ UNCHANGED reads /\ UNCHANGED reading
  BY DEF ResolveRevision, Turns
<1>2. CASE gen[read[x].g].commit # tip
  BY <1>1, <1>2, Doubting DEF ResolveRevision, Turns
<1>3. CASE gen[read[x].g].commit = tip /\ ~gen[read[x].g].complete
  BY <1>1, <1>3, Doubting DEF ResolveRevision, Turns
<1>4. CASE gen[read[x].g].commit = tip /\ gen[read[x].g].complete
  <2> DEFINE v == [read[x] EXCEPT !.pc = "open", !.asked = tip, !.verdict = "current"]
  <2>1. /\ v \in ReadRecs /\ v.pc = "open" /\ v.g = read[x].g /\ v.verdict = "current"
        /\ v.cut = read[x].cut /\ v.asked = tip
    <3>1. read[x] \in ReadRecs /\ tip \in Commits /\ "open" \in Reads /\ "current" \in Verdicts
      BY ReaderKnows DEF Reads, Verdicts, GraphInv, GraphTyped
    <3> QED
      BY <3>1 DEF ReadRecs
  <2>2. read' = [read EXCEPT ![x] = v]
    BY <1>4 DEF ResolveRevision, Turns
  <2> HIDE DEF v
  <2> QED
    BY <1>1, <1>4, <2>1, <2>2, ReaderKnows, ReaderTurn
<1> QED
  BY <1>2, <1>3, <1>4

\* A verdict that stands is about the generation the pointer still names: if
\* that one is broken, a removal is at work.
LEMMA ConfirmStep ==
    ASSUME GraphAssumption, GraphInv, NEW x \in Readers, Confirm(x) PROVE GraphInv'
<1>1. read[x].pc = "confirm" /\ UNCHANGED reads /\ UNCHANGED reading
  BY DEF Confirm, Turns
<1>2. CASE read[x].k < Attempts /\ Moved(x)
  <2> DEFINE v == [read[x] EXCEPT !.pc = "pointer", !.k = @ + 1, !.verdict = "none"]
  <2>1. read[x].k \in 1..3 /\ read[x].k + 1 \in 1..3
    BY <1>2, ReaderKnows DEF ReadRecs, Attempts
  <2>2. v \in ReadRecs /\ v.pc = "pointer" /\ v.g = read[x].g /\ v.verdict = "none" /\ v.cut = read[x].cut
    BY <2>1, ReaderKnows DEF ReadRecs, Reads, Verdicts, Attempts
  <2>3. read' = [read EXCEPT ![x] = v]
    BY <1>2 DEF Confirm, Turns
  <2> HIDE DEF v
  <2> QED
    BY <1>1, <2>2, <2>3, ReaderKnows, ReaderTurn
<1>3. CASE ~(read[x].k < Attempts /\ Moved(x))
  <2> DEFINE v == Answers(x, read[x].verdict)
  <2>1. /\ v \in ReadRecs /\ v.pc = "idle" /\ v.g = read[x].g /\ v.verdict = read[x].verdict
        /\ v.cut = read[x].cut /\ v.k = read[x].k /\ v.asked = read[x].asked /\ v.from = read[x].from
    BY ReaderKnows DEF Answers, ReadRecs, Reads, Verdicts
  <2>2. read' = [read EXCEPT ![x] = v]
    BY <1>3 DEF Confirm, Turns
  <2>3. v.verdict = "broken" /\ v.k < Attempts => v.cut
    <3> SUFFICES ASSUME read[x].verdict = "broken", read[x].k < Attempts PROVE read[x].cut
      BY <2>1
    <3>1. current = read[x].g /\ current # Nil /\ gen[current].dir # "whole"
      BY <1>1, <1>3, ReaderKnows DEF Moved
    <3>2. torn
      BY <3>1 DEF GraphInv, PointerIsWhole
    <3> QED
      BY <1>1, <3>2, ReaderKnows
  <2> HIDE DEF v
  <2> QED
    BY <1>1, <2>1, <2>2, <2>3, ReaderKnows, ReaderTurn
<1> QED
  BY <1>2, <1>3

LEMMA OpenStep ==
    ASSUME GraphAssumption, GraphInv, NEW x \in Readers, Open(x) PROVE GraphInv'
<1>1. read[x].pc = "open" /\ UNCHANGED reads /\ UNCHANGED reading
  BY DEF Open, Turns
<1>2. PICK found \in Finds(x) :
        read' = [read EXCEPT ![x] = IF found THEN [Answers(x, "answer") EXCEPT !.from = gen[Opened(x)]]
                                    ELSE Answers(x, "unreadable")]
  BY DEF Open, Turns
<1>3. CASE found = TRUE
  <2> DEFINE v == [Answers(x, "answer") EXCEPT !.from = gen[Opened(x)]]
  <2>1. gen[read[x].g] \in GraphRecs
    BY <1>1, ReaderKnows DEF GraphInv, GraphTyped
  <2>2. /\ v \in ReadRecs /\ v.pc = "idle" /\ v.g = read[x].g /\ v.verdict = "answer"
        /\ v.asked = read[x].asked /\ v.from = gen[read[x].g]
    BY <2>1, ReaderKnows DEF Answers, Opened, ReadRecs, Reads, Verdicts
  <2>3. gen[read[x].g].dir \in {"whole", "torn"}
    BY <1>2, <1>3 DEF Finds
  <2>4. read' = [read EXCEPT ![x] = v]
    BY <1>2, <1>3
  <2> HIDE DEF v
  <2> QED
    BY <1>1, <2>2, <2>3, <2>4, ReaderKnows, ReaderTurn
<1>4. CASE found = FALSE
  <2> DEFINE v == Answers(x, "unreadable")
  <2>1. v \in ReadRecs /\ v.pc = "idle" /\ v.g = read[x].g /\ v.verdict = "unreadable"
    BY ReaderKnows DEF Answers, ReadRecs, Reads, Verdicts
  <2>2. read' = [read EXCEPT ![x] = v]
    BY <1>2, <1>4
  <2> HIDE DEF v
  <2> QED
    BY <1>1, <2>1, <2>2, ReaderKnows, ReaderTurn
<1>5. found \in BOOLEAN
  BY <1>2 DEF Finds
<1> QED
  BY <1>3, <1>4, <1>5

(* Together.                                                               *)

LEMMA GraphInductive == GraphAssumption /\ GraphInv /\ [GraphNext]_graphVars => GraphInv'
<1> SUFFICES ASSUME GraphAssumption, GraphInv, [GraphNext]_graphVars PROVE GraphInv'
  OBVIOUS
<1>1. CASE Commit
  BY <1>1, CommitStep
<1>2. ASSUME NEW x \in Builders, Build(x) PROVE GraphInv'
  BY <1>2, BuildStep
<1>3. CASE Remove \/ RemoveOne \/ RemoveDone \/ RemoveFails
  BY <1>3, LockTurns, RemoveOneStep
<1>4. ASSUME NEW x \in Readers, Read(x) PROVE GraphInv'
  BY <1>4, AskStep, ReadPointerStep, FilesStep, ResolveRevisionStep, ConfirmStep, OpenStep DEF Read
<1>5. CASE UNCHANGED graphVars
  BY <1>5 DEF graphVars, files, GraphInv, GraphTyped, HolderInv, UnseenInv, StageInv, WatchInv, SeenInv,
     PointerIsWhole, PackedQuiet, BlameIsDeserved, AnswerIsBound
<1> QED
  BY <1>1, <1>2, <1>3, <1>4, <1>5 DEF GraphNext

(* The inductive invariant of the repository graph: the lock and the       *)
(* generation of whoever holds it, that what is being made was never       *)
(* pointed to nor read, how far it has come, and what each reader knows.   *)
THEOREM GraphInductiveInvariant == GraphAssumption => (GraphSpec => []GraphInv)
<1> SUFFICES ASSUME GraphAssumption PROVE GraphSpec => []GraphInv
  OBVIOUS
<1>1. GraphInit => GraphInv
  BY GraphStarts
<1>2. GraphInv /\ [GraphNext]_graphVars => GraphInv'
  BY GraphInductive
<1> QED
  BY <1>1, <1>2, PTL DEF GraphSpec

(* Every state of the graph's files, builds and reads has its type.        *)
THEOREM GraphTypeCorrect == GraphAssumption => (GraphSpec => []GraphTypeOK)
<1>1. GraphInv => GraphTypeOK
  <2> SUFFICES ASSUME GraphInv PROVE GraphTypeOK
    OBVIOUS
  <2>1. /\ gen \in [Builds -> [dir: Dirs, commit: Commits, complete: BOOLEAN]]
        /\ tip \in Commits /\ home \in BOOLEAN /\ current \in Builds \cup {Nil}
        /\ scratch \subseteq Builds /\ lock \in Builders \cup {Remover, Nil}
        /\ builds \in 0..MaxBuilds /\ reads \in 0..MaxReads
        /\ torn \in BOOLEAN /\ doubled \in BOOLEAN
    BY DEF GraphInv, GraphTyped, GraphRecs
  <2>2. \A x \in Builders :
          /\ builder[x].pc \in Steps /\ builder[x].n \in Builds \cup {Nil}
          /\ builder[x].procs \subseteq Procs
    BY DEF GraphInv, GraphTyped, BuildRecs
  <2>3. \A x \in Builders :
          builder[x].pc \in {"run", "stop", "pack", "rename", "point", "prune", "clean"}
            => lock = x /\ builder[x].n \in scratch
    BY DEF GraphInv, HolderInv, Holding, Making
  <2>4. \A x \in Readers : read[x].pc \in Reads /\ read[x].k \in 1..Attempts
                        /\ read[x].verdict \in Verdicts
    BY DEF GraphInv, GraphTyped, ReadRecs
  <2> QED
    BY <2>1, <2>2, <2>3, <2>4 DEF GraphTypeOK
<1> QED
  BY <1>1, GraphInductiveInvariant, PTL

(* However builds, removals and their deaths come between the reads of a   *)
(* query: the pointer names a complete generation unless a removal is at   *)
(* work, nothing of the provider runs while its state is published, a      *)
(* graph is called broken only through a removal, and an answer is from a  *)
(* complete graph of the revision asked about.                             *)
THEOREM WholeGraph == GraphAssumption => (GraphSpec => []GraphIsWhole)
<1>1. GraphInv => GraphIsWhole
  BY DEF GraphInv, GraphIsWhole
<1> QED
  BY <1>1, GraphInductiveInvariant, PTL

(***************************************************************************)
(* The private context of a work item.                                     *)
(***************************************************************************)

Contexts == {"unchecked", "ready", "failed"}
RecRecs ==
    [stage: Stages, packet: Handles \cup {None}, att: AttachmentStates, head: Heads,
     rev: Revs \cup {None}, context: Contexts]
Pcs == {"idle", "lock", "head", "input", "decide", "recheck", "mint", "reserve", "bind", "reserved",
        "again", "publish", "comment", "uncertain", "mark", "attached", "reread", "abandon",
        "retire", "unbind", "clear", "prepare", "reload", "fetch", "index", "retrieve", "record",
        "order", "load", "show"}
Kinds == {"attach", "retry", "prepare", "rebuild", "refresh", "deliver", "feedback"}
Thens == {"stop", "show", "decide", "again", "mint", "idle"}
CmdRecs ==
    [pc: Pcs, s: Sessions \cup {None}, kind: Kinds, mem: RecRecs, fresh: BOOLEAN, head: Heads,
     input: Revs \cup {None}, then: Thens, handle: Handles \cup {None}]
Checks == {"idle", "input", "deliver", "reread", "verify", "save"}

\* What a command is at, in the work item or at the connection.
AtWork(k) ==
    \/ k.pc \in {"decide", "recheck", "mint", "reserve", "bind", "reserved", "again", "publish",
                 "comment", "uncertain", "mark", "attached", "reread", "abandon", "retire",
                 "unbind", "clear"}
    \/ k.pc \in {"head", "input"} /\ k.then # "show"
AtConnection == {"bind", "unbind", "index", "retrieve"}
Shows(k) == k.pc = "show" \/ (k.pc \in {"head", "input"} /\ k.then = "show")
Declares(k) ==
    \/ k.pc \in {"again", "publish", "comment", "uncertain", "mark", "attached"}
    \/ k.pc \in {"head", "input"} /\ k.then = "again"

\* What a command's own state says of where it is.
PlaceOk(k) ==
    /\ ValidRecord(k.mem)
    /\ k.pc # "idle" => k.s \in Sessions
    /\ k.pc = "idle" => ~k.fresh
    /\ k.pc \in {"head", "input"} => k.then \in {"show", "decide", "again"}
    /\ k.pc \in {"unbind", "clear"} => k.then \in {"mint", "idle"}
    /\ AtWork(k) \/ k.pc \in {"lock", "load", "reload", "order"} => k.mem.packet \in Handles
    /\ Shows(k) \/ k.pc = "recheck" => k.mem.att = "published"
    /\ k.pc \in {"reserve", "bind", "reserved"} => k.mem.att \in Intents
    /\ Declares(k) => k.mem.att \in {"pending", "uncertain"}
    /\ k.pc \in {"reread", "abandon", "retire", "unbind", "clear"} => k.mem.rev \in Revs
    /\ k.pc \in {"reload", "fetch", "index", "retrieve", "record", "order"} =>
         k.mem.stage = "preparing" /\ k.mem.att = "none"
    /\ k.pc \in {"retrieve", "record"} => k.handle \in Handles

\* What it has read is still so.
FreshOk(k) == k.fresh => k.mem = rec[k.s]
SeesOk(k) ==
    /\ k.input \in posted \cup {None}
    /\ k.pc \in {"mark", "attached"} => k.mem.rev \in posted
    /\ k.pc \in {"again", "publish", "comment"} => k.input = last
    /\ k.pc \in {"publish", "comment"} => k.input # k.mem.rev
HoldsOk(c, k) ==
    /\ AtWork(k) => work = c
    /\ k.pc \in AtConnection => conn = c
Emptied == \A r \in Listed : binding[r] = None
KeepsOk(k) ==
    /\ k.pc = "bind" => entry # None /\ k.mem.rev \in entry.listed /\ entry.handle = k.mem.packet
    /\ k.pc = "index" => Emptied
    /\ k.pc = "retrieve" => entry # None
CommandOk(c, k) == PlaceOk(k) /\ FreshOk(k) /\ SeesOk(k) /\ HoldsOk(c, k) /\ KeepsOk(k)

SharedTyped ==
    /\ head \in Heads /\ posted \subseteq Revs /\ last \in posted \cup {None}
    /\ lease \in Sessions /\ auth \in ConnectionStates
    /\ entry \in Entries \cup {None} /\ WellListed(entry)
    /\ entry # None => IsFiniteSet(entry.listed)
    /\ binding \in [Revs -> Bindings \cup {None}]
    /\ work \in Commands \cup {None} /\ conn \in Commands \cup {Owner, None}
    /\ audit \in [pc: Checks, head: Heads, rev: Revs \cup {None}]
    /\ owner \in {"idle", "purge", "forget"}
    /\ minted \in [Revs -> Heads] /\ accepted \subseteq Revs /\ cut \subseteq Revs
    /\ calm \in BOOLEAN
OwnTyped == cmd \in [Commands -> CmdRecs] /\ rec \in [Sessions -> RecRecs]

RecordOk(r) ==
    /\ ValidRecord(r)
    /\ r.att = "published" => r.rev \in posted
    /\ r.stage = "reviewed" => r.rev \in accepted
RecordsOk == \A s \in Sessions : RecordOk(rec[s])
BindingsOk ==
    \A r \in Revs : binding[r] # None =>
        /\ binding[r].published => r \in posted
        /\ binding[r].feedback => r \in accepted
OwnerOk ==
    /\ owner # "idle" => conn = Owner
    /\ owner = "forget" => Emptied
AuditOk == audit.pc \notin {"idle", "input"} => audit.rev \in Revs

CtxInv ==
    /\ SharedTyped /\ OwnTyped /\ RecordsOk /\ BindingsOk /\ OwnerOk /\ AuditOk /\ BindingIsFound
    /\ \A c \in Commands : CommandOk(c, cmd[c])

\* What a step leaves to the commands that do not take it.
EntryStays ==
    \/ entry' = entry
    \/ conn = None /\ entry # None /\ entry' = [entry EXCEPT !.current = FALSE]
Apart(c) ==
    /\ \A d \in Commands \ {c} :
         /\ cmd'[d] \in {cmd[d], [cmd[d] EXCEPT !.fresh = FALSE]}
         /\ cmd'[d].fresh /\ cmd[d].s \in Sessions => rec'[cmd[d].s] = rec[cmd[d].s]
         /\ work = d => work' = d
         /\ conn = d => conn' = d /\ UNCHANGED <<entry, binding>>
    /\ posted \subseteq posted' /\ (last' # last => work = c)
Near(c) ==
    /\ UNCHANGED <<remote, lease, binding, audit, owner, accepted, calm>>
    /\ conn' = conn \/ (conn = c /\ conn' = None)
    /\ EntryStays /\ auth' \in ConnectionStates
    /\ minted' \in [Revs -> Heads] /\ cut' \subseteq cut /\ \A r \in cut \ cut' : binding[r] = None
Around == UNCHANGED conn /\ Near(None)

LEMMA Kept1 ==
    ASSUME ContextAssumption, CtxInv
    PROVE  /\ SharedTyped /\ OwnTyped /\ RecordsOk /\ BindingsOk /\ OwnerOk /\ AuditOk
           /\ BindingIsFound
           /\ \A c \in Commands : /\ CommandOk(c, cmd[c]) /\ PlaceOk(cmd[c]) /\ FreshOk(cmd[c])
                                  /\ SeesOk(cmd[c]) /\ HoldsOk(c, cmd[c]) /\ KeepsOk(cmd[c])
                                  /\ cmd[c] \in CmdRecs
  BY DEF CtxInv, CommandOk, OwnTyped

LEMMA IdleIsOk ==
    ASSUME ContextAssumption, NEW c
    PROVE  Idle \in CmdRecs /\ Idle.pc = "idle" /\ CommandOk(c, Idle) /\ CommandOk(c, Idle)'
<1>1. NewRecord \in RecRecs /\ ValidRecord(NewRecord)
  BY DEF ContextAssumption, NewRecord, RecRecs, Stages, AttachmentStates, Heads, Contexts, ValidRecord,
     Intents
<1>2. /\ Idle.pc = "idle" /\ Idle.s = None /\ Idle.fresh = FALSE /\ Idle.mem = NewRecord
      /\ Idle.input = None /\ Idle \in CmdRecs
  BY <1>1 DEF ContextAssumption, Idle, CmdRecs, Pcs, Kinds, Thens, Heads
<1>3. PlaceOk(Idle)
  BY <1>1, <1>2 DEF PlaceOk, AtWork, Shows, Declares
<1>4. /\ FreshOk(Idle) /\ SeesOk(Idle) /\ HoldsOk(c, Idle) /\ KeepsOk(Idle)
      /\ FreshOk(Idle)' /\ SeesOk(Idle)' /\ HoldsOk(c, Idle)' /\ KeepsOk(Idle)'
  BY <1>2 DEF FreshOk, SeesOk, HoldsOk, KeepsOk, AtWork, AtConnection
<1> QED
  BY <1>2, <1>3, <1>4 DEF CommandOk

\* A command that another step only made stale is where it was.
LEMMA OthersKeep ==
    ASSUME ContextAssumption, CtxInv, NEW c, Apart(c), NEW d \in Commands \ {c}
    PROVE  CommandOk(d, cmd[d])'
<1> DEFINE k == cmd[d]
<1>1. /\ k \in CmdRecs /\ PlaceOk(k) /\ FreshOk(k) /\ SeesOk(k) /\ HoldsOk(d, k) /\ KeepsOk(k)
  BY Kept1
<1>2. /\ k'.pc = k.pc /\ k'.s = k.s /\ k'.kind = k.kind /\ k'.mem = k.mem /\ k'.head = k.head
      /\ k'.input = k.input /\ k'.then = k.then /\ k'.handle = k.handle
      /\ k' = k \/ ~k'.fresh
  BY <1>1 DEF Apart, CmdRecs
<1>3. /\ k'.fresh /\ k.s \in Sessions => rec'[k.s] = rec[k.s]
      /\ work = d => work' = d
      /\ conn = d => conn' = d /\ UNCHANGED <<entry, binding>>
      /\ posted \subseteq posted' /\ (last' # last => work = c)
  BY DEF Apart
<1>4. AtWork(k)' = AtWork(k) /\ Shows(k)' = Shows(k) /\ Declares(k)' = Declares(k)
  BY <1>2 DEF AtWork, Shows, Declares
<1> HIDE DEF k
<1>5. PlaceOk(k)'
  <2>1. CASE k' = k
    BY <1>1, <2>1
  <2>2. CASE ~k'.fresh
    BY <1>1, <1>2, <1>4, <2>2 DEF PlaceOk
  <2> QED
    BY <1>2, <2>1, <2>2
<1>6. FreshOk(k)'
  BY <1>1, <1>2, <1>3 DEF FreshOk, PlaceOk
<1>7. SeesOk(k)'
  <2>1. k.pc \in {"again", "publish", "comment"} => work = d
    BY <1>1 DEF HoldsOk, AtWork
  <2> QED
    BY <1>1, <1>2, <1>3, <2>1 DEF SeesOk
<1>8. HoldsOk(d, k)'
  BY <1>1, <1>2, <1>3, <1>4 DEF HoldsOk
<1>9. KeepsOk(k)'
  <2>1. k.pc \in AtConnection => UNCHANGED <<entry, binding>>
    BY <1>1, <1>3 DEF HoldsOk
  <2> QED
    BY <1>1, <1>2, <2>1 DEF KeepsOk, AtConnection, Emptied, Listed
<1> QED
  BY <1>5, <1>6, <1>7, <1>8, <1>9 DEF CommandOk, k

LEMMA EntryKept ==
    ASSUME ContextAssumption, SharedTyped, EntryStays
    PROVE  /\ entry' \in Entries \cup {None} /\ (entry # None) = (entry' # None)
           /\ entry # None => entry'.handle = entry.handle /\ entry'.listed = entry.listed
           /\ WellListed(entry)' /\ (entry # None => IsFiniteSet(entry.listed))'
           /\ Listed' = Listed
<1>1. /\ (entry # None) = (entry' # None)
      /\ entry # None => entry'.handle = entry.handle /\ entry'.listed = entry.listed
      /\ entry' \in Entries \cup {None}
  <2>1. CASE entry' = entry
    BY <2>1 DEF SharedTyped
  <2>2. CASE conn = None /\ entry # None /\ entry' = [entry EXCEPT !.current = FALSE]
    <3>1. entry \in Entries
      BY <2>2 DEF SharedTyped
    <3>2. entry' \in Entries /\ entry'.handle = entry.handle /\ entry'.listed = entry.listed
      BY <2>2, <3>1 DEF Entries
    <3> QED
      BY <2>2, <3>2 DEF ContextAssumption
  <2> QED
    BY <2>1, <2>2 DEF EntryStays
<1>2. WellListed(entry)' /\ (entry # None => IsFiniteSet(entry.listed))'
  BY <1>1 DEF SharedTyped, WellListed
<1>3. Listed' = Listed
  BY <1>1 DEF Listed
<1> QED
  BY <1>1, <1>2, <1>3

\* What is common to the steps that change no private file.
LEMMA AroundKeeps ==
    ASSUME ContextAssumption, CtxInv, NEW c \in Commands, Near(c), work' \in Commands \cup {None}
    PROVE  /\ SharedTyped' /\ BindingsOk' /\ OwnerOk' /\ AuditOk'
           /\ (entry # None) = (entry' # None)
           /\ entry # None => entry'.handle = entry.handle /\ entry'.listed = entry.listed
           /\ Listed' = Listed
<1>1. /\ UNCHANGED <<head, last, posted, lease, binding, audit, owner, accepted, calm>>
      /\ conn' = conn \/ (conn = c /\ conn' = None)
      /\ EntryStays /\ auth' \in ConnectionStates /\ cut' \subseteq cut
      /\ minted' \in [Revs -> Heads]
  BY DEF Near, remote
<1>2. SharedTyped
  BY Kept1
<1>3. SharedTyped'
  BY <1>1, <1>2, EntryKept DEF SharedTyped
<1>4. BindingsOk' /\ AuditOk'
  BY <1>1, Kept1 DEF BindingsOk, AuditOk
<1>5. OwnerOk'
  BY <1>1, <1>2, EntryKept, Kept1 DEF OwnerOk, Emptied, ContextAssumption
<1> QED
  BY <1>1, <1>2, <1>3, <1>4, <1>5, EntryKept

LEMMA CommandTurn ==
    ASSUME ContextAssumption, CtxInv, NEW c \in Commands, NEW k \in CmdRecs, cmd'[c] = k,
           OwnTyped', Apart(c), Near(c), work' \in Commands \cup {None}, RecordsOk',
           PlaceOk(k), SeesOk(k), KeepsOk(k), k.pc \in AtConnection => conn' = c,
           AtWork(k) => work' = c, k.fresh => k.mem = rec'[k.s], cmd[c].pc # "unbind"
    PROVE  CtxInv'
<1>1. /\ SharedTyped' /\ BindingsOk' /\ OwnerOk' /\ AuditOk'
      /\ (entry # None) = (entry' # None)
      /\ entry # None => entry'.handle = entry.handle /\ entry'.listed = entry.listed
      /\ Listed' = Listed
  BY AroundKeeps
<1>2. UNCHANGED <<posted, last, binding>> /\ \A r \in cut \ cut' : binding[r] = None
  BY DEF Near, remote
<1>3. BindingIsFound'
  <2> SUFFICES ASSUME NEW r \in Revs, binding[r] # None
               PROVE  \/ entry' # None /\ r \in entry'.listed /\ entry'.handle = binding[r].handle
                      \/ Removing(r)' \/ r \in cut'
    BY <1>2 DEF BindingIsFound
  <2>1. CASE Removing(r)
    <3>1. PICK d \in Commands : cmd[d].pc = "unbind" /\ cmd[d].mem.rev = r
      BY <2>1 DEF Removing
    <3>2. d # c /\ cmd'[d].pc = cmd[d].pc /\ cmd'[d].mem = cmd[d].mem
      BY <3>1, Kept1 DEF Apart, CmdRecs
    <3> QED
      BY <3>1, <3>2 DEF Removing
  <2>2. CASE ~Removing(r)
    BY <1>1, <1>2, <2>2, Kept1 DEF BindingIsFound
  <2> QED
    BY <2>1, <2>2
<1>4. CommandOk(c, cmd[c])'
  <2>1. PlaceOk(cmd[c])'
    BY DEF PlaceOk, AtWork, Shows, Declares
  <2>2. FreshOk(cmd[c])'
    BY DEF FreshOk
  <2>3. SeesOk(cmd[c])' /\ HoldsOk(c, cmd[c])'
    BY <1>2 DEF SeesOk, HoldsOk, AtWork
  <2>4. KeepsOk(cmd[c])'
    BY <1>1, <1>2 DEF KeepsOk, Emptied
  <2> QED
    BY <2>1, <2>2, <2>3, <2>4 DEF CommandOk
<1>5. \A d \in Commands : CommandOk(d, cmd[d])'
  BY <1>4, OthersKeep
<1> QED
  BY <1>1, <1>3, <1>5 DEF CtxInv

\* The steps that change no private file are the command's own affair.
LEMMA AroundApart ==
    ASSUME ContextAssumption, CtxInv, NEW c \in Commands, Near(c),
           \A d \in Commands \ {c} :
             /\ cmd'[d] \in {cmd[d], [cmd[d] EXCEPT !.fresh = FALSE]}
             /\ cmd'[d].fresh /\ cmd[d].s \in Sessions => rec'[cmd[d].s] = rec[cmd[d].s],
           \A d \in Commands \ {c} : work = d => work' = d
    PROVE  Apart(c)
<1>1. /\ UNCHANGED <<last, posted, binding>> /\ EntryStays
      /\ conn' = conn \/ (conn = c /\ conn' = None)
  BY DEF Near, remote
<1>2. \A d \in Commands : d # None
  BY DEF ContextAssumption
<1>3. \A d \in Commands \ {c} : conn = d => conn' = d /\ UNCHANGED <<entry, binding>>
  BY <1>1, <1>2 DEF EntryStays
<1> QED
  BY <1>1, <1>3 DEF Apart

\* A command that only goes on.
LEMMA OwnTurn ==
    ASSUME ContextAssumption, CtxInv, NEW c \in Commands, NEW k \in CmdRecs, Now(c, k),
           Around, UNCHANGED <<rec, work>>, cmd[c].pc # "unbind",
           PlaceOk(k), SeesOk(k), KeepsOk(k), HoldsOk(c, k), FreshOk(k)
    PROVE  CtxInv'
<1>1. /\ cmd' = [cmd EXCEPT ![c] = k] /\ cmd'[c] = k /\ \A d \in Commands \ {c} : cmd'[d] = cmd[d]
      /\ OwnTyped' /\ work' \in Commands \cup {None}
  BY Kept1 DEF Now, OwnTyped, SharedTyped
<1>2. Near(c) /\ UNCHANGED conn /\ Apart(c)
  <2>1. Near(c) /\ UNCHANGED conn
    BY DEF Around, Near
  <2> QED
    BY <1>1, <2>1, AroundApart
<1>3. RecordsOk'
  BY <1>2, Kept1 DEF RecordsOk, RecordOk, Near, remote
<1>4. /\ k.pc \in AtConnection => conn' = c
      /\ AtWork(k) => work' = c
      /\ k.fresh => k.mem = rec'[k.s]
  BY <1>2 DEF HoldsOk, FreshOk
<1> QED
  BY <1>1, <1>2, <1>3, <1>4, CommandTurn

\* A command that ends.
LEMMA EndTurn ==
    ASSUME ContextAssumption, CtxInv, NEW c \in Commands, Ends(c), Around \/ Near(c), UNCHANGED rec,
           cmd[c].pc # "unbind"
    PROVE  CtxInv'
<1>1. Idle \in CmdRecs /\ Idle.pc = "idle" /\ CommandOk(c, Idle)
  BY IdleIsOk
<1>2. /\ cmd' = [cmd EXCEPT ![c] = Idle] /\ cmd'[c] = Idle
      /\ \A d \in Commands \ {c} : cmd'[d] = cmd[d]
      /\ OwnTyped' /\ work' \in Commands \cup {None} /\ work' = Leaves(c, work)
  BY <1>1, Kept1 DEF Ends, Now, Leaves, OwnTyped, SharedTyped
<1>3. \A d \in Commands \ {c} : work = d => work' = d
  BY <1>2 DEF Leaves
<1>4. Near(c) /\ Apart(c)
  <2>1. Near(c)
    BY DEF Around, Near
  <2> QED
    BY <1>2, <1>3, <2>1, AroundApart
<1>5. RecordsOk'
  BY <1>4, Kept1 DEF RecordsOk, RecordOk, Near, remote
<1>6. /\ PlaceOk(Idle) /\ SeesOk(Idle) /\ KeepsOk(Idle) /\ ~AtWork(Idle)
      /\ Idle.pc \notin AtConnection /\ ~Idle.fresh
  BY <1>1 DEF CommandOk, PlaceOk, AtWork, AtConnection
<1> QED
  BY <1>1, <1>2, <1>4, <1>5, <1>6, CommandTurn

\* A command that saves the record, if that is still what it read, and goes
\* on or ends.
LEMMA SaveTurn ==
    ASSUME ContextAssumption, CtxInv, NEW c \in Commands, NEW r \in RecRecs, NEW v \in CmdRecs,
           Save(c, r, v), Around \/ Near(c), cmd[c].pc \notin {"idle", "unbind"},
           cmd[c].fresh => RecordOk(r),
           \/ v = Idle
           \/ /\ v.pc # "idle" /\ v.s = cmd[c].s /\ v.pc \notin AtConnection
              /\ cmd[c].fresh => LET k == [v EXCEPT !.mem = r, !.fresh = TRUE] IN
                                 PlaceOk(k) /\ SeesOk(k) /\ KeepsOk(k) /\ HoldsOk(c, k)
    PROVE  CtxInv'
<1>1. CASE ~cmd[c].fresh
  BY <1>1, EndTurn DEF Save, Unchanged
<1> Near(c)
  BY DEF Around, Near
<1>2. CASE cmd[c].fresh
  <2>1. v = Idle <=> v.pc = "idle"
    BY IdleIsOk
  <2> DEFINE s == cmd[c].s
             k == IF v = Idle THEN Idle ELSE [v EXCEPT !.mem = r, !.fresh = TRUE]
  <2>2. /\ rec' = [rec EXCEPT ![s] = r]
        /\ cmd' = [d \in Commands |->
                     IF d = c THEN k
                     ELSE IF cmd[d].s = s THEN [cmd[d] EXCEPT !.fresh = FALSE] ELSE cmd[d]]
        /\ work' = IF v = Idle THEN Leaves(c, work) ELSE work
    BY <1>2, <2>1 DEF Save, Unchanged
  <2>3. s \in Sessions
    BY Kept1 DEF PlaceOk
  <2>4. k \in CmdRecs
    BY IdleIsOk DEF CmdRecs
  <2>5. /\ PlaceOk(k) /\ SeesOk(k) /\ KeepsOk(k)
        /\ k.pc \notin AtConnection
        /\ AtWork(k) => work' = c
        /\ k.fresh => k.mem = r /\ k.s = s
    <3>1. CASE v = Idle
      <4>1. k = Idle /\ CommandOk(c, Idle) /\ Idle.pc = "idle"
        BY <3>1, IdleIsOk
      <4> HIDE DEF k
      <4> QED
        BY <4>1 DEF CommandOk, PlaceOk, AtWork, AtConnection
    <3>2. CASE v # Idle
      <4>1. k = [v EXCEPT !.mem = r, !.fresh = TRUE] /\ work' = work
        BY <2>2, <3>2
      <4>2. k.mem = r /\ k.s = s /\ k.pc \notin AtConnection
        BY <3>2, <4>1 DEF CmdRecs
      <4>3. PlaceOk(k) /\ SeesOk(k) /\ KeepsOk(k) /\ HoldsOk(c, k)
        BY <1>2, <2>1, <3>2, <4>1
      <4> HIDE DEF k
      <4> QED
        BY <4>1, <4>2, <4>3 DEF HoldsOk
    <3> QED
      BY <3>1, <3>2
  <2> HIDE DEF k
  <2>6. cmd'[c] = k
    BY <2>2
  <2>7. \A d \in Commands \ {c} :
          /\ cmd'[d] = IF cmd[d].s = s THEN [cmd[d] EXCEPT !.fresh = FALSE] ELSE cmd[d]
          /\ cmd[d] \in CmdRecs /\ cmd'[d] \in CmdRecs
    <3> SUFFICES ASSUME NEW d \in Commands \ {c}
                 PROVE  /\ cmd'[d] = IF cmd[d].s = s THEN [cmd[d] EXCEPT !.fresh = FALSE] ELSE cmd[d]
                        /\ cmd[d] \in CmdRecs /\ cmd'[d] \in CmdRecs
      OBVIOUS
    <3>1. cmd'[d] = IF cmd[d].s = s THEN [cmd[d] EXCEPT !.fresh = FALSE] ELSE cmd[d]
      BY <2>2
    <3>2. cmd[d] \in CmdRecs
      BY Kept1
    <3>3. [cmd[d] EXCEPT !.fresh = FALSE] \in CmdRecs
      BY <3>2 DEF CmdRecs
    <3> QED
      BY <3>1, <3>2, <3>3
  <2>8. OwnTyped'
    <3>1. cmd' \in [Commands -> CmdRecs]
      BY <2>2, <2>4, <2>6, <2>7
    <3>2. rec' \in [Sessions -> RecRecs]
      BY <2>2, Kept1 DEF OwnTyped
    <3> QED
      BY <3>1, <3>2 DEF OwnTyped
  <2>9. rec'[s] = r /\ \A t \in Sessions \ {s} : rec'[t] = rec[t]
    BY <2>2, <2>3, Kept1 DEF OwnTyped
  <2>10. \A d \in Commands \ {c} :
           /\ cmd'[d] \in {cmd[d], [cmd[d] EXCEPT !.fresh = FALSE]}
           /\ cmd'[d].fresh /\ cmd[d].s \in Sessions => rec'[cmd[d].s] = rec[cmd[d].s]
    <3> SUFFICES ASSUME NEW d \in Commands \ {c}
                 PROVE  /\ cmd'[d] \in {cmd[d], [cmd[d] EXCEPT !.fresh = FALSE]}
                        /\ cmd'[d].fresh /\ cmd[d].s \in Sessions => rec'[cmd[d].s] = rec[cmd[d].s]
      OBVIOUS
    <3>1. CASE cmd[d].s = s
      <4>1. cmd'[d] = [cmd[d] EXCEPT !.fresh = FALSE] /\ cmd'[d].fresh = FALSE
        BY <2>7, <3>1 DEF CmdRecs
      <4> QED
        BY <4>1
    <3>2. CASE cmd[d].s # s
      BY <2>7, <2>9, <3>2
    <3> QED
      BY <3>1, <3>2
  <2>11. work' \in Commands \cup {None} /\ \A d \in Commands \ {c} : work = d => work' = d
    BY <2>2, Kept1 DEF SharedTyped, Leaves
  <2>12. Apart(c)
    BY <2>10, <2>11, AroundApart
  <2>13. RecordsOk'
    <3>1. UNCHANGED <<posted, accepted>>
      BY DEF Near, remote
    <3> QED
      BY <1>2, <2>9, <3>1, Kept1 DEF RecordsOk, RecordOk
  <2> QED
    BY <2>4, <2>5, <2>6, <2>8, <2>9, <2>11, <2>12, <2>13, CommandTurn
<1>3. cmd[c].fresh \in BOOLEAN
  BY Kept1 DEF CmdRecs
<1> QED
  BY <1>1, <1>2, <1>3

\* The steps that touch no file, or only ask for the authorization.
LEMMA StillAround ==
    ASSUME ContextAssumption, CtxInv,
           UNCHANGED <<remote, lease, local, conn, audit, owner, ghosts>>
    PROVE  Around
  BY Kept1 DEF Around, Near, SharedTyped, EntryStays, local, ghosts

LEMMA AskedAround ==
    ASSUME ContextAssumption, CtxInv, NEW h, conn = None,
           UNCHANGED <<remote, lease, binding, conn, audit, owner, ghosts>>,
           \/ Denied(h)
           \/ Granted(h) /\ UNCHANGED entry
           \/ Outage
           \/ UNCHANGED <<auth, entry>>
    PROVE  Around
<1>1. auth' \in ConnectionStates
  BY Kept1 DEF SharedTyped, Denied, Granted, Outage, ConnectionStates
<1>2. EntryStays
  BY DEF EntryStays, Denied, Outage, NoLongerCurrent
<1> QED
  BY <1>1, <1>2, Kept1 DEF Around, Near, SharedTyped, ghosts

\* A command that only moves on.
LEMMA GoTurn ==
    ASSUME ContextAssumption, CtxInv, NEW c \in Commands, NEW pc \in Pcs, Goes(c, pc), Around,
           UNCHANGED <<rec, work>>, cmd[c].pc \notin {"idle", "unbind"},
           LET k == [cmd[c] EXCEPT !.pc = pc] IN
             PlaceOk(k) /\ SeesOk(k) /\ KeepsOk(k) /\ HoldsOk(c, k)
    PROVE  CtxInv'
<1> DEFINE k == [cmd[c] EXCEPT !.pc = pc]
<1>1. k \in CmdRecs /\ k.mem = cmd[c].mem /\ k.s = cmd[c].s /\ k.fresh = cmd[c].fresh
  BY Kept1 DEF CmdRecs
<1>2. FreshOk(k)
  BY <1>1, Kept1 DEF FreshOk
<1>3. Now(c, k)
  BY DEF Goes
<1>4. PlaceOk(k) /\ SeesOk(k) /\ KeepsOk(k) /\ HoldsOk(c, k)
  OBVIOUS
<1> HIDE DEF k
<1> QED
  BY <1>1, <1>2, <1>3, <1>4, OwnTurn

LEMMA BeginStep ==
    ASSUME ContextAssumption, CtxInv, NEW c \in Commands, Begin(c) PROVE CtxInv'
<1>1. PICK kind \in Uses :
        /\ kind \in {"attach", "retry"} => rec[lease].stage \in {"prepared", "attached", "reviewed"}
        /\ kind = "deliver" => rec[lease].packet # None
        /\ kind = "feedback" => rec[lease].att = "published"
        /\ Now(c, [Idle EXCEPT !.pc = CASE kind \in {"attach", "retry"} -> "lock"
                                        [] kind \in {"prepare", "rebuild", "refresh"} -> "prepare"
                                        [] OTHER -> IF rec[lease].att = "published" THEN "head"
                                                    ELSE "load",
                               !.s = lease, !.kind = kind, !.mem = rec[lease],
                               !.fresh = TRUE, !.then = "show"])
  BY DEF Begin
<1> DEFINE pc == CASE kind \in {"attach", "retry"} -> "lock"
                   [] kind \in {"prepare", "rebuild", "refresh"} -> "prepare"
                   [] OTHER -> IF rec[lease].att = "published" THEN "head" ELSE "load"
           k == [Idle EXCEPT !.pc = pc, !.s = lease, !.kind = kind, !.mem = rec[lease],
                             !.fresh = TRUE, !.then = "show"]
<1>2. kind \in Kinds
  BY <1>1 DEF ContextAssumption, Kinds
<1>3. /\ pc \in {"lock", "prepare", "head", "load"}
      /\ pc = "lock" => kind \in {"attach", "retry"}
      /\ pc = "head" => rec[lease].att = "published"
      /\ pc = "load" => kind \in {"deliver", "feedback"} /\ rec[lease].att # "published"
  BY <1>2 DEF Kinds
<1>4. lease \in Sessions /\ rec[lease] \in RecRecs /\ ValidRecord(rec[lease])
  BY Kept1 DEF SharedTyped, OwnTyped, RecordsOk, RecordOk
<1>5. Now(c, k)
  BY <1>1
<1> HIDE DEF pc
<1>6. /\ k \in CmdRecs /\ k.pc = pc /\ k.s = lease /\ k.kind = kind /\ k.mem = rec[lease]
      /\ k.fresh = TRUE /\ k.then = "show" /\ k.input = None
  <2>1. pc \in Pcs
    BY <1>3 DEF Pcs
  <2>2. Idle \in CmdRecs /\ Idle.input = None
    BY IdleIsOk DEF Idle
  <2> QED
    BY <1>2, <1>4, <2>1, <2>2 DEF CmdRecs, Thens
<1> HIDE DEF k
<1>7. PlaceOk(k)
  <2>1. k.pc \in {"lock", "load"} => k.mem.packet \in Handles
    BY <1>1, <1>3, <1>4, <1>6 DEF ValidRecord, RecRecs
  <2>2. ~AtWork(k) /\ ~Declares(k) /\ (Shows(k) => k.mem.att = "published")
    BY <1>3, <1>6 DEF AtWork, Declares, Shows
  <2> QED
    BY <1>3, <1>4, <1>6, <2>1, <2>2 DEF PlaceOk
<1>8. SeesOk(k) /\ KeepsOk(k) /\ HoldsOk(c, k) /\ FreshOk(k)
  BY <1>3, <1>6 DEF SeesOk, KeepsOk, HoldsOk, FreshOk, AtWork, AtConnection
<1>9. Around /\ UNCHANGED <<rec, work>>
  BY StillAround DEF Begin, locks
<1>10. CASE cmd[c].pc # "unbind"
  BY <1>5, <1>6, <1>7, <1>8, <1>9, <1>10, OwnTurn
<1> QED
  BY <1>10 DEF Begin

(* attach_session.                                                         *)

\* The lock of the work item, and with it the record as it is now.
LEMMA LockStep ==
    ASSUME ContextAssumption, CtxInv, NEW c \in Commands, Lock(c) PROVE CtxInv'
<1> DEFINE r == rec[cmd[c].s]
<1>1. cmd[c].pc = "lock" /\ Around /\ UNCHANGED rec
  BY StillAround DEF Lock
<1>2. CASE Ends(c)
  BY <1>1, <1>2, EndTurn
<1>3. CASE /\ work = None /\ r.packet = cmd[c].mem.packet /\ work' = c
           /\ Now(c, [cmd[c] EXCEPT !.pc = "head", !.mem = r, !.fresh = TRUE, !.then = "decide"])
  <2> DEFINE k == [cmd[c] EXCEPT !.pc = "head", !.mem = r, !.fresh = TRUE, !.then = "decide"]
  <2>1. cmd[c] \in CmdRecs /\ PlaceOk(cmd[c]) /\ SeesOk(cmd[c])
    BY Kept1
  <2>2. cmd[c].s \in Sessions /\ cmd[c].mem.packet \in Handles
    BY <1>1, <2>1 DEF PlaceOk
  <2>3. r \in RecRecs /\ ValidRecord(r)
    BY <2>2, Kept1 DEF OwnTyped, RecordsOk, RecordOk
  <2>4. /\ k \in CmdRecs /\ k.pc = "head" /\ k.then = "decide" /\ k.s = cmd[c].s /\ k.mem = r
        /\ k.input = cmd[c].input
    BY <2>1, <2>3 DEF CmdRecs, Pcs, Thens
  <2>5. cmd' = [cmd EXCEPT ![c] = k]
    BY <1>3 DEF Now
  <2> HIDE DEF k
  <2>6. cmd'[c] = k /\ (\A d \in Commands \ {c} : cmd'[d] = cmd[d]) /\ OwnTyped'
    BY <1>1, <2>4, <2>5, Kept1 DEF OwnTyped
  <2>7. Near(c) /\ Apart(c)
    <3> Near(c)
      BY <1>1 DEF Around, Near
    <3>1. \A d \in Commands \ {c} : work = d => work' = d
      BY <1>3 DEF ContextAssumption
    <3> QED
      BY <1>1, <2>6, <3>1, AroundApart
  <2>8. RecordsOk'
    BY <1>1, Kept1 DEF RecordsOk, RecordOk, Around, Near, remote
  <2>9. PlaceOk(k)
    BY <1>3, <2>2, <2>3, <2>4 DEF PlaceOk, Shows, Declares
  <2>10. /\ SeesOk(k) /\ KeepsOk(k) /\ k.pc \notin AtConnection
         /\ k.fresh => k.mem = rec'[k.s]
    BY <1>1, <2>1, <2>4 DEF SeesOk, KeepsOk, AtConnection
  <2> QED
    BY <1>1, <1>3, <2>4, <2>6, <2>7, <2>8, <2>9, <2>10, CommandTurn
<1> QED
  BY <1>2, <1>3 DEF Lock, Excluded

\* What a command in the work item holds while it looks and thinks.
LEMMA LookSteps ==
    ASSUME ContextAssumption, CtxInv, NEW c \in Commands,
           ReadHead(c) \/ ReadInput(c) \/ Decide(c) \/ Again(c) \/ Publish(c)
    PROVE  CtxInv'
<1>1. Around /\ UNCHANGED <<rec, work>>
  BY StillAround DEF ReadHead, ReadInput, Decide, Again, Publish, locks
<1>2. /\ cmd[c] \in CmdRecs /\ PlaceOk(cmd[c]) /\ SeesOk(cmd[c]) /\ HoldsOk(c, cmd[c])
      /\ FreshOk(cmd[c])
  BY Kept1
<1>3. CASE ReadHead(c)
  <2> DEFINE k == [cmd[c] EXCEPT !.pc = "input", !.head = head]
  <2>1. /\ k \in CmdRecs /\ k.pc = "input" /\ k.s = cmd[c].s /\ k.mem = cmd[c].mem
        /\ k.fresh = cmd[c].fresh /\ k.then = cmd[c].then /\ k.input = cmd[c].input
    BY <1>2, Kept1 DEF CmdRecs, Pcs, SharedTyped
  <2>2. Now(c, k) /\ cmd[c].pc = "head"
    BY <1>3 DEF ReadHead
  <2> HIDE DEF k
  <2>3. PlaceOk(k)
    BY <1>2, <2>1, <2>2 DEF PlaceOk, AtWork, Shows, Declares
  <2>4. SeesOk(k) /\ HoldsOk(c, k) /\ FreshOk(k) /\ KeepsOk(k)
    BY <1>2, <2>1, <2>2 DEF SeesOk, HoldsOk, FreshOk, KeepsOk, AtWork, AtConnection
  <2> QED
    BY <1>1, <2>1, <2>2, <2>3, <2>4, OwnTurn
<1>4. CASE ReadInput(c)
  <2> DEFINE k == [cmd[c] EXCEPT !.pc = cmd[c].then, !.input = last]
  <2>1. cmd[c].pc = "input" /\ cmd[c].then \in {"show", "decide", "again"}
    BY <1>2, <1>4 DEF ReadInput, PlaceOk
  <2>2. /\ k \in CmdRecs /\ k.pc = cmd[c].then /\ k.s = cmd[c].s /\ k.mem = cmd[c].mem
        /\ k.fresh = cmd[c].fresh /\ k.then = cmd[c].then /\ k.input = last
    <3>1. last \in Revs \cup {None} /\ cmd[c].then \in Pcs
      BY <2>1, Kept1 DEF SharedTyped, Pcs
    <3> QED
      BY <1>2, <3>1 DEF CmdRecs
  <2>3. Now(c, k)
    BY <1>4 DEF ReadInput
  <2> HIDE DEF k
  <2>4. PlaceOk(k)
    BY <1>2, <2>1, <2>2 DEF PlaceOk, AtWork, Shows, Declares
  <2>5. HoldsOk(c, k) /\ FreshOk(k) /\ KeepsOk(k)
    BY <1>2, <2>1, <2>2 DEF HoldsOk, FreshOk, KeepsOk, AtWork, AtConnection
  <2>6. SeesOk(k)
    BY <2>1, <2>2, Kept1 DEF SeesOk, SharedTyped
  <2> QED
    BY <1>1, <2>1, <2>2, <2>3, <2>4, <2>5, <2>6, OwnTurn
<1>5. ASSUME NEW pc \in Pcs, Goes(c, pc), AtWork(cmd[c]), cmd[c].pc # "unbind", ~Shows(cmd[c]),
             pc \in {"mint", "reread", "retire", "recheck", "reserve", "mark", "publish", "comment",
                     "uncertain"},
             pc = "recheck" => cmd[c].mem.att = "published",
             pc = "reserve" => cmd[c].mem.att \in Intents,
             pc \in {"mark", "publish", "comment", "uncertain"} =>
                 cmd[c].mem.att \in {"pending", "uncertain"},
             pc \in {"reread", "retire"} => cmd[c].mem.rev \in Revs,
             pc = "mark" => cmd[c].mem.rev \in posted,
             pc \in {"publish", "comment"} => cmd[c].input = last /\ cmd[c].input # cmd[c].mem.rev
      PROVE  CtxInv'
  <2> DEFINE k == [cmd[c] EXCEPT !.pc = pc]
  <2>1. /\ k.pc = pc /\ k.s = cmd[c].s /\ k.mem = cmd[c].mem /\ k.then = cmd[c].then
        /\ k.fresh = cmd[c].fresh /\ k.input = cmd[c].input
    BY <1>2 DEF CmdRecs
  <2>2. cmd[c].pc # "idle"
    BY <1>5 DEF AtWork
  <2> HIDE DEF k
  <2>3. PlaceOk(k)
    BY <1>2, <1>5, <2>1, <2>2 DEF PlaceOk, AtWork, Shows, Declares
  <2>4. SeesOk(k) /\ KeepsOk(k) /\ HoldsOk(c, k)
    BY <1>2, <1>5, <2>1 DEF SeesOk, KeepsOk, HoldsOk, AtWork, AtConnection
  <2> QED
    BY <1>1, <1>5, <2>2, <2>3, <2>4, GoTurn DEF k
<1>6. ValidRecord(cmd[c].mem) /\ cmd[c].mem.att \in AttachmentStates
  BY <1>2 DEF PlaceOk, ValidRecord
<1>7. cmd[c].mem.att # "none" => cmd[c].mem.rev \in Revs
  BY <1>6 DEF ValidRecord, AttachmentStates, Intents
<1>8. CASE Decide(c)
  <2>1. AtWork(cmd[c]) /\ ~Shows(cmd[c]) /\ cmd[c].pc = "decide"
    BY <1>8 DEF Decide, AtWork, Shows
  <2>2. \E pc \in {"mint", "reread", "retire", "recheck", "reserve"} :
          /\ Goes(c, pc)
          /\ pc = "recheck" => cmd[c].mem.att = "published"
          /\ pc = "reserve" => cmd[c].mem.att \in {"pending", "uncertain"}
          /\ pc \in {"reread", "retire"} => cmd[c].mem.att # "none"
    BY <1>6, <1>8 DEF Decide, AttachmentStates
  <2> QED
    BY <1>5, <1>7, <2>1, <2>2 DEF Pcs, Intents
<1>9. CASE Again(c)
  <2>1. /\ AtWork(cmd[c]) /\ ~Shows(cmd[c]) /\ cmd[c].pc = "again"
        /\ cmd[c].mem.att \in {"pending", "uncertain"}
        /\ cmd[c].input = last /\ cmd[c].input \in posted \cup {None}
    BY <1>2, <1>9 DEF Again, AtWork, Shows, PlaceOk, Declares, SeesOk
  <2>2. \/ Goes(c, "reread")
        \/ Goes(c, "mark") /\ cmd[c].input = cmd[c].mem.rev
        \/ Goes(c, "publish") /\ cmd[c].input # cmd[c].mem.rev
    BY <1>9 DEF Again, Public
  <2>3. cmd[c].mem.rev \in Revs /\ cmd[c].mem.rev # None
    BY <1>7, <2>1 DEF ContextAssumption
  <2> QED
    BY <1>5, <2>1, <2>2, <2>3 DEF Pcs
<1>10. CASE Publish(c)
  <2>1. /\ AtWork(cmd[c]) /\ ~Shows(cmd[c]) /\ cmd[c].pc = "publish"
        /\ cmd[c].mem.att \in {"pending", "uncertain"}
        /\ cmd[c].input = last /\ cmd[c].input # cmd[c].mem.rev
    BY <1>2, <1>10 DEF Publish, AtWork, Shows, PlaceOk, Declares, SeesOk
  <2>2. Goes(c, "comment") \/ Goes(c, "uncertain")
    BY <1>10 DEF Publish
  <2> QED
    BY <1>5, <2>1, <2>2 DEF Pcs
<1> QED
  BY <1>3, <1>4, <1>8, <1>9, <1>10

\* A command that saves and ends, or saves and moves on.
LEMMA SaveEndTurn ==
    ASSUME ContextAssumption, CtxInv, NEW c \in Commands, NEW r \in RecRecs, SaveAndEnd(c, r), Around,
           cmd[c].pc \notin {"idle", "unbind"}, cmd[c].fresh => RecordOk(r)
    PROVE  CtxInv'
  BY IdleIsOk, SaveTurn DEF SaveAndEnd

LEMMA SaveGoTurn ==
    ASSUME ContextAssumption, CtxInv, NEW c \in Commands, NEW r \in RecRecs,
           NEW pc \in Pcs \ ({"idle"} \cup AtConnection),
           SaveAndGo(c, r, pc), Around, cmd[c].pc \notin {"idle", "unbind"},
           cmd[c].fresh => RecordOk(r),
           \A k \in CmdRecs :
               /\ cmd[c].fresh /\ k.fresh /\ k.pc = pc /\ k.mem = r /\ k.s = cmd[c].s
               /\ k.then = cmd[c].then /\ k.input = cmd[c].input /\ k.handle = cmd[c].handle
               => PlaceOk(k) /\ SeesOk(k) /\ KeepsOk(k) /\ HoldsOk(c, k)
    PROVE  CtxInv'
<1> DEFINE v == [cmd[c] EXCEPT !.pc = pc]
           k == [v EXCEPT !.mem = r, !.fresh = TRUE]
<1>1. v \in CmdRecs /\ v.pc = pc /\ v.s = cmd[c].s
  BY Kept1 DEF CmdRecs
<1>2. /\ k \in CmdRecs /\ k.fresh /\ k.pc = pc /\ k.mem = r /\ k.s = cmd[c].s
      /\ k.then = cmd[c].then /\ k.input = cmd[c].input /\ k.handle = cmd[c].handle
  BY Kept1 DEF CmdRecs
<1>3. cmd[c].fresh => PlaceOk(k) /\ SeesOk(k) /\ KeepsOk(k) /\ HoldsOk(c, k)
  <2> HIDE DEF k
  <2> QED
    BY <1>2
<1>4. Save(c, r, v)
  BY DEF SaveAndGo
<1> HIDE DEF v
<1> QED
  BY <1>1, <1>3, <1>4, SaveTurn

\* What a command may make of a record.
LEMMA Forms ==
    ASSUME ContextAssumption, CtxInv, NEW c \in Commands
    PROVE  LET m == cmd[c].mem IN
           /\ m \in RecRecs /\ ValidRecord(m)
           /\ cmd[c].fresh => RecordOk(m)
           /\ Failed(c) \in RecRecs /\ Ready(c) \in RecRecs /\ Bare(m) \in RecRecs
           /\ cmd[c].fresh /\ m.stage # "selected" => RecordOk(Failed(c)) /\ RecordOk(Ready(c))
           /\ m.packet \in Handles => RecordOk(Bare(m))
           /\ Bare(m).packet = m.packet /\ Bare(m).att = "none" /\ Bare(m).stage = "prepared"
           /\ Ready(c).packet = m.packet /\ Ready(c).att = m.att /\ Ready(c).stage = m.stage
           /\ Ready(c).rev = m.rev /\ (m.att # "none" => m.rev \in Revs /\ m.stage # "selected")
<1> DEFINE m == cmd[c].mem
<1>1. m \in RecRecs /\ ValidRecord(m)
  BY Kept1 DEF CmdRecs, PlaceOk
<1>2. cmd[c].fresh => RecordOk(m)
  BY Kept1 DEF FreshOk, RecordsOk, PlaceOk
<1>3. Failed(c) = [m EXCEPT !.context = "failed"] /\ Ready(c) = [m EXCEPT !.context = "ready"]
      /\ Bare(m) = [m EXCEPT !.stage = "prepared", !.att = "none", !.head = 0, !.rev = None]
  BY DEF Failed, Ready, Bare
<1> HIDE DEF m
<1>4. \A x \in {"failed", "ready"} :
        LET r == [m EXCEPT !.context = x] IN
        /\ r \in RecRecs /\ r.packet = m.packet /\ r.att = m.att /\ r.stage = m.stage /\ r.rev = m.rev
        /\ RecordOk(m) /\ m.stage # "selected" => RecordOk(r)
  <2> SUFFICES ASSUME NEW x \in {"failed", "ready"}
               PROVE  LET r == [m EXCEPT !.context = x] IN
                      /\ r \in RecRecs /\ r.packet = m.packet /\ r.att = m.att /\ r.stage = m.stage
                      /\ r.rev = m.rev /\ r.context = x
                      /\ RecordOk(m) /\ m.stage # "selected" => RecordOk(r)
    OBVIOUS
  <2> DEFINE r == [m EXCEPT !.context = x]
  <2>1. /\ r \in RecRecs /\ r.packet = m.packet /\ r.att = m.att /\ r.stage = m.stage
        /\ r.rev = m.rev /\ r.context = x
    BY <1>1 DEF RecRecs, Contexts
  <2> HIDE DEF r
  <2>2. RecordOk(m) /\ m.stage # "selected" => RecordOk(r)
    BY <2>1 DEF RecordOk, ValidRecord
  <2> QED
    BY <2>1, <2>2 DEF r
<1>5. /\ Bare(m) \in RecRecs /\ Bare(m).packet = m.packet /\ Bare(m).att = "none"
      /\ Bare(m).stage = "prepared" /\ Bare(m).rev = None /\ Bare(m).context = m.context
  <2>1. 0 \in Heads /\ "prepared" \in Stages /\ "none" \in AttachmentStates
    BY DEF ContextAssumption, Heads, Stages, AttachmentStates
  <2> QED
    BY <1>1, <1>3, <2>1 DEF RecRecs
<1>6. m.packet \in Handles => RecordOk(Bare(m))
  BY <1>1, <1>5 DEF RecordOk, ValidRecord, Stages, AttachmentStates, Intents
<1>7. m.att # "none" => m.rev \in Revs /\ m.stage # "selected"
  BY <1>1 DEF ValidRecord, AttachmentStates, Intents
<1> QED
  BY <1>1, <1>2, <1>3, <1>4, <1>5, <1>6, <1>7 DEF m

LEMMA RecheckStep ==
    ASSUME ContextAssumption, CtxInv, NEW c \in Commands, Recheck(c) PROVE CtxInv'
<1>1. cmd[c].pc = "recheck" /\ conn = None
      /\ UNCHANGED <<remote, lease, binding, conn, audit, owner, ghosts>>
  BY DEF Recheck
<1>2. cmd[c].mem.att = "published"
  BY <1>1, Kept1 DEF PlaceOk, Shows
<1>5. Failed(c) \in RecRecs /\ (cmd[c].fresh => RecordOk(Failed(c)))
  BY <1>2, Forms
<1> DEFINE h == binding[cmd[c].mem.rev].handle
<1>3. CASE Ends(c) /\ UNCHANGED rec /\ (UNCHANGED <<auth, entry>> \/ (Granted(h) /\ UNCHANGED entry))
  <2>1. Around
    BY <1>1, <1>3, AskedAround
  <2> QED
    BY <1>1, <1>3, <2>1, EndTurn
<1>4. CASE Denied(h) /\ SaveAndEnd(c, Failed(c))
  <2>1. Around
    BY <1>1, <1>4, AskedAround
  <2> QED
    BY <1>1, <1>4, <2>1, <1>5, SaveEndTurn
<1> QED
  BY <1>3, <1>4 DEF Recheck

LEMMA MintStep ==
    ASSUME ContextAssumption, CtxInv, NEW c \in Commands, Mint(c) PROVE CtxInv'
<1> DEFINE m == cmd[c].mem
<1>1. PICK r \in Revs :
        /\ Unused(r) /\ minted' = [minted EXCEPT ![r] = cmd[c].head] /\ cut' = cut \ {r}
        /\ SaveAndGo(c, [m EXCEPT !.stage = "prepared", !.head = cmd[c].head,
                                  !.rev = r, !.att = "reserving"], "reserve")
  BY DEF Mint
<1> DEFINE q == [m EXCEPT !.stage = "prepared", !.head = cmd[c].head, !.rev = r, !.att = "reserving"]
<1>2. /\ cmd[c].pc = "mint" /\ UNCHANGED <<remote, lease, local, conn, audit, owner, accepted, calm>>
  BY DEF Mint
<1>3. cmd[c] \in CmdRecs /\ PlaceOk(cmd[c]) /\ SeesOk(cmd[c]) /\ HoldsOk(c, cmd[c])
  BY Kept1
<1>4. m \in RecRecs /\ m.packet \in Handles /\ cmd[c].head \in Heads /\ work = c
  BY <1>2, <1>3 DEF CmdRecs, PlaceOk, HoldsOk, AtWork
<1>5. /\ q \in RecRecs /\ q.stage = "prepared" /\ q.att = "reserving" /\ q.rev = r
      /\ q.packet = m.packet /\ q.context \in Contexts
  BY <1>4 DEF RecRecs, Stages, AttachmentStates
<1>6. SaveAndGo(c, q, "reserve")
  BY <1>1
<1> HIDE DEF q
<1>7. ValidRecord(q) /\ RecordOk(q)
  BY <1>4, <1>5 DEF RecordOk, ValidRecord, Stages, AttachmentStates, Intents, Contexts
<1>8. Around
  <2>1. binding[r] = None
    BY <1>1 DEF Unused
  <2>2. minted' \in [Revs -> Heads]
    BY <1>1, <1>4, Kept1 DEF SharedTyped
  <2> QED
    BY <1>1, <1>2, <2>1, <2>2, Kept1 DEF Around, Near, SharedTyped, EntryStays, local
<1>9. ASSUME NEW k \in CmdRecs, k.pc = "reserve", k.mem = q, k.s = cmd[c].s, k.input = cmd[c].input
      PROVE  PlaceOk(k) /\ SeesOk(k) /\ KeepsOk(k) /\ HoldsOk(c, k)
  <2>1. PlaceOk(k)
    BY <1>2, <1>3, <1>4, <1>5, <1>7, <1>9 DEF PlaceOk, Shows, Declares, Intents
  <2>2. SeesOk(k) /\ KeepsOk(k) /\ HoldsOk(c, k)
    BY <1>3, <1>4, <1>9 DEF SeesOk, KeepsOk, HoldsOk, AtConnection
  <2> QED
    BY <2>1, <2>2
<1>10. "reserve" \in Pcs \ ({"idle"} \cup AtConnection)
  BY DEF Pcs, AtConnection
<1> QED
  BY <1>2, <1>5, <1>6, <1>7, <1>8, <1>9, <1>10, SaveGoTurn

LEMMA AfterReserveStep ==
    ASSUME ContextAssumption, CtxInv, NEW c \in Commands, AfterReserve(c) PROVE CtxInv'
<1> DEFINE m == cmd[c].mem
<1>1. cmd[c].pc = "reserved" /\ Around
  BY StillAround DEF AfterReserve
<1>2. cmd[c] \in CmdRecs /\ PlaceOk(cmd[c]) /\ SeesOk(cmd[c]) /\ HoldsOk(c, cmd[c]) /\ FreshOk(cmd[c])
  BY Kept1
<1>3. /\ m \in RecRecs /\ m.packet \in Handles /\ m.att \in Intents /\ m.rev \in Revs /\ m.rev # None
      /\ work = c /\ m.stage = "prepared" /\ ValidRecord(m) /\ cmd[c].s \in Sessions
  <2>1. m \in RecRecs /\ m.packet \in Handles /\ m.att \in Intents /\ work = c /\ ValidRecord(m)
        /\ cmd[c].s \in Sessions
    BY <1>1, <1>2 DEF CmdRecs, PlaceOk, HoldsOk, AtWork
  <2> QED
    BY <2>1 DEF ContextAssumption, ValidRecord
<1> DEFINE v == Publishing(c)
<1>4. /\ v \in CmdRecs /\ v.pc = "head" /\ v.then = "again" /\ v.s = cmd[c].s /\ v.mem = m
      /\ v.fresh = cmd[c].fresh /\ v.input = cmd[c].input
  BY <1>2 DEF Publishing, CmdRecs, Pcs, Thens
<1> HIDE DEF v
<1>5. ASSUME NEW k \in CmdRecs, k.pc = "head", k.then = "again", k.s = cmd[c].s,
             k.input = cmd[c].input, ValidRecord(k.mem), k.mem.packet \in Handles,
             k.mem.att \in {"pending", "uncertain"}
      PROVE  PlaceOk(k) /\ SeesOk(k) /\ KeepsOk(k) /\ HoldsOk(c, k)
  <2>1. PlaceOk(k)
    BY <1>3, <1>5 DEF PlaceOk, Shows
  <2>2. SeesOk(k) /\ KeepsOk(k) /\ HoldsOk(c, k)
    BY <1>2, <1>3, <1>5 DEF SeesOk, KeepsOk, HoldsOk, AtConnection
  <2> QED
    BY <2>1, <2>2
<1>6. CASE m.att = "reserving" /\ Save(c, [m EXCEPT !.att = "pending"], v)
  <2> DEFINE q == [m EXCEPT !.att = "pending"]
             k == [v EXCEPT !.mem = q, !.fresh = TRUE]
  <2>1. /\ q \in RecRecs /\ q.stage = "prepared" /\ q.att = "pending" /\ q.rev = m.rev
        /\ q.packet = m.packet /\ q.context = m.context
    BY <1>3 DEF RecRecs, AttachmentStates
  <2>2. /\ k \in CmdRecs /\ k.pc = "head" /\ k.then = "again" /\ k.s = cmd[c].s /\ k.mem = q
        /\ k.input = cmd[c].input
    <3> HIDE DEF q
    <3> QED
      BY <1>4, <2>1 DEF CmdRecs
  <2>3. ValidRecord(q) /\ RecordOk(q)
    <3> HIDE DEF q
    <3> QED
      BY <1>3, <2>1 DEF RecordOk, ValidRecord, AttachmentStates, Intents
  <2>4. PlaceOk(k) /\ SeesOk(k) /\ KeepsOk(k) /\ HoldsOk(c, k)
    <3> HIDE DEF q, k
    <3> QED
      BY <1>3, <1>5, <2>1, <2>2, <2>3
  <2> HIDE DEF q
  <2> QED
    BY <1>1, <1>4, <1>6, <2>1, <2>3, <2>4, SaveTurn DEF q, AtConnection
<1>7. CASE cmd[c].input = m.rev /\ m.att # "reserving" /\ Goes(c, "mark") /\ UNCHANGED <<rec, work>>
  <2> DEFINE k == [cmd[c] EXCEPT !.pc = "mark"]
  <2>1. /\ k.pc = "mark" /\ k.s = cmd[c].s /\ k.mem = m /\ k.then = cmd[c].then /\ k.input = m.rev
        /\ k.fresh = cmd[c].fresh
    BY <1>2, <1>7 DEF CmdRecs
  <2> HIDE DEF k
  <2>2. PlaceOk(k)
    BY <1>3, <1>7, <2>1 DEF PlaceOk, Shows, Intents
  <2>3. SeesOk(k) /\ KeepsOk(k) /\ HoldsOk(c, k)
    BY <1>2, <1>3, <1>7, <2>1 DEF SeesOk, KeepsOk, HoldsOk, AtConnection
  <2> QED
    BY <1>1, <1>7, <2>2, <2>3, GoTurn DEF k, Pcs
<1>8. CASE Ends(c) /\ UNCHANGED rec
  BY <1>1, <1>8, EndTurn
<1>9. CASE m.att # "reserving" /\ Now(c, v) /\ UNCHANGED <<rec, work>>
  <2>1. FreshOk(v)
    BY <1>2, <1>4 DEF FreshOk
  <2>2. PlaceOk(v) /\ SeesOk(v) /\ KeepsOk(v) /\ HoldsOk(c, v)
    BY <1>3, <1>4, <1>5, <1>9 DEF Intents
  <2> QED
    BY <1>1, <1>4, <1>9, <2>1, <2>2, OwnTurn
<1> QED
  BY <1>6, <1>7, <1>8, <1>9 DEF AfterReserve, v

LEMMA DeclaredSteps ==
    ASSUME ContextAssumption, CtxInv, NEW c \in Commands, SetUncertain(c) \/ Attached(c)
    PROVE  CtxInv'
<1> DEFINE m == cmd[c].mem
<1>1. cmd[c].pc \in {"uncertain", "attached"} /\ Around
  BY StillAround DEF SetUncertain, Attached
<1>2. cmd[c] \in CmdRecs /\ PlaceOk(cmd[c]) /\ SeesOk(cmd[c])
  BY Kept1
<1>3. /\ m \in RecRecs /\ m.packet \in Handles /\ m.att \in {"pending", "uncertain"} /\ m.rev \in Revs
      /\ m.stage = "prepared" /\ ValidRecord(m)
  <2>1. m \in RecRecs /\ m.packet \in Handles /\ m.att \in {"pending", "uncertain"} /\ ValidRecord(m)
    BY <1>1, <1>2 DEF CmdRecs, PlaceOk, AtWork, Declares
  <2> QED
    BY <2>1 DEF ValidRecord, Intents
<1>4. CASE SetUncertain(c)
  <2> DEFINE q == [m EXCEPT !.att = "uncertain"]
  <2>1. /\ q \in RecRecs /\ q.stage = "prepared" /\ q.att = "uncertain" /\ q.rev = m.rev
        /\ q.packet = m.packet /\ q.context = m.context
    BY <1>3 DEF RecRecs, AttachmentStates
  <2>2. SaveAndEnd(c, q)
    BY <1>4 DEF SetUncertain
  <2> HIDE DEF q
  <2>3. RecordOk(q)
    BY <1>3, <2>1 DEF RecordOk, ValidRecord, AttachmentStates, Intents
  <2> QED
    BY <1>1, <2>1, <2>2, <2>3, SaveEndTurn
<1>5. CASE Attached(c)
  <2> DEFINE q == [Ready(c) EXCEPT !.stage = "attached", !.att = "published"]
  <2>1. /\ q \in RecRecs /\ q.stage = "attached" /\ q.att = "published" /\ q.rev = m.rev
        /\ q.packet = m.packet /\ q.context = "ready"
    BY <1>3 DEF Ready, RecRecs, AttachmentStates, Stages, Contexts
  <2>2. SaveAndEnd(c, q) /\ m.rev \in posted
    BY <1>2, <1>5 DEF Attached, SeesOk
  <2> HIDE DEF q
  <2>3. RecordOk(q)
    BY <1>3, <2>1, <2>2 DEF RecordOk, ValidRecord, AttachmentStates, Stages, Intents
  <2> QED
    BY <1>1, <2>1, <2>2, <2>3, SaveEndTurn
<1> QED
  BY <1>4, <1>5

LEMMA RereadStep ==
    ASSUME ContextAssumption, CtxInv, NEW c \in Commands, Reread(c) PROVE CtxInv'
<1> DEFINE r == rec[cmd[c].s]
<1>1. cmd[c].pc = "reread" /\ Around /\ UNCHANGED rec
  BY StillAround DEF Reread
<1>2. CASE Ends(c)
  BY <1>1, <1>2, EndTurn
<1>3. CASE /\ r.rev = cmd[c].mem.rev /\ UNCHANGED work
           /\ Now(c, [cmd[c] EXCEPT !.pc = "abandon", !.mem = r, !.fresh = TRUE])
  <2> DEFINE k == [cmd[c] EXCEPT !.pc = "abandon", !.mem = r, !.fresh = TRUE]
  <2>1. cmd[c] \in CmdRecs /\ PlaceOk(cmd[c]) /\ SeesOk(cmd[c]) /\ HoldsOk(c, cmd[c])
    BY Kept1
  <2>2. cmd[c].s \in Sessions /\ cmd[c].mem.rev \in Revs /\ work = c
    BY <1>1, <2>1 DEF PlaceOk, HoldsOk, AtWork
  <2>3. r \in RecRecs /\ ValidRecord(r) /\ r.rev # None
    BY <1>3, <2>2, Kept1 DEF OwnTyped, RecordsOk, RecordOk, ContextAssumption
  <2>4. /\ k \in CmdRecs /\ k.pc = "abandon" /\ k.s = cmd[c].s /\ k.mem = r
        /\ k.input = cmd[c].input
    BY <2>1, <2>3 DEF CmdRecs, Pcs
  <2> HIDE DEF k
  <2>5. r.packet \in Handles
    BY <2>3 DEF ValidRecord, AttachmentStates, Intents
  <2>6. PlaceOk(k)
    BY <1>3, <2>2, <2>3, <2>4, <2>5 DEF PlaceOk, Shows, Declares
  <2>7. SeesOk(k) /\ KeepsOk(k) /\ HoldsOk(c, k) /\ FreshOk(k)
    BY <2>1, <2>2, <2>4 DEF SeesOk, KeepsOk, HoldsOk, FreshOk, AtConnection
  <2> QED
    BY <1>1, <1>3, <2>4, <2>6, <2>7, OwnTurn DEF k
<1> QED
  BY <1>2, <1>3 DEF Reread

LEMMA ClearStep ==
    ASSUME ContextAssumption, CtxInv, NEW c \in Commands, Clear(c) PROVE CtxInv'
<1> DEFINE q == Bare(cmd[c].mem)
<1>1. cmd[c].pc = "clear" /\ Around
  BY StillAround DEF Clear
<1>2. cmd[c] \in CmdRecs /\ PlaceOk(cmd[c]) /\ SeesOk(cmd[c]) /\ HoldsOk(c, cmd[c])
  BY Kept1
<1>3. cmd[c].mem.packet \in Handles /\ work = c
  BY <1>1, <1>2 DEF PlaceOk, HoldsOk, AtWork
<1>4. /\ q \in RecRecs /\ RecordOk(q) /\ ValidRecord(q)
      /\ q.packet = cmd[c].mem.packet /\ q.att = "none"
  BY <1>3, Forms DEF RecordOk
<1> HIDE DEF q
<1>5. CASE SaveAndEnd(c, q)
  BY <1>1, <1>4, <1>5, SaveEndTurn
<1>6. CASE SaveAndGo(c, q, "mint")
  <2>1. ASSUME NEW k \in CmdRecs, k.pc = "mint", k.mem = q, k.s = cmd[c].s, k.input = cmd[c].input
        PROVE  PlaceOk(k) /\ SeesOk(k) /\ KeepsOk(k) /\ HoldsOk(c, k)
    <3>1. PlaceOk(k)
      BY <1>1, <1>2, <1>3, <1>4, <2>1 DEF PlaceOk, Shows, Declares
    <3>2. SeesOk(k) /\ KeepsOk(k) /\ HoldsOk(c, k)
      BY <1>2, <1>3, <2>1 DEF SeesOk, KeepsOk, HoldsOk, AtConnection
    <3> QED
      BY <3>1, <3>2
  <2>2. "mint" \in Pcs \ ({"idle"} \cup AtConnection)
    BY DEF Pcs, AtConnection
  <2> QED
    BY <1>1, <1>4, <1>6, <2>1, <2>2, SaveGoTurn
<1> QED
  BY <1>5, <1>6 DEF Clear, q

(* The steps that change the private files, or the comments.               *)
LEMMA FileTurn ==
    ASSUME ContextAssumption, CtxInv, NEW c \in Commands, NEW k \in CmdRecs, Now(c, k), UNCHANGED rec,
           work' \in {work, Leaves(c, work)},
           conn \in {None, c} \/ UNCHANGED <<conn, entry, binding>>,
           posted \subseteq posted', last' # last => work = c, accepted \subseteq accepted',
           SharedTyped', BindingsOk', OwnerOk', AuditOk', BindingIsFound',
           PlaceOk(k), FreshOk(k)', SeesOk(k)', HoldsOk(c, k)', KeepsOk(k)'
    PROVE  CtxInv'
<1>1. /\ cmd' = [cmd EXCEPT ![c] = k] /\ cmd'[c] = k /\ \A d \in Commands \ {c} : cmd'[d] = cmd[d]
      /\ OwnTyped'
  BY Kept1 DEF Now, OwnTyped
<1>2. Apart(c)
  <2>1. \A d \in Commands : d # None
    BY DEF ContextAssumption
  <2> QED
    BY <1>1, <2>1 DEF Apart, Leaves
<1>3. RecordsOk'
  BY Kept1 DEF RecordsOk, RecordOk
<1>4. CommandOk(c, cmd[c])'
  <2>1. PlaceOk(cmd[c])'
    BY <1>1 DEF PlaceOk, AtWork, Shows, Declares
  <2>2. FreshOk(cmd[c])' /\ SeesOk(cmd[c])'
    BY <1>1 DEF FreshOk, SeesOk
  <2>3. HoldsOk(c, cmd[c])'
    BY <1>1 DEF HoldsOk, AtWork
  <2>4. KeepsOk(cmd[c])'
    BY <1>1 DEF KeepsOk
  <2> QED
    BY <2>1, <2>2, <2>3, <2>4 DEF CommandOk
<1>5. \A d \in Commands : CommandOk(d, cmd[d])'
  BY <1>2, <1>4, OthersKeep
<1> QED
  BY <1>1, <1>3, <1>5 DEF CtxInv

\* Only a command at "unbind" takes a binding away while its index stands.
LEMMA StillRemoving ==
    ASSUME ContextAssumption, CtxInv, NEW c \in Commands, NEW k, Now(c, k), NEW r, Removing(r),
           cmd[c].pc # "unbind" \/ cmd[c].mem.rev # r \/ (k.pc = "unbind" /\ k.mem = cmd[c].mem)
    PROVE  Removing(r)'
<1>1. cmd'[c] = k /\ \A d \in Commands \ {c} : cmd'[d] = cmd[d]
  BY Kept1 DEF Now, OwnTyped
<1> QED
  BY <1>1 DEF Removing

LEMMA BindStep ==
    ASSUME ContextAssumption, CtxInv, NEW c \in Commands, Bind(c) PROVE CtxInv'
<1> DEFINE m == cmd[c].mem
           r == m.rev
<1>1. /\ cmd[c].pc = "bind" /\ conn' = None /\ Goes(c, "reserved")
      /\ binding' = [binding EXCEPT ![r] = IF @ = None THEN Reserved(m.packet) ELSE @]
      /\ UNCHANGED <<head, last, posted, lease, rec, entry, auth, work, audit, owner, minted, accepted,
                     cut, calm>>
  BY DEF Bind, remote, ghosts
<1>2. /\ cmd[c] \in CmdRecs /\ PlaceOk(cmd[c]) /\ FreshOk(cmd[c]) /\ SeesOk(cmd[c])
      /\ HoldsOk(c, cmd[c]) /\ KeepsOk(cmd[c])
  BY Kept1
<1>3. /\ conn = c /\ work = c /\ entry # None /\ r \in entry.listed /\ entry.handle = m.packet
      /\ m.packet \in Handles /\ m.att \in Intents /\ conn # None
  BY <1>1, <1>2 DEF HoldsOk, KeepsOk, PlaceOk, AtWork, AtConnection, ContextAssumption
<1>4. SharedTyped
  BY Kept1
<1>5. r \in Revs
  BY <1>3, <1>4 DEF SharedTyped, WellListed
<1>6. Reserved(m.packet) \in Bindings /\ Reserved(m.packet).handle = m.packet
      /\ ~Reserved(m.packet).published /\ ~Reserved(m.packet).feedback
  BY <1>3 DEF Reserved, Bindings
<1>7. /\ \A q \in Revs : \/ binding'[q] = binding[q]
                         \/ q = r /\ binding[q] = None /\ binding'[q] = Reserved(m.packet)
      /\ binding' \in [Revs -> Bindings \cup {None}]
  <2>1. binding \in [Revs -> Bindings \cup {None}]
    BY <1>4 DEF SharedTyped
  <2> QED
    BY <1>1, <1>6, <2>1
<1>8. SharedTyped' /\ AuditOk'
  BY <1>1, <1>4, <1>7, Kept1 DEF SharedTyped, AuditOk
<1>9. BindingsOk'
  BY <1>1, <1>6, <1>7, Kept1 DEF BindingsOk
<1>10. OwnerOk'
  BY <1>1, <1>3, Kept1 DEF OwnerOk, ContextAssumption
<1> PICK k \in CmdRecs : k = [cmd[c] EXCEPT !.pc = "reserved"]
  BY <1>2 DEF CmdRecs, Pcs
<1>11. /\ Now(c, k) /\ k.pc = "reserved" /\ k.s = cmd[c].s /\ k.mem = m /\ k.fresh = cmd[c].fresh
       /\ k.input = cmd[c].input
  BY <1>1, <1>2 DEF Goes, CmdRecs
<1>12. BindingIsFound'
  <2> SUFFICES ASSUME NEW q \in Revs, binding'[q] # None
               PROVE  \/ entry' # None /\ q \in entry'.listed /\ entry'.handle = binding'[q].handle
                      \/ Removing(q)' \/ q \in cut'
    BY DEF BindingIsFound
  <2>1. CASE binding'[q] = binding[q]
    <3>1. Removing(q) => Removing(q)'
      BY <1>1, <1>11, StillRemoving
    <3> QED
      BY <1>1, <2>1, <3>1, Kept1 DEF BindingIsFound
  <2>2. CASE q = r /\ binding'[q] = Reserved(m.packet)
    BY <1>1, <1>3, <1>6, <2>2
  <2> QED
    BY <1>7, <2>1, <2>2
<1>13. PlaceOk(k)
  BY <1>1, <1>2, <1>3, <1>11 DEF PlaceOk, Shows, Declares
<1>14. FreshOk(k)' /\ SeesOk(k)' /\ KeepsOk(k)' /\ HoldsOk(c, k)'
  BY <1>1, <1>2, <1>3, <1>11 DEF FreshOk, SeesOk, KeepsOk, HoldsOk, AtConnection
<1> QED
  BY <1>1, <1>3, <1>8, <1>9, <1>10, <1>11, <1>12, <1>13, <1>14, FileTurn

LEMMA CommentStep ==
    ASSUME ContextAssumption, CtxInv, NEW c \in Commands, Comment(c) PROVE CtxInv'
<1> DEFINE m == cmd[c].mem
<1>1. /\ cmd[c].pc = "comment" /\ \/ Says(c) /\ Goes(c, "mark")
                                  \/ Goes(c, "uncertain") /\ (Says(c) \/ UNCHANGED <<last, posted>>)
      /\ UNCHANGED <<head, lease, rec, entry, binding, auth, work, conn, audit, owner, minted, accepted,
                     cut, calm>>
  BY DEF Comment, AfterLoss, local, locks, ghosts
<1>2. /\ cmd[c] \in CmdRecs /\ PlaceOk(cmd[c]) /\ FreshOk(cmd[c]) /\ SeesOk(cmd[c])
      /\ HoldsOk(c, cmd[c])
  BY Kept1
<1>3. /\ work = c /\ m.packet \in Handles /\ m.att \in {"pending", "uncertain"} /\ ValidRecord(m)
  BY <1>1, <1>2 DEF HoldsOk, PlaceOk, AtWork, Declares
<1>4. m.rev \in Revs
  BY <1>3 DEF ValidRecord, Intents
<1>5. posted \subseteq posted' /\ posted' \subseteq Revs /\ last' \in posted' \cup {None}
  BY <1>1, <1>4, Kept1 DEF Says, SharedTyped
<1>6. SharedTyped' /\ AuditOk' /\ OwnerOk' /\ BindingsOk'
  <2>1. SharedTyped'
    BY <1>1, <1>5, Kept1 DEF SharedTyped, WellListed
  <2>2. AuditOk' /\ OwnerOk'
    BY <1>1, Kept1 DEF AuditOk, OwnerOk, Emptied, Listed
  <2>3. BindingsOk'
    BY <1>1, <1>5, Kept1 DEF BindingsOk
  <2> QED
    BY <2>1, <2>2, <2>3
<1>7. PICK pc \in {"mark", "uncertain"} :
        Goes(c, pc) /\ (pc = "mark" => m.rev \in posted')
  BY <1>1 DEF Says
<1> PICK k \in CmdRecs : k = [cmd[c] EXCEPT !.pc = pc]
  BY <1>2, <1>7 DEF CmdRecs, Pcs
<1>8. /\ Now(c, k) /\ k.pc = pc /\ k.s = cmd[c].s /\ k.mem = m /\ k.fresh = cmd[c].fresh
      /\ k.input = cmd[c].input
  BY <1>2, <1>7 DEF Goes, CmdRecs
<1>9. BindingIsFound'
  <2>1. \A q \in Revs : Removing(q) => Removing(q)'
    BY <1>1, <1>8, StillRemoving
  <2> QED
    BY <1>1, <2>1, Kept1 DEF BindingIsFound
<1>10. PlaceOk(k)
  BY <1>1, <1>2, <1>3, <1>7, <1>8 DEF PlaceOk, Shows, Declares
<1>11. FreshOk(k)' /\ SeesOk(k)' /\ KeepsOk(k)' /\ HoldsOk(c, k)'
  BY <1>1, <1>2, <1>3, <1>5, <1>7, <1>8 DEF FreshOk, SeesOk, KeepsOk, HoldsOk, AtConnection
<1> QED
  BY <1>1, <1>3, <1>5, <1>6, <1>8, <1>9, <1>10, <1>11, FileTurn

LEMMA MarkStep ==
    ASSUME ContextAssumption, CtxInv, NEW c \in Commands, MarkPublished(c) PROVE CtxInv'
<1> DEFINE r == cmd[c].mem.rev
<1>1. /\ cmd[c].pc = "mark" /\ conn = None
      /\ UNCHANGED <<head, last, posted, lease, rec, entry, auth, conn, audit, owner, minted, accepted,
                     cut, calm>>
  BY DEF MarkPublished, remote, ghosts
<1>2. CASE Ends(c) /\ UNCHANGED binding
  <2>1. Around
    BY <1>2, StillAround DEF MarkPublished, local
  <2> QED
    BY <1>1, <1>2, <2>1, EndTurn
<1>3. CASE /\ binding[r] # None /\ Goes(c, "attached") /\ UNCHANGED work
           /\ binding' = [binding EXCEPT ![r].published = TRUE]
  <2>1. /\ cmd[c] \in CmdRecs /\ PlaceOk(cmd[c]) /\ FreshOk(cmd[c]) /\ SeesOk(cmd[c])
        /\ HoldsOk(c, cmd[c])
    BY Kept1
  <2>2. /\ work = c /\ cmd[c].mem.packet \in Handles /\ cmd[c].mem.att \in {"pending", "uncertain"}
        /\ r \in posted /\ r \in Revs
    BY <1>1, <2>1, Kept1 DEF HoldsOk, PlaceOk, AtWork, Declares, SeesOk, SharedTyped
  <2>3. SharedTyped
    BY Kept1
  <2>4. binding \in [Revs -> Bindings \cup {None}] /\ binding[r] \in Bindings
    BY <1>3, <2>2, <2>3 DEF SharedTyped
  <2> DEFINE b == [binding[r] EXCEPT !.published = TRUE]
  <2>5. b \in Bindings /\ b.handle = binding[r].handle /\ b.feedback = binding[r].feedback
    BY <2>4 DEF Bindings
  <2>6. binding' = [binding EXCEPT ![r] = b] /\ None \notin Bindings
    BY <1>3 DEF ContextAssumption
  <2> HIDE DEF b
  <2>7. /\ \A q \in Revs \ {r} : binding'[q] = binding[q]
        /\ binding'[r] = b /\ b # None /\ binding' \in [Revs -> Bindings \cup {None}]
        /\ \A q \in Revs : (binding'[q] = None) = (binding[q] = None)
        /\ \A q \in Revs : binding[q] # None => binding'[q].handle = binding[q].handle
    BY <1>3, <2>2, <2>4, <2>5, <2>6
  <2>8. SharedTyped' /\ AuditOk' /\ OwnerOk'
    BY <1>1, <1>3, <2>3, <2>7, Kept1 DEF SharedTyped, WellListed, AuditOk, OwnerOk, ContextAssumption
  <2>9. BindingsOk'
    BY <1>1, <2>2, <2>5, <2>7, Kept1 DEF BindingsOk
  <2> PICK k \in CmdRecs : k = [cmd[c] EXCEPT !.pc = "attached"]
    BY <2>1 DEF CmdRecs, Pcs
  <2>10. /\ Now(c, k) /\ k.pc = "attached" /\ k.s = cmd[c].s /\ k.mem = cmd[c].mem
         /\ k.fresh = cmd[c].fresh /\ k.input = cmd[c].input
    BY <1>3, <2>1 DEF Goes, CmdRecs
  <2>11. BindingIsFound'
    <3>1. \A q \in Revs : Removing(q) => Removing(q)'
      BY <1>1, <2>10, StillRemoving
    <3> QED
      BY <1>1, <2>7, <3>1, Kept1 DEF BindingIsFound
  <2>12. PlaceOk(k)
    BY <1>1, <2>1, <2>2, <2>10 DEF PlaceOk, Shows, Declares
  <2>13. FreshOk(k)' /\ SeesOk(k)' /\ KeepsOk(k)' /\ HoldsOk(c, k)'
    BY <1>1, <1>3, <2>1, <2>2, <2>10 DEF FreshOk, SeesOk, KeepsOk, HoldsOk, AtConnection
  <2> QED
    BY <1>1, <1>3, <2>8, <2>9, <2>10, <2>11, <2>12, <2>13, FileTurn
<1> QED
  BY <1>1, <1>2, <1>3 DEF MarkPublished

\* One delivery more or fewer in the index.
LEMMA Listing ==
    ASSUME ContextAssumption, SharedTyped, entry # None, NEW r \in Revs, NEW L \in SUBSET Revs,
           \/ L = entry.listed \ {r}
           \/ L = entry.listed \cup {r} /\ ~Full(r)
    PROVE  LET e == [entry EXCEPT !.listed = L] IN
           /\ e \in Entries /\ e # None /\ e.handle = entry.handle /\ e.listed = L
           /\ e.whole = entry.whole /\ IsFiniteSet(L) /\ Cardinality(L) <= MaxListed
<1>1. /\ entry \in Entries /\ IsFiniteSet(entry.listed) /\ Cardinality(entry.listed) <= MaxListed
      /\ MaxListed \in Nat /\ None \notin Entries
  BY DEF SharedTyped, WellListed, ContextAssumption
<1>2. [entry EXCEPT !.listed = L] \in Entries
  BY <1>1 DEF Entries
<1>3. IsFiniteSet(L) /\ Cardinality(L) <= MaxListed
  <2>1. CASE L = entry.listed \ {r}
    BY <1>1, <2>1, FS_Subset, FS_CardinalityType
  <2>2. CASE L = entry.listed \cup {r} /\ r \in entry.listed
    <3>1. L = entry.listed
      BY <2>2
    <3> QED
      BY <1>1, <3>1
  <2>3. CASE L = entry.listed \cup {r} /\ r \notin entry.listed /\ ~Full(r)
    <3>1. IsFiniteSet(L) /\ Cardinality(L) = Cardinality(entry.listed) + 1
      BY <1>1, <2>3, FS_AddElement
    <3>2. Cardinality(entry.listed) \in Nat
      BY <1>1, FS_CardinalityType
    <3> QED
      BY <1>1, <2>3, <3>1, <3>2 DEF Full
  <2> QED
    BY <2>1, <2>2, <2>3
<1> QED
  BY <1>1, <1>2, <1>3 DEF Entries

LEMMA ReserveStep ==
    ASSUME ContextAssumption, CtxInv, NEW c \in Commands, Reserve(c) PROVE CtxInv'
<1> DEFINE m == cmd[c].mem
<1>1. cmd[c].pc = "reserve" /\ conn = None
      /\ UNCHANGED <<remote, lease, binding, audit, owner, ghosts>>
  BY DEF Reserve
<1>2. /\ cmd[c] \in CmdRecs /\ PlaceOk(cmd[c]) /\ FreshOk(cmd[c]) /\ SeesOk(cmd[c])
      /\ HoldsOk(c, cmd[c])
  BY Kept1
<1>3. /\ work = c /\ m.packet \in Handles /\ m.att \in Intents /\ ValidRecord(m)
  BY <1>1, <1>2 DEF HoldsOk, PlaceOk, AtWork
<1>4. m.rev \in Revs /\ m.stage = "prepared" /\ m.att # "none"
  BY <1>3 DEF ValidRecord, Intents
<1>5. CASE Refused(c) /\ UNCHANGED conn /\ (Denied(m.packet) \/ UNCHANGED <<auth, entry>>)
  <2>1. Around
    BY <1>1, <1>5, AskedAround
  <2>2. /\ Failed(c) \in RecRecs /\ (cmd[c].fresh => RecordOk(Failed(c)))
        /\ Failed(c).packet = m.packet /\ Failed(c).rev = m.rev
    <3>1. Failed(c).packet = m.packet /\ Failed(c).rev = m.rev
      BY <1>2 DEF Failed, CmdRecs, RecRecs
    <3> QED
      BY <1>4, <3>1, Forms
  <2>3. CASE SaveAndEnd(c, Failed(c))
    BY <1>1, <2>1, <2>2, <2>3, SaveEndTurn
  <2>4. CASE SaveAndGo(c, Failed(c), "reread")
    <3> PICK f \in RecRecs : f = Failed(c)
      BY <2>2
    <3>1. ASSUME NEW k \in CmdRecs, cmd[c].fresh, k.pc = "reread", k.mem = f, k.s = cmd[c].s,
                 k.input = cmd[c].input
          PROVE  PlaceOk(k) /\ SeesOk(k) /\ KeepsOk(k) /\ HoldsOk(c, k)
      <4>1. ValidRecord(f) /\ f.packet \in Handles /\ f.rev \in Revs
        BY <1>3, <1>4, <2>2, <3>1 DEF RecordOk
      <4>2. PlaceOk(k)
        BY <1>1, <1>2, <3>1, <4>1 DEF PlaceOk, Shows, Declares
      <4>3. SeesOk(k) /\ KeepsOk(k) /\ HoldsOk(c, k)
        BY <1>2, <1>3, <3>1 DEF SeesOk, KeepsOk, HoldsOk, AtConnection
      <4> QED
        BY <4>2, <4>3
    <3>2. "reread" \in Pcs \ ({"idle"} \cup AtConnection)
      BY DEF Pcs, AtConnection
    <3>3. cmd[c].fresh => RecordOk(f)
      BY <2>2
    <3> QED
      BY <1>1, <2>1, <2>4, <3>1, <3>2, <3>3, SaveGoTurn
  <2> QED
    BY <1>5, <2>3, <2>4 DEF Refused
<1>6. CASE /\ Granted(m.packet) /\ ~Full(m.rev) /\ entry' = [entry EXCEPT !.listed = @ \cup {m.rev}]
           /\ conn' = c /\ Goes(c, "bind") /\ UNCHANGED <<rec, work>>
  <2>1. entry # None /\ entry.handle = m.packet /\ UNCHANGED auth
    BY <1>6 DEF Granted, Loads
  <2> DEFINE L == entry.listed \cup {m.rev}
  <2>2. SharedTyped /\ L \in SUBSET Revs
    <3>1. SharedTyped
      BY Kept1
    <3> QED
      BY <1>4, <2>1, <3>1 DEF SharedTyped, WellListed
  <2>3. /\ entry' \in Entries /\ entry' # None /\ entry'.handle = entry.handle /\ entry'.listed = L
        /\ IsFiniteSet(L) /\ Cardinality(L) <= MaxListed
    BY <1>4, <1>6, <2>1, <2>2, Listing
  <2>4. /\ UNCHANGED <<head, last, posted, lease, binding, audit, owner, minted, accepted, cut, calm>>
    BY <1>1 DEF remote, ghosts
  <2>5. SharedTyped'
    <3> HIDE DEF L
    <3>1. WellListed(entry)' /\ (entry # None => IsFiniteSet(entry.listed))'
      BY <2>1, <2>2, <2>3 DEF SharedTyped, WellListed
    <3> QED
      BY <1>6, <2>1, <2>2, <2>3, <2>4, <3>1 DEF SharedTyped
  <2>6. AuditOk' /\ OwnerOk' /\ BindingsOk'
    BY <1>1, <1>6, <2>4, Kept1 DEF AuditOk, OwnerOk, BindingsOk, ContextAssumption
  <2> PICK k \in CmdRecs : k = [cmd[c] EXCEPT !.pc = "bind"]
    BY <1>2 DEF CmdRecs, Pcs
  <2>7. /\ Now(c, k) /\ k.pc = "bind" /\ k.s = cmd[c].s /\ k.mem = m /\ k.fresh = cmd[c].fresh
        /\ k.input = cmd[c].input
    BY <1>2, <1>6 DEF Goes, CmdRecs
  <2>8. BindingIsFound'
    <3>1. \A q \in Revs : Removing(q) => Removing(q)'
      BY <1>1, <2>7, StillRemoving
    <3> QED
      BY <2>1, <2>3, <2>4, <3>1, Kept1 DEF BindingIsFound
  <2>9. PlaceOk(k)
    BY <1>1, <1>2, <1>3, <2>7 DEF PlaceOk, Shows, Declares
  <2>10. FreshOk(k)' /\ SeesOk(k)' /\ KeepsOk(k)' /\ HoldsOk(c, k)'
    BY <1>1, <1>2, <1>3, <1>6, <2>1, <2>3, <2>4, <2>7 DEF FreshOk, SeesOk, KeepsOk, HoldsOk, AtConnection
  <2> HIDE DEF L
  <2> QED
    BY <1>1, <1>6, <2>4, <2>5, <2>6, <2>7, <2>8, <2>9, <2>10, FileTurn
<1> QED
  BY <1>1, <1>5, <1>6 DEF Reserve

LEMMA UnlistStep ==
    ASSUME ContextAssumption, CtxInv, NEW c \in Commands, Unlist(c) PROVE CtxInv'
<1> DEFINE m == cmd[c].mem
           r == m.rev
           then == IF cmd[c].pc = "retire" THEN "mint" ELSE "idle"
<1>1. cmd[c].pc \in {"abandon", "retire"} /\ conn = None
      /\ UNCHANGED <<head, last, posted, lease, rec, binding, auth, audit, owner, minted, accepted,
                     cut, calm>>
  BY DEF Unlist, remote, ghosts
<1>2. /\ cmd[c] \in CmdRecs /\ PlaceOk(cmd[c]) /\ FreshOk(cmd[c]) /\ SeesOk(cmd[c])
      /\ HoldsOk(c, cmd[c])
  BY Kept1
<1>3. /\ work = c /\ m.packet \in Handles /\ r \in Revs
  BY <1>1, <1>2 DEF HoldsOk, PlaceOk, AtWork
<1>4. SharedTyped
  BY Kept1
<1>5. CASE Ends(c) /\ UNCHANGED <<entry, conn>>
  <2>1. Around
    BY <1>5, StillAround DEF Unlist, local
  <2> QED
    BY <1>1, <1>5, <2>1, EndTurn
<1>6. ASSUME NEW pc \in {"clear", "unbind"}, Unlists(r), conn' = IF pc = "unbind" THEN c ELSE conn,
             UNCHANGED work, Now(c, [cmd[c] EXCEPT !.pc = pc, !.then = then]),
             pc = "clear" => binding[r] = None,
             pc = "unbind" => entry # None /\ entry.handle = binding[r].handle
      PROVE  CtxInv'
  <2>1. /\ entry' \in Entries \cup {None} /\ (entry' # None) = (entry # None)
        /\ entry # None => /\ entry'.handle = entry.handle /\ entry'.listed = entry.listed \ {r}
                           /\ IsFiniteSet(entry.listed \ {r})
                           /\ Cardinality(entry.listed \ {r}) <= MaxListed
    <3>1. CASE entry = None
      BY <1>6, <3>1 DEF Unlists
    <3>2. CASE entry # None
      <4>1. entry.listed \ {r} \in SUBSET Revs
        BY <1>4, <3>2 DEF SharedTyped, WellListed
      <4>2. entry' = [entry EXCEPT !.listed = entry.listed \ {r}]
        BY <1>6, <3>2 DEF Unlists
      <4> QED
        BY <1>3, <1>4, <3>2, <4>1, <4>2, Listing
    <3> QED
      BY <3>1, <3>2
  <2>2. SharedTyped'
    <3>1. WellListed(entry)' /\ (entry # None => IsFiniteSet(entry.listed))'
      BY <1>4, <2>1 DEF SharedTyped, WellListed
    <3> QED
      BY <1>1, <1>3, <1>4, <1>6, <2>1, <3>1 DEF SharedTyped
  <2>3. AuditOk' /\ OwnerOk' /\ BindingsOk'
    BY <1>1, <1>6, Kept1 DEF AuditOk, OwnerOk, BindingsOk, ContextAssumption
  <2>4. [cmd[c] EXCEPT !.pc = pc, !.then = then] \in CmdRecs
    <3>1. pc \in Pcs /\ then \in Thens
      BY <1>6 DEF Pcs, Thens
    <3> HIDE DEF then
    <3> QED
      BY <1>2, <3>1 DEF CmdRecs
  <2> PICK k \in CmdRecs : k = [cmd[c] EXCEPT !.pc = pc, !.then = then]
    BY <2>4
  <2>5. /\ Now(c, k) /\ k.pc = pc /\ k.s = cmd[c].s /\ k.mem = m /\ k.fresh = cmd[c].fresh
        /\ k.input = cmd[c].input /\ k.then \in {"mint", "idle"}
    BY <1>2, <1>6 DEF CmdRecs
  <2>6. BindingIsFound'
    <3> SUFFICES ASSUME NEW q \in Revs, binding[q] # None
                 PROVE  \/ entry' # None /\ q \in entry'.listed /\ entry'.handle = binding[q].handle
                        \/ Removing(q)' \/ q \in cut'
      BY <1>1 DEF BindingIsFound
    <3>1. Removing(q) => Removing(q)'
      BY <1>1, <2>5, StillRemoving
    <3>2. CASE q # r
      BY <1>1, <2>1, <3>1, <3>2, Kept1 DEF BindingIsFound
    <3>3. CASE q = r
      <4>1. cmd'[c] = k /\ pc = "unbind"
        BY <1>6, <2>5, <3>3, Kept1 DEF Now, OwnTyped
      <4> QED
        BY <2>5, <3>3, <4>1 DEF Removing
    <3> QED
      BY <3>2, <3>3
  <2>7. PlaceOk(k)
    BY <1>1, <1>2, <1>3, <2>5 DEF PlaceOk, Shows, Declares
  <2>8. FreshOk(k)' /\ SeesOk(k)' /\ KeepsOk(k)' /\ HoldsOk(c, k)'
    BY <1>1, <1>2, <1>3, <1>6, <2>5 DEF FreshOk, SeesOk, KeepsOk, HoldsOk, AtConnection
  <2> QED
    BY <1>1, <1>6, <2>2, <2>3, <2>5, <2>6, <2>7, <2>8, FileTurn
<1>7. CASE /\ binding[r] = None /\ Unlists(r) /\ UNCHANGED <<conn, work>>
           /\ Now(c, [cmd[c] EXCEPT !.pc = "clear", !.then = then])
  BY <1>6, <1>7
<1>8. CASE /\ binding[r] # None /\ Removable(c) /\ Unlists(r) /\ conn' = c /\ UNCHANGED work
           /\ Now(c, [cmd[c] EXCEPT !.pc = "unbind", !.then = then])
  BY <1>6, <1>8 DEF Removable
<1> QED
  BY <1>5, <1>7, <1>8 DEF Unlist

LEMMA UnbindStep ==
    ASSUME ContextAssumption, CtxInv, NEW c \in Commands, Unbind(c) PROVE CtxInv'
<1> DEFINE m == cmd[c].mem
           r == m.rev
<1>1. /\ cmd[c].pc = "unbind" /\ conn' = None /\ Goes(c, "clear")
      /\ binding' = [binding EXCEPT ![r] = None] /\ cut' = cut \ {r}
      /\ UNCHANGED <<head, last, posted, lease, rec, entry, auth, work, audit, owner, minted, accepted,
                     calm>>
  BY DEF Unbind, remote
<1>2. /\ cmd[c] \in CmdRecs /\ PlaceOk(cmd[c]) /\ FreshOk(cmd[c]) /\ SeesOk(cmd[c])
      /\ HoldsOk(c, cmd[c])
  BY Kept1
<1>3. /\ work = c /\ conn = c /\ m.packet \in Handles /\ r \in Revs
      /\ cmd[c].then \in {"mint", "idle"} /\ conn # None
  BY <1>1, <1>2 DEF HoldsOk, PlaceOk, AtWork, AtConnection, ContextAssumption
<1>4. SharedTyped
  BY Kept1
<1>5. /\ \A q \in Revs \ {r} : binding'[q] = binding[q]
      /\ binding'[r] = None /\ binding' \in [Revs -> Bindings \cup {None}]
  <2>1. binding \in [Revs -> Bindings \cup {None}]
    BY <1>4 DEF SharedTyped
  <2> QED
    BY <1>1, <1>3, <2>1
<1>6. SharedTyped' /\ AuditOk'
  BY <1>1, <1>4, <1>5, Kept1 DEF SharedTyped, WellListed, AuditOk
<1>7. OwnerOk'
  BY <1>1, <1>3, Kept1 DEF OwnerOk, ContextAssumption
<1>8. BindingsOk'
  BY <1>1, <1>5, Kept1 DEF BindingsOk
<1> PICK k \in CmdRecs : k = [cmd[c] EXCEPT !.pc = "clear"]
  BY <1>2 DEF CmdRecs, Pcs
<1>9. /\ Now(c, k) /\ k.pc = "clear" /\ k.s = cmd[c].s /\ k.mem = m /\ k.fresh = cmd[c].fresh
      /\ k.input = cmd[c].input /\ k.then = cmd[c].then
  BY <1>1, <1>2 DEF Goes, CmdRecs
<1>10. BindingIsFound'
  <2>1. \A q \in Revs \ {r} : Removing(q) => Removing(q)'
    BY <1>9, StillRemoving
  <2> QED
    BY <1>1, <1>5, <2>1, Kept1 DEF BindingIsFound
<1>11. PlaceOk(k)
  BY <1>1, <1>2, <1>3, <1>9 DEF PlaceOk, Shows, Declares
<1>12. FreshOk(k)' /\ SeesOk(k)' /\ KeepsOk(k)' /\ HoldsOk(c, k)'
  BY <1>1, <1>2, <1>3, <1>9 DEF FreshOk, SeesOk, KeepsOk, HoldsOk, AtConnection
<1> QED
  BY <1>1, <1>3, <1>6, <1>7, <1>8, <1>9, <1>10, <1>11, <1>12, FileTurn

(* The preparation of a packet.                                            *)

\* A record that says the same, or is saved.
LEMMA NotesEndTurn ==
    ASSUME ContextAssumption, CtxInv, NEW c \in Commands, NEW r \in RecRecs, Notes(c, r, Idle), Around,
           cmd[c].pc \notin {"idle", "unbind"}, cmd[c].fresh => RecordOk(r)
    PROVE  CtxInv'
<1>1. CASE r = cmd[c].mem
  <2>1. Ends(c) /\ UNCHANGED rec
    BY <1>1, IdleIsOk DEF Notes, Ends
  <2> QED
    BY <2>1, EndTurn
<1>2. CASE r # cmd[c].mem
  <2>1. Save(c, r, Idle)
    BY <1>2 DEF Notes
  <2> QED
    BY <2>1, IdleIsOk, SaveTurn
<1> QED
  BY <1>1, <1>2

\* A command on its way to a packet: no attachment, and what it says of it.
Preparing(m) == m.stage = "preparing" /\ m.att = "none"
LEMMA PreparingOk ==
    ASSUME ContextAssumption, CtxInv, NEW c \in Commands, cmd[c].pc # "idle",
           NEW k \in CmdRecs, k.s = cmd[c].s, k.input = cmd[c].input, RecordOk(k.mem), Preparing(k.mem),
           k.pc \in {"reload", "fetch", "record", "order"},
           k.pc \in {"reload", "order"} => k.mem.packet \in Handles,
           k.pc = "record" => k.handle \in Handles
    PROVE  PlaceOk(k) /\ SeesOk(k) /\ KeepsOk(k) /\ HoldsOk(c, k)
<1>1. PlaceOk(cmd[c]) /\ SeesOk(cmd[c])
  BY Kept1
<1>2. PlaceOk(k)
  BY <1>1 DEF PlaceOk, AtWork, Shows, Declares, Preparing, RecordOk
<1>3. SeesOk(k) /\ KeepsOk(k) /\ HoldsOk(c, k)
  BY <1>1 DEF SeesOk, KeepsOk, HoldsOk, AtWork, AtConnection
<1> QED
  BY <1>2, <1>3

LEMMA PrepareStep ==
    ASSUME ContextAssumption, CtxInv, NEW c \in Commands, Prepare(c) PROVE CtxInv'
<1> DEFINE m == cmd[c].mem
           kind == cmd[c].kind
<1>1. /\ cmd[c].pc = "prepare" /\ conn = None
      /\ UNCHANGED <<remote, lease, binding, conn, audit, owner, ghosts>>
  BY DEF Prepare
<1>2. /\ cmd[c] \in CmdRecs /\ m \in RecRecs /\ ValidRecord(m) /\ cmd[c].fresh \in BOOLEAN
      /\ cmd[c].fresh => RecordOk(m)
  BY Kept1, Forms DEF CmdRecs
<1>3. CASE Ends(c) /\ UNCHANGED <<rec, auth, entry>>
  <2>1. Around
    BY <1>1, <1>3, AskedAround
  <2> QED
    BY <1>1, <1>3, <2>1, EndTurn
<1>4. CASE /\ m.stage = "prepared" /\ Granted(m.packet) /\ Notes(c, Ready(c), Idle) /\ UNCHANGED entry
  <2>1. Around
    BY <1>1, <1>4, AskedAround
  <2>2. Ready(c) \in RecRecs /\ (cmd[c].fresh => RecordOk(Ready(c)))
    BY <1>4, Forms
  <2> QED
    BY <1>1, <1>4, <2>1, <2>2, NotesEndTurn
<1>5. CASE /\ ~Settled(m) /\ Denied(m.packet)
           /\ SaveAndEnd(c, [Failed(c) EXCEPT !.stage = "preparing", !.packet = None])
  <2>1. Around
    BY <1>1, <1>5, AskedAround
  <2> DEFINE q == [Failed(c) EXCEPT !.stage = "preparing", !.packet = None]
  <2>2. /\ q \in RecRecs /\ q.stage = "preparing" /\ q.att = m.att /\ q.rev = m.rev
        /\ q.context = "failed"
    BY <1>2 DEF Failed, RecRecs, Stages, Contexts
  <2>3. SaveAndEnd(c, q)
    BY <1>5
  <2> HIDE DEF q
  <2>4. cmd[c].fresh => RecordOk(q)
    BY <1>2, <1>5, <2>2 DEF RecordOk, ValidRecord, Settled, Stages, AttachmentStates, Intents
  <2> QED
    BY <1>1, <2>1, <2>2, <2>3, <2>4, SaveEndTurn
<1>6. CASE /\ ~Settled(m) /\ UNCHANGED <<auth, entry>>
           /\ m.stage = "prepared" \/ (m.stage = "preparing" /\ m.packet # None)
           /\ SaveAndGo(c, [m EXCEPT !.stage = "preparing"], "reload")
  <2>1. Around
    BY <1>1, <1>6, AskedAround
  <2>2. [m EXCEPT !.stage = "preparing"] \in RecRecs
    BY <1>2 DEF RecRecs, Stages
  <2> PICK q \in RecRecs : q = [m EXCEPT !.stage = "preparing"]
    BY <2>2
  <2>3. /\ q.stage = "preparing" /\ q.att = m.att /\ q.rev = m.rev /\ q.context = m.context
        /\ q.packet = m.packet
    BY <1>2 DEF RecRecs
  <2>4. m.packet \in Handles /\ q.att = "none"
    BY <1>2, <1>6, <2>3 DEF ValidRecord, Settled, AttachmentStates, Intents, RecRecs
  <2>5. RecordOk(q)
    BY <1>2, <2>3, <2>4 DEF RecordOk, ValidRecord, Stages, AttachmentStates, Intents
  <2>6. ASSUME NEW k \in CmdRecs, k.pc = "reload", k.mem = q, k.s = cmd[c].s, k.input = cmd[c].input
        PROVE  PlaceOk(k) /\ SeesOk(k) /\ KeepsOk(k) /\ HoldsOk(c, k)
    BY <1>1, <2>3, <2>4, <2>5, <2>6, PreparingOk DEF Preparing
  <2>7. "reload" \in Pcs \ ({"idle"} \cup AtConnection)
    BY DEF Pcs, AtConnection
  <2> QED
    BY <1>1, <1>6, <2>1, <2>5, <2>6, <2>7, SaveGoTurn
<1>7. CASE UNCHANGED <<auth, entry>> /\ SaveAndGo(c, Restart(c), "fetch")
  <2>1. Around
    BY <1>1, <1>7, AskedAround
  <2>2. /\ Restart(c) \in RecRecs /\ Restart(c).stage = "preparing" /\ Restart(c).att = "none"
        /\ Restart(c).rev = None /\ Restart(c).context = "unchecked"
    <3>1. 0 \in Heads
      BY DEF Heads, ContextAssumption
    <3> QED
      BY <1>2, <3>1 DEF Restart, Bare, RecRecs, Stages, AttachmentStates, Contexts
  <2> PICK q \in RecRecs : q = Restart(c)
    BY <2>2
  <2>3. RecordOk(q) /\ Preparing(q)
    BY <2>2 DEF RecordOk, ValidRecord, Stages, AttachmentStates, Intents, Preparing
  <2>4. ASSUME NEW k \in CmdRecs, k.pc = "fetch", k.mem = q, k.s = cmd[c].s, k.input = cmd[c].input
        PROVE  PlaceOk(k) /\ SeesOk(k) /\ KeepsOk(k) /\ HoldsOk(c, k)
    BY <1>1, <2>3, <2>4, PreparingOk
  <2>5. "fetch" \in Pcs \ ({"idle"} \cup AtConnection)
    BY DEF Pcs, AtConnection
  <2> QED
    BY <1>1, <1>7, <2>1, <2>3, <2>4, <2>5, SaveGoTurn
<1> QED
  BY <1>3, <1>4, <1>5, <1>6, <1>7 DEF Prepare

LEMMA ReloadStep ==
    ASSUME ContextAssumption, CtxInv, NEW c \in Commands, Reload(c) PROVE CtxInv'
<1> DEFINE m == cmd[c].mem
<1>1. /\ cmd[c].pc = "reload" /\ conn = None
      /\ UNCHANGED <<remote, lease, binding, conn, audit, owner, ghosts>>
      /\ \/ Granted(m.packet) /\ UNCHANGED entry
         \/ Denied(m.packet)
  BY DEF Reload
<1>2. /\ cmd[c] \in CmdRecs /\ PlaceOk(cmd[c]) /\ FreshOk(cmd[c]) /\ SeesOk(cmd[c])
      /\ cmd[c].fresh \in BOOLEAN
  BY Kept1 DEF CmdRecs
<1>3. m.packet \in Handles /\ m.stage = "preparing" /\ m.att = "none" /\ ValidRecord(m)
  BY <1>1, <1>2 DEF PlaceOk
<1>4. /\ Failed(c) \in RecRecs /\ Ready(c) \in RecRecs
      /\ cmd[c].fresh => RecordOk(Failed(c)) /\ RecordOk(Ready(c))
      /\ Ready(c).packet = m.packet /\ Ready(c).att = m.att /\ Ready(c).stage = m.stage
  BY <1>3, Forms
<1>5. Around
  BY <1>1, AskedAround
<1>6. CASE SaveAndEnd(c, Failed(c))
  BY <1>1, <1>4, <1>5, <1>6, SaveEndTurn
<1> PICK q \in RecRecs : q = Ready(c)
  BY <1>4
<1> PICK v \in CmdRecs : v = [cmd[c] EXCEPT !.pc = "order", !.mem = q]
  BY <1>2 DEF CmdRecs, Pcs
<1>7. /\ v.pc = "order" /\ v.s = cmd[c].s /\ v.mem = q /\ v.fresh = cmd[c].fresh
      /\ v.input = cmd[c].input
  BY <1>2 DEF CmdRecs
<1>8. CASE q = m /\ Now(c, v) /\ UNCHANGED <<rec, work>>
  <2>1. PlaceOk(v)
    BY <1>1, <1>2, <1>3, <1>7, <1>8 DEF PlaceOk, AtWork, Shows, Declares
  <2>2. SeesOk(v) /\ KeepsOk(v) /\ HoldsOk(c, v) /\ FreshOk(v)
    BY <1>2, <1>7, <1>8 DEF SeesOk, KeepsOk, HoldsOk, FreshOk, AtWork, AtConnection
  <2> QED
    BY <1>1, <1>5, <1>8, <2>1, <2>2, OwnTurn
<1>9. CASE Save(c, q, v)
  <2> PICK k \in CmdRecs : k = [v EXCEPT !.mem = q, !.fresh = TRUE]
    BY DEF CmdRecs
  <2>1. k.pc = "order" /\ k.s = cmd[c].s /\ k.mem = q /\ k.input = cmd[c].input
    BY <1>7 DEF CmdRecs
  <2>2. cmd[c].fresh => PlaceOk(k) /\ SeesOk(k) /\ KeepsOk(k) /\ HoldsOk(c, k)
    BY <1>1, <1>3, <1>4, <2>1, PreparingOk DEF Preparing
  <2> QED
    BY <1>1, <1>4, <1>5, <1>7, <1>9, <2>2, SaveTurn DEF AtConnection
<1> QED
  BY <1>6, <1>7, <1>8, <1>9 DEF Reload, Notes

LEMMA FetchStep ==
    ASSUME ContextAssumption, CtxInv, NEW c \in Commands, Fetch(c) PROVE CtxInv'
<1> DEFINE m == cmd[c].mem
<1>1. cmd[c].pc = "fetch" /\ conn = None /\ UNCHANGED <<remote, lease, audit, owner, ghosts>>
  BY DEF Fetch
<1>2. /\ cmd[c] \in CmdRecs /\ PlaceOk(cmd[c]) /\ FreshOk(cmd[c]) /\ SeesOk(cmd[c])
  BY Kept1
<1>3. m.stage = "preparing" /\ m.att = "none" /\ ValidRecord(m)
  BY <1>1, <1>2 DEF PlaceOk
<1>4. Failed(c) \in RecRecs /\ (cmd[c].fresh => RecordOk(Failed(c)))
  BY <1>3, Forms
<1>5. CASE /\ Outage \/ UNCHANGED <<auth, entry>>
           /\ SaveAndEnd(c, Failed(c)) /\ UNCHANGED <<conn, binding>>
  <2>1. Around
    BY <1>1, <1>5, AskedAround
  <2> QED
    BY <1>1, <1>4, <1>5, <2>1, SaveEndTurn
<1>6. CASE /\ UNCHANGED <<auth, entry, conn, binding, rec, work>> /\ Loads(entry.handle)
           /\ Now(c, [cmd[c] EXCEPT !.pc = "record", !.handle = entry.handle])
  <2>1. Around
    BY <1>1, <1>6, AskedAround
  <2>2. entry.handle \in Handles
    BY <1>6, Kept1 DEF Loads, SharedTyped, WellListed
  <2> PICK k \in CmdRecs : k = [cmd[c] EXCEPT !.pc = "record", !.handle = entry.handle]
    BY <1>2, <2>2 DEF CmdRecs, Pcs
  <2>3. /\ k.pc = "record" /\ k.s = cmd[c].s /\ k.mem = m /\ k.fresh = cmd[c].fresh
        /\ k.input = cmd[c].input /\ k.handle \in Handles
    BY <1>2, <2>2 DEF CmdRecs
  <2>4. PlaceOk(k)
    BY <1>1, <1>2, <1>3, <2>3 DEF PlaceOk, AtWork, Shows, Declares
  <2>5. SeesOk(k) /\ KeepsOk(k) /\ HoldsOk(c, k) /\ FreshOk(k)
    BY <1>2, <2>3 DEF SeesOk, KeepsOk, HoldsOk, FreshOk, AtWork, AtConnection
  <2> QED
    BY <1>1, <1>6, <2>1, <2>4, <2>5, OwnTurn
<1>7. CASE /\ conn' = c /\ Goes(c, "index") /\ UNCHANGED <<auth, entry, rec, work>>
           /\ binding' = [r \in Revs |-> IF r \in Listed THEN None ELSE binding[r]]
  <2>1. UNCHANGED <<head, last, posted, lease, audit, owner, minted, accepted, cut, calm>>
    BY <1>1 DEF remote, ghosts
  <2>2. SharedTyped
    BY Kept1
  <2>3. /\ \A r \in Revs : binding'[r] = IF r \in Listed THEN None ELSE binding[r]
        /\ binding' \in [Revs -> Bindings \cup {None}] /\ Listed \subseteq Revs
    BY <1>7, <2>2 DEF SharedTyped, Listed, WellListed
  <2>4. SharedTyped'
    BY <1>7, <2>1, <2>2, <2>3 DEF SharedTyped, WellListed
  <2>5. BindingsOk' /\ AuditOk'
    BY <2>1, <2>3, Kept1 DEF BindingsOk, AuditOk
  <2>6. OwnerOk' /\ Emptied'
    BY <1>1, <1>7, <2>1, <2>3, Kept1 DEF OwnerOk, Emptied, Listed, ContextAssumption
  <2> PICK k \in CmdRecs : k = [cmd[c] EXCEPT !.pc = "index"]
    BY <1>2 DEF CmdRecs, Pcs
  <2>7. /\ Now(c, k) /\ k.pc = "index" /\ k.s = cmd[c].s /\ k.mem = m /\ k.fresh = cmd[c].fresh
        /\ k.input = cmd[c].input
    BY <1>2, <1>7 DEF Goes, CmdRecs
  <2>8. BindingIsFound'
    <3>1. \A q \in Revs : Removing(q) => Removing(q)'
      BY <1>1, <2>7, StillRemoving
    <3>2. \A q \in Revs : q \notin Listed => ~(entry # None /\ q \in entry.listed)
      BY DEF Listed
    <3> QED
      BY <2>1, <2>3, <3>1, <3>2, Kept1 DEF BindingIsFound
  <2>9. PlaceOk(k)
    BY <1>1, <1>2, <1>3, <2>7 DEF PlaceOk, AtWork, Shows, Declares
  <2>10. FreshOk(k)' /\ SeesOk(k)' /\ KeepsOk(k)' /\ HoldsOk(c, k)'
    BY <1>2, <1>7, <2>1, <2>6, <2>7 DEF FreshOk, SeesOk, KeepsOk, HoldsOk, AtWork, AtConnection
  <2> QED
    BY <1>1, <1>7, <2>1, <2>4, <2>5, <2>6, <2>7, <2>8, <2>9, <2>10, FileTurn
<1> QED
  BY <1>1, <1>5, <1>6, <1>7 DEF Fetch

LEMMA IndexStep ==
    ASSUME ContextAssumption, CtxInv, NEW c \in Commands, Index(c) PROVE CtxInv'
<1> DEFINE m == cmd[c].mem
<1>1. PICK h \in Handles :
        /\ Now(c, [cmd[c] EXCEPT !.pc = "retrieve", !.handle = h])
        /\ entry' = [handle |-> h, whole |-> FALSE, current |-> TRUE, listed |-> {}]
  BY DEF Index
<1>2. /\ cmd[c].pc = "index"
      /\ UNCHANGED <<head, last, posted, lease, rec, binding, auth, work, conn, audit, owner, minted,
                     accepted, cut, calm>>
  BY DEF Index, remote, locks, ghosts
<1>3. /\ cmd[c] \in CmdRecs /\ PlaceOk(cmd[c]) /\ FreshOk(cmd[c]) /\ SeesOk(cmd[c])
      /\ HoldsOk(c, cmd[c]) /\ KeepsOk(cmd[c])
  BY Kept1
<1>4. conn = c /\ Emptied /\ m.stage = "preparing" /\ m.att = "none"
  BY <1>2, <1>3 DEF HoldsOk, KeepsOk, PlaceOk, AtConnection
<1>5. /\ entry' \in Entries /\ entry' # None /\ entry'.listed = {} /\ entry'.handle \in Handles
      /\ IsFiniteSet({}) /\ Cardinality({}) = 0 /\ MaxListed \in Nat
  <2>1. /\ entry' \in Entries /\ entry'.listed = {} /\ entry'.handle \in Handles
    BY <1>1 DEF Entries
  <2>2. None \notin Entries /\ MaxListed \in Nat
    BY DEF ContextAssumption
  <2> QED
    BY <2>1, <2>2, FS_EmptySet
<1>6. SharedTyped' /\ AuditOk' /\ BindingsOk'
  <2>1. SharedTyped'
    BY <1>2, <1>5, Kept1 DEF SharedTyped, WellListed
  <2>2. AuditOk' /\ BindingsOk'
    BY <1>2, Kept1 DEF AuditOk, BindingsOk
  <2> QED
    BY <2>1, <2>2
<1>7. OwnerOk'
  BY <1>2, <1>4, Kept1 DEF OwnerOk, ContextAssumption
<1> PICK k \in CmdRecs : k = [cmd[c] EXCEPT !.pc = "retrieve", !.handle = h]
  BY <1>3 DEF CmdRecs, Pcs
<1>8. /\ Now(c, k) /\ k.pc = "retrieve" /\ k.s = cmd[c].s /\ k.mem = m /\ k.fresh = cmd[c].fresh
      /\ k.input = cmd[c].input /\ k.handle = h
  BY <1>1, <1>3 DEF CmdRecs
<1>9. BindingIsFound'
  <2>1. \A q \in Revs : Removing(q) => Removing(q)'
    BY <1>2, <1>8, StillRemoving
  <2> QED
    BY <1>2, <1>4, <2>1, Kept1 DEF BindingIsFound, Emptied, Listed
<1>10. PlaceOk(k)
  BY <1>2, <1>3, <1>4, <1>8 DEF PlaceOk, AtWork, Shows, Declares
<1>11. FreshOk(k)' /\ SeesOk(k)' /\ KeepsOk(k)' /\ HoldsOk(c, k)'
  BY <1>2, <1>3, <1>4, <1>5, <1>8 DEF FreshOk, SeesOk, KeepsOk, HoldsOk, AtWork, AtConnection
<1> QED
  BY <1>2, <1>4, <1>6, <1>7, <1>8, <1>9, <1>10, <1>11, FileTurn

LEMMA RetrieveStep ==
    ASSUME ContextAssumption, CtxInv, NEW c \in Commands, Retrieve(c) PROVE CtxInv'
<1> DEFINE m == cmd[c].mem
<1>1. /\ cmd[c].pc = "retrieve" /\ conn' = None
      /\ UNCHANGED <<head, last, posted, lease, binding, auth, audit, owner, minted, accepted, cut, calm>>
  BY DEF Retrieve, remote, ghosts
<1>2. /\ cmd[c] \in CmdRecs /\ PlaceOk(cmd[c]) /\ FreshOk(cmd[c]) /\ SeesOk(cmd[c])
      /\ HoldsOk(c, cmd[c]) /\ KeepsOk(cmd[c])
  BY Kept1
<1>3. /\ conn = c /\ conn # None /\ entry # None /\ m.stage = "preparing" /\ m.att = "none"
      /\ cmd[c].handle \in Handles
  BY <1>1, <1>2 DEF HoldsOk, KeepsOk, PlaceOk, AtConnection, ContextAssumption
<1>4. SharedTyped
  BY Kept1
<1>5. CASE SaveAndEnd(c, Failed(c)) /\ UNCHANGED entry
  <2>1. Near(c)
    BY <1>1, <1>3, <1>4, <1>5 DEF Near, EntryStays, SharedTyped, remote
  <2>2. Failed(c) \in RecRecs /\ (cmd[c].fresh => RecordOk(Failed(c)))
    BY <1>3, Forms
  <2> QED
    BY <1>1, <1>5, <2>1, <2>2, IdleIsOk, SaveTurn DEF SaveAndEnd
<1>6. CASE entry' = [entry EXCEPT !.whole = TRUE] /\ Goes(c, "record") /\ UNCHANGED <<rec, work>>
  <2>1. entry \in Entries
    BY <1>3, <1>4 DEF SharedTyped
  <2>2. /\ entry' \in Entries /\ entry' # None /\ entry'.listed = entry.listed
        /\ entry'.handle = entry.handle
    BY <1>6, <2>1 DEF Entries, ContextAssumption
  <2>3. SharedTyped' /\ AuditOk' /\ BindingsOk'
    <3>1. SharedTyped'
      BY <1>1, <1>3, <1>4, <1>6, <2>2 DEF SharedTyped, WellListed
    <3>2. AuditOk' /\ BindingsOk'
      BY <1>1, Kept1 DEF AuditOk, BindingsOk
    <3> QED
      BY <3>1, <3>2
  <2>4. OwnerOk'
    BY <1>1, <1>3, Kept1 DEF OwnerOk, ContextAssumption
  <2> PICK k \in CmdRecs : k = [cmd[c] EXCEPT !.pc = "record"]
    BY <1>2 DEF CmdRecs, Pcs
  <2>5. /\ Now(c, k) /\ k.pc = "record" /\ k.s = cmd[c].s /\ k.mem = m /\ k.fresh = cmd[c].fresh
        /\ k.input = cmd[c].input /\ k.handle = cmd[c].handle
    BY <1>2, <1>6 DEF Goes, CmdRecs
  <2>6. BindingIsFound'
    <3>1. \A q \in Revs : Removing(q) => Removing(q)'
      BY <1>1, <2>5, StillRemoving
    <3> QED
      BY <1>1, <1>3, <2>2, <3>1, Kept1 DEF BindingIsFound
  <2>7. PlaceOk(k)
    BY <1>1, <1>2, <1>3, <2>5 DEF PlaceOk, AtWork, Shows, Declares
  <2>8. FreshOk(k)' /\ SeesOk(k)' /\ KeepsOk(k)' /\ HoldsOk(c, k)'
    BY <1>1, <1>2, <1>6, <2>5 DEF FreshOk, SeesOk, KeepsOk, HoldsOk, AtWork, AtConnection
  <2> QED
    BY <1>1, <1>3, <1>6, <2>3, <2>4, <2>5, <2>6, <2>7, <2>8, FileTurn
<1> QED
  BY <1>5, <1>6 DEF Retrieve

LEMMA RecordStep ==
    ASSUME ContextAssumption, CtxInv, NEW c \in Commands, Record(c) PROVE CtxInv'
<1> DEFINE m == cmd[c].mem
<1>1. cmd[c].pc = "record" /\ Around
  BY StillAround DEF Record
<1>2. cmd[c] \in CmdRecs /\ PlaceOk(cmd[c])
  BY Kept1
<1>3. /\ cmd[c].handle \in Handles /\ m.stage = "preparing" /\ m.att = "none" /\ ValidRecord(m)
      /\ m \in RecRecs
  BY <1>1, <1>2 DEF PlaceOk, CmdRecs
<1>4. [Ready(c) EXCEPT !.packet = cmd[c].handle] \in RecRecs
  BY <1>3 DEF Ready, RecRecs, Contexts
<1> PICK q \in RecRecs : q = [Ready(c) EXCEPT !.packet = cmd[c].handle]
  BY <1>4
<1>5. /\ q.packet = cmd[c].handle /\ q.stage = "preparing" /\ q.att = "none" /\ q.rev = m.rev
      /\ q.context = "ready"
  BY <1>3 DEF Ready, RecRecs
<1>6. RecordOk(q)
  BY <1>3, <1>5 DEF RecordOk, ValidRecord, Stages, AttachmentStates, Intents
<1>7. ASSUME NEW k \in CmdRecs, k.pc = "order", k.mem = q, k.s = cmd[c].s, k.input = cmd[c].input
      PROVE  PlaceOk(k) /\ SeesOk(k) /\ KeepsOk(k) /\ HoldsOk(c, k)
  BY <1>1, <1>3, <1>5, <1>6, <1>7, PreparingOk DEF Preparing
<1>8. "order" \in Pcs \ ({"idle"} \cup AtConnection)
  BY DEF Pcs, AtConnection
<1>9. SaveAndGo(c, q, "order")
  BY DEF Record
<1> QED
  BY <1>1, <1>6, <1>7, <1>8, <1>9, SaveGoTurn

LEMMA OrderStep ==
    ASSUME ContextAssumption, CtxInv, NEW c \in Commands, Order(c) PROVE CtxInv'
<1> DEFINE m == cmd[c].mem
<1>1. cmd[c].pc = "order" /\ Around
  BY StillAround DEF Order
<1>2. cmd[c] \in CmdRecs /\ PlaceOk(cmd[c])
  BY Kept1
<1>3. m.packet \in Handles /\ m.att = "none" /\ ValidRecord(m) /\ m \in RecRecs
  BY <1>1, <1>2 DEF PlaceOk, CmdRecs
<1>4. [m EXCEPT !.stage = "prepared"] \in RecRecs
  BY <1>3 DEF RecRecs, Stages
<1> PICK q \in RecRecs : q = [m EXCEPT !.stage = "prepared"]
  BY <1>4
<1>5. /\ q.packet \in Handles /\ q.stage = "prepared" /\ q.att = "none" /\ q.rev = m.rev
      /\ q.context = m.context
  BY <1>3 DEF RecRecs
<1>6. RecordOk(q)
  BY <1>3, <1>5 DEF RecordOk, ValidRecord, Stages, AttachmentStates, Intents
<1> QED
  BY <1>1, <1>6, SaveEndTurn DEF Order

(* deliver_session and feedback_session.                                   *)
LEMMA LoadStep ==
    ASSUME ContextAssumption, CtxInv, NEW c \in Commands, Load(c) PROVE CtxInv'
<1>1. /\ cmd[c].pc = "load" /\ conn = None
      /\ UNCHANGED <<remote, lease, binding, conn, audit, owner, ghosts>>
      /\ \/ Granted(cmd[c].mem.packet) /\ UNCHANGED entry
         \/ Denied(cmd[c].mem.packet)
  BY DEF Load
<1>2. Around
  BY <1>1, AskedAround
<1>3. cmd[c].mem.packet \in Handles /\ ValidRecord(cmd[c].mem)
  BY <1>1, Kept1 DEF PlaceOk
<1>4. cmd[c].mem.stage # "selected"
  BY <1>3 DEF ValidRecord, NewRecord, ContextAssumption
<1>5. /\ Failed(c) \in RecRecs /\ Ready(c) \in RecRecs
      /\ cmd[c].fresh => RecordOk(Failed(c)) /\ RecordOk(Ready(c))
  BY <1>4, Forms
<1> QED
  BY <1>1, <1>2, <1>5, NotesEndTurn, SaveEndTurn DEF Load

LEMMA ShowStep ==
    ASSUME ContextAssumption, CtxInv, NEW c \in Commands, Show(c) PROVE CtxInv'
<1> DEFINE m == cmd[c].mem
           b == binding[m.rev]
           h == b.handle
<1>1. /\ cmd[c].pc = "show" /\ conn = None
      /\ UNCHANGED <<remote, lease, binding, conn, audit, owner, ghosts>>
      /\ UNCHANGED <<auth, entry>> \/ Denied(h) \/ (Granted(h) /\ UNCHANGED entry)
  BY DEF Show
<1>2. Around
  BY <1>1, AskedAround
<1>3. m.att = "published" /\ ValidRecord(m) /\ m \in RecRecs /\ cmd[c].fresh \in BOOLEAN
  BY <1>1, Kept1 DEF PlaceOk, Shows, CmdRecs
<1>4. m.rev \in Revs /\ m.packet \in Handles
  BY <1>3 DEF ValidRecord, Stages, Intents
<1>5. /\ Failed(c) \in RecRecs /\ Ready(c) \in RecRecs
      /\ cmd[c].fresh => RecordOk(m) /\ RecordOk(Failed(c)) /\ RecordOk(Ready(c))
  BY <1>3, Forms
<1>6. CASE SaveAndEnd(c, Failed(c)) \/ Notes(c, Ready(c), Idle)
  BY <1>1, <1>2, <1>5, <1>6, NotesEndTurn, SaveEndTurn
<1>7. CASE Ends(c) /\ UNCHANGED rec
  BY <1>1, <1>2, <1>7, EndTurn
<1>8. CASE b # None /\ b.feedback /\ SaveAndEnd(c, [Ready(c) EXCEPT !.stage = "reviewed"])
  <2>1. [Ready(c) EXCEPT !.stage = "reviewed"] \in RecRecs
    BY <1>3 DEF Ready, RecRecs, Stages, Contexts
  <2> PICK q \in RecRecs : q = [Ready(c) EXCEPT !.stage = "reviewed"]
    BY <2>1
  <2>2. /\ q.packet = m.packet /\ q.stage = "reviewed" /\ q.att = m.att /\ q.rev = m.rev
        /\ q.context = "ready"
    BY <1>3 DEF Ready, RecRecs
  <2>3. m.rev \in accepted
    BY <1>4, <1>8, Kept1 DEF BindingsOk
  <2>4. cmd[c].fresh => RecordOk(q)
    BY <1>3, <1>4, <1>5, <2>2, <2>3 DEF RecordOk, ValidRecord, Stages, Intents
  <2> QED
    BY <1>1, <1>2, <1>8, <2>4, SaveEndTurn
<1> QED
  BY <1>6, <1>7, <1>8 DEF Show, IsCurrent

\* A command that is killed lets go of its locks.
LEMMA CrashStep ==
    ASSUME ContextAssumption, CtxInv, NEW c \in Commands, Crash(c) PROVE CtxInv'
<1>1. /\ Now(c, Idle) /\ work' = Leaves(c, work) /\ conn' = Leaves(c, conn)
      /\ cut' = IF cmd[c].pc = "unbind" THEN cut \cup {cmd[c].mem.rev} ELSE cut
      /\ UNCHANGED <<head, last, posted, lease, rec, entry, binding, auth, audit, owner, minted,
                     accepted, calm>>
  BY DEF Crash, remote, local
<1>2. SharedTyped
  BY Kept1
<1>3. cmd[c].pc = "unbind" => cmd[c].mem.rev \in Revs
  BY Kept1 DEF PlaceOk
<1>4. work' \in Commands \cup {None} /\ conn' \in Commands \cup {Owner, None} /\ cut' \subseteq Revs
      /\ cut \subseteq cut'
  BY <1>1, <1>2, <1>3 DEF SharedTyped, Leaves
<1>5. SharedTyped' /\ AuditOk' /\ BindingsOk'
  <2>1. SharedTyped'
    BY <1>1, <1>2, <1>4 DEF SharedTyped, WellListed
  <2>2. AuditOk' /\ BindingsOk'
    BY <1>1, Kept1 DEF AuditOk, BindingsOk
  <2> QED
    BY <2>1, <2>2
<1>6. OwnerOk'
  BY <1>1, Kept1 DEF OwnerOk, Emptied, Listed, Leaves, ContextAssumption
<1> PICK k \in CmdRecs : k = Idle
  BY IdleIsOk
<1>7. PlaceOk(k) /\ FreshOk(k)' /\ SeesOk(k)' /\ KeepsOk(k)' /\ HoldsOk(c, k)'
  <2>1. k.pc = "idle" /\ ~k.fresh /\ k.input = None
    BY DEF Idle
  <2>2. PlaceOk(k)
    BY IdleIsOk DEF CommandOk
  <2> QED
    BY <2>1, <2>2 DEF FreshOk, SeesOk, KeepsOk, HoldsOk, AtWork, AtConnection
<1>8. BindingIsFound'
  <2>1. \A q \in Revs : Removing(q) => Removing(q)' \/ q \in cut'
    BY <1>1, StillRemoving
  <2> QED
    BY <1>1, <1>4, <2>1, Kept1 DEF BindingIsFound
<1> QED
  BY <1>1, <1>5, <1>6, <1>7, <1>8, FileTurn DEF Leaves

(* The reviewer, the owner of the connection and what comes between: no    *)
(* command takes these steps.                                              *)
LEMMA WorldTurn ==
    ASSUME ContextAssumption, CtxInv, UNCHANGED <<rec, cmd, work, last, posted>>,
           conn \in Commands => UNCHANGED <<conn, entry, binding>>,
           accepted \subseteq accepted',
           SharedTyped', BindingsOk', OwnerOk', AuditOk', BindingIsFound'
    PROVE  CtxInv'
<1>1. Owner \notin Commands /\ Commands \ {Owner} = Commands
  BY DEF ContextAssumption
<1>2. Apart(Owner)
  BY <1>1 DEF Apart
<1>3. OwnTyped'
  BY Kept1 DEF OwnTyped
<1>4. RecordsOk'
  BY Kept1 DEF RecordsOk, RecordOk
<1>5. \A d \in Commands : CommandOk(d, cmd[d])'
  BY <1>1, <1>2, OthersKeep
<1> QED
  BY <1>3, <1>4, <1>5 DEF CtxInv

\* Nothing is bound, unbound, listed or unlisted.
LEMMA WorldAround ==
    ASSUME ContextAssumption, CtxInv, UNCHANGED <<rec, cmd, work, last, posted, binding, accepted, cut>>,
           conn \in Commands => UNCHANGED <<conn, entry>>,
           EntryStays, SharedTyped', OwnerOk', AuditOk'
    PROVE  CtxInv'
<1>1. SharedTyped
  BY Kept1
<1>2. BindingIsFound'
  BY <1>1, EntryKept, Kept1 DEF BindingIsFound, Removing
<1>3. BindingsOk'
  BY Kept1 DEF BindingsOk
<1> QED
  BY <1>2, <1>3, WorldTurn

LEMMA AuditLooks ==
    ASSUME ContextAssumption, CtxInv, AuditBegin \/ AuditInput \/ AuditReread PROVE CtxInv'
<1>1. UNCHANGED <<head, last, posted, lease, rec, entry, binding, auth, work, conn, cmd, owner, minted,
                  accepted, cut, calm>>
  BY DEF AuditBegin, AuditInput, AuditReread, remote, local, locks, ghosts
<1>2. SharedTyped /\ AuditOk
  BY Kept1
<1>3. NoAudit \in [pc: Checks, head: Heads, rev: Revs \cup {None}] /\ NoAudit.pc = "idle"
  BY DEF NoAudit, Checks, Heads, ContextAssumption
<1>4. audit' \in [pc: Checks, head: Heads, rev: Revs \cup {None}] /\ AuditOk'
  <2>1. CASE AuditBegin
    BY <1>2, <1>3, <2>1 DEF AuditBegin, Audits, AuditOk, SharedTyped, Checks
  <2>2. CASE AuditInput
    BY <1>2, <1>3, <2>2 DEF AuditInput, Audits, AuditOk, SharedTyped, Checks
  <2>3. CASE AuditReread
    BY <1>2, <1>3, <2>3 DEF AuditReread, Audits, AuditOk, SharedTyped, Checks
  <2> QED
    BY <2>1, <2>2, <2>3
<1>5. SharedTyped'
  BY <1>1, <1>2, <1>4 DEF SharedTyped, WellListed
<1>6. OwnerOk' /\ EntryStays
  BY <1>1, Kept1 DEF OwnerOk, Emptied, Listed, EntryStays
<1> QED
  BY <1>1, <1>4, <1>5, <1>6, WorldAround

LEMMA AuditAsks ==
    ASSUME ContextAssumption, CtxInv, AuditDeliver \/ AuditVerify PROVE CtxInv'
<1> DEFINE h == binding[audit.rev].handle
<1>1. /\ conn = None
      /\ UNCHANGED <<head, last, posted, lease, rec, binding, work, conn, cmd, owner, minted,
                     accepted, cut, calm>>
      /\ audit.pc \in {"deliver", "verify"}
      /\ audit' = NoAudit \/ \E pc \in {"reread", "save"} : audit' = [audit EXCEPT !.pc = pc]
      /\ UNCHANGED <<auth, entry>> \/ Denied(h) \/ (Granted(h) /\ UNCHANGED entry)
  BY DEF AuditDeliver, AuditVerify, Delivers, Audits, remote, locks, ghosts
<1>2. SharedTyped /\ AuditOk
  BY Kept1
<1>3. NoAudit \in [pc: Checks, head: Heads, rev: Revs \cup {None}] /\ NoAudit.pc = "idle"
  BY DEF NoAudit, Checks, Heads, ContextAssumption
<1>4. audit' \in [pc: Checks, head: Heads, rev: Revs \cup {None}] /\ AuditOk'
  BY <1>1, <1>2, <1>3 DEF AuditOk, SharedTyped, Checks
<1>5. EntryStays /\ auth' \in ConnectionStates
  BY <1>1, <1>2 DEF EntryStays, Denied, Granted, Outage, NoLongerCurrent, SharedTyped, ConnectionStates
<1>6. SharedTyped'
  BY <1>1, <1>2, <1>4, <1>5, EntryKept DEF SharedTyped
<1>7. OwnerOk'
  BY <1>1, <1>2, Kept1 DEF OwnerOk, ContextAssumption
<1> QED
  BY <1>1, <1>4, <1>5, <1>6, <1>7, WorldAround DEF ContextAssumption

LEMMA AuditSaves ==
    ASSUME ContextAssumption, CtxInv, AuditSave PROVE CtxInv'
<1> DEFINE r == audit.rev
<1>1. /\ audit.pc = "save" /\ conn = None /\ audit' = NoAudit
      /\ UNCHANGED <<head, last, posted, lease, rec, entry, auth, work, conn, cmd, owner, minted, cut, calm>>
      /\ \/ UNCHANGED <<binding, accepted>>
         \/ /\ binding[r] # None /\ accepted' = accepted \cup {r}
            /\ binding' = [binding EXCEPT ![r].feedback = TRUE]
  BY DEF AuditSave, Audits, remote, locks
<1>2. SharedTyped /\ r \in Revs
  BY <1>1, Kept1 DEF AuditOk
<1>3. binding \in [Revs -> Bindings \cup {None}] /\ None \notin Bindings
  BY <1>2 DEF SharedTyped, ContextAssumption
<1>4. /\ binding' \in [Revs -> Bindings \cup {None}]
      /\ \A q \in Revs : (binding'[q] = None) = (binding[q] = None)
      /\ \A q \in Revs : binding[q] # None =>
           /\ binding'[q].handle = binding[q].handle /\ binding'[q].published = binding[q].published
           /\ binding'[q].feedback => binding[q].feedback \/ q \in accepted'
  <2>1. CASE UNCHANGED binding
    BY <1>3, <2>1
  <2>2. CASE /\ binding[r] # None /\ accepted' = accepted \cup {r}
             /\ binding' = [binding EXCEPT ![r].feedback = TRUE]
    <3> DEFINE b == [binding[r] EXCEPT !.feedback = TRUE]
    <3>1. binding[r] \in Bindings
      BY <1>2, <1>3, <2>2
    <3>2. /\ b \in Bindings /\ b.handle = binding[r].handle /\ b.published = binding[r].published
          /\ b # None
      BY <1>3, <3>1 DEF Bindings
    <3>3. binding' = [binding EXCEPT ![r] = b]
      BY <2>2
    <3> HIDE DEF b
    <3>4. binding'[r] = b /\ (\A q \in Revs \ {r} : binding'[q] = binding[q])
          /\ binding' \in [Revs -> Bindings \cup {None}]
      BY <1>2, <1>3, <3>2, <3>3
    <3> QED
      BY <2>2, <3>2, <3>4
  <2> QED
    BY <1>1, <2>1, <2>2
<1>5. accepted \subseteq accepted' /\ accepted' \subseteq Revs
  BY <1>1, <1>2 DEF SharedTyped
<1>6. NoAudit \in [pc: Checks, head: Heads, rev: Revs \cup {None}] /\ NoAudit.pc = "idle"
  BY DEF NoAudit, Checks, Heads, ContextAssumption
<1>7. SharedTyped' /\ AuditOk'
  BY <1>1, <1>2, <1>4, <1>5, <1>6 DEF SharedTyped, WellListed, AuditOk
<1>8. BindingsOk'
  BY <1>1, <1>4, <1>5, Kept1 DEF BindingsOk
<1>9. BindingIsFound'
  BY <1>1, <1>4, Kept1 DEF BindingIsFound, Removing
<1>10. OwnerOk'
  BY <1>1, Kept1 DEF OwnerOk, ContextAssumption
<1> QED
  BY <1>1, <1>5, <1>7, <1>8, <1>9, <1>10, WorldTurn DEF ContextAssumption

LEMMA OwnerSteps ==
    ASSUME ContextAssumption, CtxInv, Verify \/ Connect \/ Disconnect \/ Purge \/ Forget PROVE CtxInv'
<1>1. SharedTyped /\ OwnerOk /\ Owner \notin Commands /\ None \notin Commands /\ None # Owner
  BY Kept1 DEF ContextAssumption
<1>2. CASE Verify \/ Connect
  <2>1. /\ conn = None /\ owner = "idle" /\ auth' = "verified"
        /\ UNCHANGED <<head, last, posted, lease, rec, entry, binding, work, conn, cmd, audit, owner,
                       minted, accepted, cut, calm>>
    BY <1>2 DEF Verify, Connect, remote, locks, ghosts
  <2>2. SharedTyped' /\ OwnerOk' /\ AuditOk' /\ EntryStays
    BY <1>1, <2>1, Kept1 DEF SharedTyped, WellListed, OwnerOk, AuditOk, EntryStays, ConnectionStates
  <2> QED
    BY <2>1, <2>2, WorldAround
<1>3. CASE Disconnect
  <2>1. /\ conn = None /\ auth' = "disconnected" /\ NoLongerCurrent /\ owner' = "purge" /\ conn' = Owner
        /\ UNCHANGED <<head, last, posted, lease, rec, binding, work, cmd, audit, minted, accepted, cut,
                       calm>>
    BY <1>3 DEF Disconnect, remote, ghosts
  <2>2. EntryStays
    BY <2>1 DEF NoLongerCurrent, EntryStays
  <2>3. SharedTyped' /\ OwnerOk' /\ AuditOk'
    BY <1>1, <2>1, <2>2, EntryKept, Kept1 DEF SharedTyped, OwnerOk, AuditOk, ConnectionStates
  <2> QED
    BY <1>1, <2>1, <2>2, <2>3, WorldAround
<1>4. CASE Purge
  <2>1. /\ owner = "purge" /\ owner' = "forget" /\ conn = Owner
        /\ binding' = [r \in Revs |-> IF r \in Listed THEN None ELSE binding[r]]
        /\ UNCHANGED <<head, last, posted, lease, rec, entry, auth, work, conn, cmd, audit, minted,
                       accepted, cut, calm>>
    BY <1>1, <1>4 DEF Purge, OwnerOk, remote, locks, ghosts
  <2>2. /\ \A r \in Revs : binding'[r] = IF r \in Listed THEN None ELSE binding[r]
        /\ binding' \in [Revs -> Bindings \cup {None}] /\ Listed \subseteq Revs /\ Listed' = Listed
    BY <1>1, <2>1 DEF SharedTyped, Listed, WellListed
  <2>3. SharedTyped' /\ AuditOk' /\ OwnerOk'
    <3>1. SharedTyped'
      BY <1>1, <2>1, <2>2 DEF SharedTyped, WellListed
    <3>2. AuditOk' /\ OwnerOk'
      BY <2>1, <2>2, Kept1 DEF AuditOk, OwnerOk, Emptied
    <3> QED
      BY <3>1, <3>2
  <2>4. BindingsOk' /\ BindingIsFound'
    BY <2>1, <2>2, Kept1 DEF BindingsOk, BindingIsFound, Removing, Listed
  <2> QED
    BY <1>1, <2>1, <2>3, <2>4, WorldTurn
<1>5. CASE Forget
  <2>1. /\ owner = "forget" /\ owner' = "idle" /\ conn = Owner /\ conn' = None
        /\ entry' = None \/ UNCHANGED entry
        /\ UNCHANGED <<head, last, posted, lease, rec, binding, auth, work, cmd, audit, minted,
                       accepted, cut, calm>>
    BY <1>1, <1>5 DEF Forget, OwnerOk, remote, ghosts
  <2>2. SharedTyped' /\ AuditOk' /\ OwnerOk' /\ BindingsOk'
    <3>1. SharedTyped'
      BY <1>1, <2>1 DEF SharedTyped, WellListed
    <3>2. AuditOk' /\ OwnerOk' /\ BindingsOk'
      BY <2>1, Kept1 DEF AuditOk, OwnerOk, BindingsOk
    <3> QED
      BY <3>1, <3>2
  <2>3. BindingIsFound'
    BY <1>1, <2>1, Kept1 DEF OwnerOk, BindingIsFound, Removing, Emptied, Listed
  <2> QED
    BY <1>1, <2>1, <2>2, <2>3, WorldTurn
<1> QED
  BY <1>2, <1>3, <1>4, <1>5

LEMMA BetweenSteps ==
    ASSUME ContextAssumption, CtxInv, Push \/ Takeover \/ Calm PROVE CtxInv'
<1>1. /\ UNCHANGED <<last, posted, rec, entry, binding, auth, work, conn, cmd, audit, owner, minted,
                     accepted, cut>>
      /\ head' \in Heads \cup {head} /\ lease' \in Sessions \cup {lease} /\ calm' \in {calm, TRUE}
  BY DEF Push, Takeover, Calm, remote, local, locks, ghosts
<1>2. SharedTyped'
  <2>1. SharedTyped
    BY Kept1
  <2>2. head' \in Heads /\ lease' \in Sessions /\ calm' \in BOOLEAN
    BY <1>1, <2>1 DEF SharedTyped
  <2>3. WellListed(entry)' /\ (entry # None => IsFiniteSet(entry.listed))'
    BY <1>1, <2>1 DEF SharedTyped, WellListed
  <2> QED
    BY <1>1, <2>1, <2>2, <2>3 DEF SharedTyped
<1>3. OwnerOk' /\ AuditOk' /\ EntryStays
  BY <1>1, Kept1 DEF OwnerOk, Emptied, Listed, AuditOk, EntryStays
<1> QED
  BY <1>1, <1>2, <1>3, WorldAround

LEMMA ContextStarts ==
    ASSUME ContextAssumption, Init PROVE CtxInv
<1>1. NewRecord \in RecRecs /\ RecordOk(NewRecord)
  BY DEF ContextAssumption, NewRecord, RecRecs, Stages, AttachmentStates, Heads, Contexts, RecordOk,
     ValidRecord, Intents
<1>2. OwnTyped
  BY <1>1, IdleIsOk DEF Init, OwnTyped
<1>3. /\ RecordsOk /\ BindingsOk /\ OwnerOk /\ AuditOk /\ BindingIsFound
  <2>1. RecordsOk
    BY <1>1 DEF Init, RecordsOk
  <2> QED
    BY <2>1 DEF Init, BindingsOk, OwnerOk, AuditOk, NoAudit, BindingIsFound
<1>4. SharedTyped
  <2>1. 0 \in Heads /\ NoAudit \in [pc: Checks, head: Heads, rev: Revs \cup {None}]
    BY DEF ContextAssumption, Heads, NoAudit, Checks
  <2> QED
    BY <2>1 DEF Init, SharedTyped, WellListed, ConnectionStates
<1>5. ASSUME NEW c \in Commands PROVE CommandOk(c, cmd[c])
  <2>1. cmd[c] = Idle /\ CommandOk(c, Idle)
    BY <1>5, IdleIsOk DEF Init
  <2> QED
    BY <2>1
<1> QED
  BY <1>2, <1>3, <1>4, <1>5 DEF CtxInv

LEMMA ContextStays ==
    ASSUME ContextAssumption, CtxInv, UNCHANGED vars PROVE CtxInv'
<1>1. /\ UNCHANGED <<head, last, posted, lease, rec, entry, binding, auth, work, conn, cmd, audit, owner,
                     minted, accepted, cut, calm>>
  BY DEF vars, remote, local, locks, ghosts
<1>2. SharedTyped' /\ OwnerOk' /\ AuditOk' /\ EntryStays
  BY <1>1, Kept1 DEF SharedTyped, WellListed, OwnerOk, Emptied, Listed, AuditOk, EntryStays
<1> QED
  BY <1>1, <1>2, WorldAround

LEMMA ContextSteps ==
    ASSUME ContextAssumption, CtxInv, [Next]_vars PROVE CtxInv'
<1>1. ASSUME NEW c \in Commands, Attach(c) PROVE CtxInv'
  BY <1>1, LockStep, LookSteps, RecheckStep, MintStep, ReserveStep, BindStep, AfterReserveStep,
     CommentStep, DeclaredSteps, MarkStep, RereadStep, UnlistStep, UnbindStep, ClearStep DEF Attach
<1>2. ASSUME NEW c \in Commands, Prepares(c) PROVE CtxInv'
  BY <1>2, PrepareStep, ReloadStep, FetchStep, IndexStep, RetrieveStep, RecordStep, OrderStep
     DEF Prepares
<1>3. ASSUME NEW c \in Commands, Begin(c) \/ Load(c) \/ Show(c) \/ Crash(c) PROVE CtxInv'
  BY <1>3, BeginStep, LoadStep, ShowStep, CrashStep
<1>4. CASE Audit
  BY <1>4, AuditLooks, AuditAsks, AuditSaves DEF Audit
<1>5. CASE Verify \/ Connect \/ Disconnect \/ Purge \/ Forget
  BY <1>5, OwnerSteps
<1>6. CASE Push \/ Takeover \/ Calm
  BY <1>6, BetweenSteps
<1>7. CASE UNCHANGED vars
  BY <1>7, ContextStays
<1> QED
  BY <1>1, <1>2, <1>3, <1>4, <1>5, <1>6, <1>7 DEF Next, Step

(* Whatever the schedule, the crashes, the lost answers and the moved      *)
(* heads, CtxInv holds.                                                    *)
THEOREM ContextInductiveInvariant ==
    ASSUME ContextAssumption PROVE Spec => []CtxInv
<1>1. Init => CtxInv
  BY ContextStarts
<1>2. CtxInv /\ [Next]_vars => CtxInv'
  BY ContextSteps
<1> QED
  BY <1>1, <1>2, PTL DEF Spec

(* No command writes a record that validate would refuse to read again, an *)
(* index with more deliveries than it may have, or a lock no one can free; *)
(* and what it believes unchanged since it read it is (store.update).      *)
THEOREM ContextTypeCorrect ==
    ASSUME ContextAssumption PROVE Spec => []TypeOK
<1>1. CtxInv => TypeOK
  <2> SUFFICES ASSUME CtxInv PROVE TypeOK
    OBVIOUS
  <2>1. /\ SharedTyped /\ RecordsOk
        /\ \A c \in Commands : cmd[c] \in CmdRecs /\ FreshOk(cmd[c])
    BY Kept1
  <2>2. \A s \in Sessions : ValidRecord(rec[s])
    BY <2>1 DEF RecordsOk, RecordOk
  <2>3. \A r \in Revs : WellBound(binding[r])
    BY <2>1 DEF SharedTyped, WellBound, Bindings
  <2> QED
    BY <2>1, <2>2, <2>3 DEF TypeOK, SharedTyped, FreshOk
<1> QED
  BY <1>1, ContextInductiveInvariant, PTL

(* Evidence is usable only once its input is on the pull request; a        *)
(* session is reviewed only on a verdict of the input it is attached with; *)
(* and private findings can be found by whoever is to delete them          *)
(* (mark_published, feedback_session, _remove_attachment).                 *)
THEOREM ContextIsHonest ==
    ASSUME ContextAssumption
    PROVE  Spec => [](PublishedIsPublic /\ ReviewedIsReviewed /\ BindingIsFound)
<1>1. CtxInv => PublishedIsPublic /\ ReviewedIsReviewed /\ BindingIsFound
  BY Kept1 DEF PublishedIsPublic, ReviewedIsReviewed, RecordsOk, RecordOk, BindingsOk
<1> QED
  BY <1>1, ContextInductiveInvariant, PTL

(* A comment replaces the input that was read, under the lock of the work  *)
(* item, whatever other sessions and lost answers there are                *)
(* (attach_session, _publish).                                             *)
THEOREM CommentReplacesWhatItSaw ==
    ASSUME ContextAssumption PROVE Spec => [][ReplacesWhatItSaw]_vars
<1>1. CtxInv /\ [Next]_vars => [ReplacesWhatItSaw]_vars
  <2> SUFFICES ASSUME CtxInv, NEW c \in Commands, Comment(c)
               PROVE  cmd[c].input = last /\ last # cmd[c].mem.rev
    BY DEF ReplacesWhatItSaw
  <2> QED
    BY Kept1 DEF Comment, SeesOk
<1> QED
  BY <1>1, ContextInductiveInvariant, PTL DEF Spec
=============================================================================
