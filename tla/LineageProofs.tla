----------------------------- MODULE LineageProofs -----------------------------
(***************************************************************************)
(* What the record of a lineage is worth (LineageRecord), for any lanes    *)
(* and any number of rounds, commits and kills; and what a round of a lane *)
(* says it delivered (LaneDelivery), however the target moves, whichever   *)
(* reads fail and wherever the round is killed.                            *)
(***************************************************************************)
EXTENDS LineageRecord, LaneDelivery, FiniteSetTheorems, TLAPS

(***************************************************************************)
(* Chains.                                                                 *)
(***************************************************************************)

\* A chain is finite, and has one episode for every number up to its length.
LEMMA ChainNumbers ==
    ASSUME RecordAssumption, NEW A \in SUBSET Episodes, IsChain(A)
    PROVE  /\ IsFiniteSet(A) /\ Cardinality(A) \in Nat
           /\ \A a \in A : a.seq \in 1..Cardinality(A)
           /\ \A n \in 1..Cardinality(A) : \E a \in A : a.seq = n
           /\ \A a, b \in A : a.seq = b.seq => a = b
<1>1. \A a, b \in A : a.seq = b.seq => a = b
  BY DEF IsChain
<1> DEFINE f == [a \in A |-> a.seq]
<1>2. f \in Injection(A, 1..MaxRuns)
  <2>1. \A a \in A : a.seq \in 1..MaxRuns
    BY DEF Episodes
  <2> QED
    BY <1>1, <2>1 DEF Injection, IsInjective
<1>3. IsFiniteSet(1..MaxRuns)
  BY FS_Interval DEF RecordAssumption
<1>4. IsFiniteSet(A)
  BY <1>2, <1>3, FS_Injection
<1>5. Cardinality(A) \in Nat
  BY <1>4, FS_CardinalityType
<1>6. {a.seq : a \in A} = 1..Cardinality(A)
  BY DEF IsChain
<1> QED
  BY <1>1, <1>4, <1>5, <1>6

\* The order of a chain lists it, each episode at its number.
LEMMA OrderedChain ==
    ASSUME RecordAssumption, NEW A \in SUBSET Episodes, IsChain(A)
    PROVE  /\ Ordered(A) \in Seq(Episodes)
           /\ DOMAIN Ordered(A) = 1..Cardinality(A) /\ Len(Ordered(A)) = Cardinality(A)
           /\ \A n \in 1..Cardinality(A) : Ordered(A)[n] \in A /\ Ordered(A)[n].seq = n
           /\ Range(Ordered(A)) = A
<1>1. Cardinality(A) \in Nat
  BY ChainNumbers
<1>2. \A n \in 1..Cardinality(A) : Ordered(A)[n] \in A /\ Ordered(A)[n].seq = n
  <2> TAKE n \in 1..Cardinality(A)
  <2>1. \E a \in A : a.seq = n
    BY ChainNumbers
  <2>2. Ordered(A)[n] = CHOOSE a \in A : a.seq = n
    BY DEF Ordered
  <2> QED
    BY <2>1, <2>2
<1>3. DOMAIN Ordered(A) = 1..Cardinality(A)
  BY DEF Ordered
<1>4. Ordered(A) = [n \in 1..Cardinality(A) |-> Ordered(A)[n]]
  BY <1>3 DEF Ordered
<1>5. Ordered(A) \in [1..Cardinality(A) -> Episodes]
  BY <1>2, <1>4
<1>6. Ordered(A) \in Seq(Episodes)
  BY <1>1, <1>5
<1>7. Len(Ordered(A)) = Cardinality(A)
  BY <1>1, <1>3, <1>6
<1>8. Range(Ordered(A)) = A
  <2>1. ASSUME NEW a \in A PROVE a \in Range(Ordered(A))
    <3>1. a.seq \in 1..Cardinality(A)
      BY ChainNumbers
    <3>2. Ordered(A)[a.seq] \in A /\ Ordered(A)[a.seq].seq = a.seq
      BY <1>2, <3>1
    <3>3. Ordered(A)[a.seq] = a
      BY <3>2, ChainNumbers
    <3> QED
      BY <1>3, <3>1, <3>3 DEF Range
  <2> QED
    BY <1>2, <1>3, <2>1 DEF Range
<1> QED
  BY <1>2, <1>3, <1>6, <1>7, <1>8

\* Who ends a chain.
LEMMA FinalOfChain ==
    ASSUME RecordAssumption, NEW A \in SUBSET Episodes, IsChain(A), A # {}
    PROVE  Final(A) \in A /\ Final(A).seq = Cardinality(A)
<1>1. PICK a \in A : TRUE
  OBVIOUS
<1>2. Cardinality(A) \in Nat /\ a.seq \in 1..Cardinality(A)
  BY ChainNumbers
<1>3. Cardinality(A) \in 1..Cardinality(A)
  BY <1>2
<1>4. \E b \in A : b.seq = Cardinality(A)
  BY <1>3, ChainNumbers
<1> QED
  BY <1>4 DEF Final

LEMMA WriterOfChain ==
    ASSUME RecordAssumption, NEW A \in SUBSET Episodes, IsChain(A)
    PROVE  Writer(A) \in Lanes /\ Writer(A) \in Named(A) \cup {Owner}
<1>1. CASE A = {}
  BY <1>1 DEF Writer, RecordAssumption
<1>2. CASE A # {}
  <2>1. Final(A) \in A
    BY <1>2, FinalOfChain
  <2>2. Final(A).to \in Lanes
    BY <2>1 DEF Episodes
  <2> QED
    BY <1>2, <2>1, <2>2 DEF Writer, Named
<1> QED
  BY <1>1, <1>2

(***************************************************************************)
(* The inductive invariant.                                                *)
(***************************************************************************)
RunRecs == [pc : Steps, kind : Kinds \cup {"plain"}, before : Heads, from : Lanes,
            count : Nat, create : BOOLEAN, mine : SUBSET Heads,
            episode : Episodes \cup {NoEpisode}, seen : SUBSET Episodes,
            expected : SUBSET Episodes, labels : SUBSET Lanes, created : BOOLEAN]

Recorded == Chain(atIssue) \cup Chain(atPull)

Delivering == {"history", "record", "name", "read", "check", "post", "readback", "plan",
               "label", "final"}
Publishing == {"check", "post", "readback", "plan", "label"}

\* What a run r knows when n runs were started, "shown" is public and "kept"
\* recorded: its episode comes after fewer rounds than were started, what it
\* is about to publish is a recorded chain, and public before it is labelled.
Sound(r, n, shown, kept) ==
    /\ r \in RunRecs
    /\ r.pc \in Delivering => r.episode \in Episodes /\ r.kind # "plain"
    /\ r.pc # "idle" => r.count < n
    /\ r.episode.seq <= n
    /\ \A e \in r.seen \cup r.expected : e.seq <= n
    /\ r.pc \in Publishing => IsChain(r.expected) /\ r.expected \subseteq kept
    /\ r.pc \in {"plan", "label"} => r.expected \subseteq shown

\* A record lists its episodes in their order.
Listed(store) ==
    store = None \/ (store \in Records /\ \A n \in DOMAIN store.chain : store.chain[n].seq = n)

Shared ==
    /\ ref \in Heads \cup {None} /\ pull \in BOOLEAN
    /\ author \in [Heads -> Lanes \cup {Outsider, None}]
    /\ public \subseteq Episodes /\ labels \subseteq Lanes
    /\ Listed(atIssue) /\ Listed(atPull)
    /\ copy \in [Lanes -> Heads] /\ handed \subseteq Heads /\ runs \in 0..MaxRuns
    /\ pull => ref # None
    /\ \A e \in Recorded : e.seq <= runs
    /\ PublicIsRecorded /\ LabelsAreNamed

Inv == Shared /\ run \in [Lanes -> RunRecs]
       /\ \A l \in Lanes : Sound(run[l], runs, public, Recorded)

LEMMA NoneElsewhere ==
    ASSUME RecordAssumption
    PROVE  /\ None \notin Records /\ None \notin Heads /\ None \notin Lanes /\ MaxRuns \in Nat
           /\ Owner \in Lanes
  BY DEF RecordAssumption, Heads

(***************************************************************************)
(* What a step leaves alone.                                               *)
(***************************************************************************)
LEMMA SoundGrows ==
    ASSUME NEW r, NEW n \in Nat, NEW m \in Nat, n <= m,
           NEW p, NEW q, p \subseteq q, NEW k, NEW j, k \subseteq j, Sound(r, n, p, k)
    PROVE  Sound(r, m, q, j)
<1>1. r \in RunRecs
  BY DEF Sound
<1>2. r.count \in Nat /\ r.episode.seq \in Nat
        /\ \A e \in r.seen \cup r.expected : e.seq \in Nat
  BY <1>1 DEF RunRecs, Episodes, NoEpisode
<1> QED
  BY <1>2 DEF Sound

LEMMA IdleSound ==
    ASSUME RecordAssumption, NEW n \in Nat, NEW p, NEW k PROVE Sound(IdleRun, n, p, k)
  BY DEF Sound, IdleRun, RunRecs, Steps, Kinds, Heads, NoEpisode, Delivering, Publishing,
         RecordAssumption

LEMMA RunChanges ==
    ASSUME RecordAssumption, Inv, NEW l \in Lanes, NEW r, Now(l, r), Shared',
           Sound(r, runs', public', Recorded'),
           runs <= runs', public \subseteq public', Recorded \subseteq Recorded'
    PROVE  Inv'
<1>1. r \in RunRecs
  BY DEF Sound
<1>2. run' \in [Lanes -> RunRecs] /\ \A k \in Lanes : run'[k] = IF k = l THEN r ELSE run[k]
  BY <1>1 DEF Now, Inv
<1>3. runs \in Nat /\ runs' \in Nat
  BY DEF Inv, Shared, RecordAssumption
<1>4. ASSUME NEW k \in Lanes PROVE Sound(run'[k], runs', public', Recorded')
  <2>1. CASE k = l
    BY <1>2, <2>1
  <2>2. CASE k # l
    <3>1. Sound(run[k], runs, public, Recorded)
      BY DEF Inv
    <3>2. run'[k] = run[k]
      BY <1>2, <2>2
    <3> QED
      BY <1>3, <3>1, <3>2, SoundGrows
  <2> QED
    BY <2>1, <2>2
<1> QED
  BY <1>2, <1>4 DEF Inv

LEMMA SharedKept ==
    ASSUME Inv, UNCHANGED quiet
    PROVE  Shared' /\ runs' = runs /\ public' = public /\ Recorded' = Recorded
  BY DEF Inv, Shared, quiet, github, stores, Listed, Recorded, Chain, PublicIsRecorded,
         LabelsAreNamed

\* A step that changes the lane's own run only.
LEMMA OwnStep ==
    ASSUME RecordAssumption, Inv, NEW l \in Lanes, NEW r, Now(l, r), UNCHANGED quiet,
           Sound(r, runs, public, Recorded)
    PROVE  Inv'
<1>1. Shared' /\ runs' = runs /\ public' = public /\ Recorded' = Recorded
  BY SharedKept
<1>2. runs \in Nat
  BY DEF Inv, Shared, RecordAssumption
<1> QED
  BY <1>1, <1>2, RunChanges

LEMMA HaltStep ==
    ASSUME RecordAssumption, Inv, NEW l \in Lanes, Halt(l), UNCHANGED quiet PROVE Inv'
<1>1. runs \in Nat
  BY DEF Inv, Shared, RecordAssumption
<1> QED
  BY <1>1, IdleSound, OwnStep DEF Halt

LEMMA GotoSound ==
    ASSUME RecordAssumption, Inv, NEW l \in Lanes, NEW pc \in Steps, run[l].pc # "idle",
           pc \in Delivering => run[l].pc \in Delivering,
           pc \in Publishing => run[l].pc \in Publishing,
           pc \in {"plan", "label"} => run[l].pc \in {"plan", "label"} \/ run[l].expected \subseteq public
    PROVE  Sound([run[l] EXCEPT !.pc = pc], runs, public, Recorded)
<1>1. Sound(run[l], runs, public, Recorded)
  BY DEF Inv
<1> DEFINE r == [run[l] EXCEPT !.pc = pc]
<1>2. run[l] \in RunRecs
  BY <1>1 DEF Sound
<1>3. /\ r \in RunRecs /\ r.pc = pc /\ r.episode = run[l].episode /\ r.kind = run[l].kind
      /\ r.count = run[l].count /\ r.seen = run[l].seen /\ r.expected = run[l].expected
  BY <1>2 DEF RunRecs
<1> HIDE DEF r
<1>4. Sound(r, runs, public, Recorded)
  BY <1>1, <1>3 DEF Sound
<1> QED
  BY <1>4 DEF r

LEMMA RefuseSound ==
    ASSUME RecordAssumption, Inv, NEW l \in Lanes, run[l].pc # "idle"
    PROVE  \E r : /\ Sound(r, runs, public, Recorded)
                  /\ Refuse(l) => Now(l, r)
<1>1. CASE run[l].created
  <2>1. Sound([run[l] EXCEPT !.pc = "relocate"], runs, public, Recorded)
    BY GotoSound DEF Steps, Delivering, Publishing
  <2> QED
    BY <1>1, <2>1 DEF Refuse, Goto
<1>2. CASE ~run[l].created
  <2>1. Sound(IdleRun, runs, public, Recorded)
    BY IdleSound DEF Inv, Shared, RecordAssumption
  <2> QED
    BY <1>2, <2>1 DEF Refuse, Halt
<1> QED
  BY <1>1, <1>2

LEMMA RefuseStep ==
    ASSUME RecordAssumption, Inv, NEW l \in Lanes, run[l].pc # "idle", Refuse(l), UNCHANGED quiet
    PROVE  Inv'
  BY RefuseSound, OwnStep

LEMMA ChainTyped ==
    ASSUME RecordAssumption, Inv
    PROVE  /\ Chain(atIssue) \subseteq Episodes /\ Chain(atPull) \subseteq Episodes
           /\ Recorded \subseteq Episodes /\ Known \subseteq Episodes /\ Known \subseteq Recorded
           /\ public \subseteq Recorded
           /\ \A e \in Recorded : e.seq \in 1..MaxRuns /\ e.seq <= runs
<1>1. ASSUME NEW s, Listed(s) PROVE Chain(s) \subseteq Episodes
  BY <1>1 DEF Listed, Chain, Records, Range
<1>2. Chain(atIssue) \subseteq Episodes /\ Chain(atPull) \subseteq Episodes
  BY <1>1 DEF Inv, Shared
<1> QED
  BY <1>2 DEF Recorded, Known, Inv, Shared, PublicIsRecorded, Episodes

(***************************************************************************)
(* Rounds begin.                                                           *)
(***************************************************************************)
LEMMA StartStep ==
    ASSUME RecordAssumption, Inv, NEW l \in Lanes, NEW r, Starts(l, r), r \in RunRecs,
           r.pc = "work", r.count <= runs, r.episode = NoEpisode, r.seen = {}, r.expected = {},
           NEW h \in Heads, copy' = [copy EXCEPT ![l] = h], handed' \subseteq Heads
    PROVE  Inv'
<1>1. /\ runs \in Nat /\ runs' = runs + 1 /\ runs' \in 0..MaxRuns
      /\ Now(l, r) /\ UNCHANGED <<github, public, labels, stores>>
  BY DEF Starts, Inv, Shared, RecordAssumption
<1>2. Recorded' = Recorded
  BY <1>1 DEF Recorded, Chain, stores
<1>3. Shared'
  <2>1. copy' \in [Lanes -> Heads]
    BY DEF Inv, Shared
  <2>2. \A e \in Recorded : e.seq <= runs'
    BY <1>1, ChainTyped DEF RecordAssumption
  <2> QED
    BY <1>1, <1>2, <2>1, <2>2
    DEF Inv, Shared, github, stores, Listed, PublicIsRecorded, Recorded, Chain, LabelsAreNamed
<1>4. Sound(r, runs', public', Recorded')
  <2>1. r.count \in Nat /\ r.count < runs'
    BY <1>1 DEF RunRecs
  <2> QED
    BY <1>1, <2>1 DEF Sound, Delivering, Publishing, NoEpisode
<1> QED
  BY <1>1, <1>2, <1>3, <1>4, RunChanges

LEMMA KnownLength ==
    ASSUME RecordAssumption, Inv, Readable
    PROVE  /\ ref \in Heads /\ Cardinality(Known) \in Nat /\ Cardinality(Known) <= runs
           /\ Writer(Known) \in Lanes
<1>1. IsChain(Known) /\ ref \in Heads
  BY NoneElsewhere DEF Readable, Ready, Inv, Shared
<1>2. Cardinality(Known) \in Nat /\ \A n \in 1..Cardinality(Known) : \E a \in Known : a.seq = n
  BY <1>1, ChainTyped, ChainNumbers
<1>3. Cardinality(Known) <= runs
  <2>1. CASE Cardinality(Known) = 0
    BY <2>1 DEF Inv, Shared, RecordAssumption
  <2>2. CASE Cardinality(Known) # 0
    <3>1. Cardinality(Known) \in 1..Cardinality(Known)
      BY <1>2, <2>2
    <3>2. PICK a \in Known : a.seq = Cardinality(Known)
      BY <1>2, <3>1
    <3> QED
      BY <3>2, ChainTyped
  <2> QED
    BY <2>1, <2>2
<1>4. Writer(Known) \in Lanes
  BY <1>1, ChainTyped, WriterOfChain
<1> QED
  BY <1>1, <1>2, <1>3, <1>4

LEMMA ListLength ==
    ASSUME RecordAssumption, Inv, atPull # None
    PROVE  Len(atPull.chain) \in Nat /\ Len(atPull.chain) <= runs
<1>1. atPull \in Records /\ \A n \in DOMAIN atPull.chain : atPull.chain[n].seq = n
  BY DEF Inv, Shared, Listed
<1>2. atPull.chain \in Seq(Episodes) /\ Len(atPull.chain) \in Nat
      /\ DOMAIN atPull.chain = 1..Len(atPull.chain)
  BY <1>1 DEF Records
<1>3. CASE Len(atPull.chain) = 0
  BY <1>2, <1>3 DEF Inv, Shared, RecordAssumption
<1>4. CASE Len(atPull.chain) # 0
  <2> DEFINE n == Len(atPull.chain)
  <2>1. n \in DOMAIN atPull.chain
    BY <1>2, <1>4
  <2>2. atPull.chain[n] \in Recorded /\ atPull.chain[n].seq = n
    BY <1>1, <2>1 DEF Recorded, Chain, Range
  <2> QED
    BY <1>2, <2>2, ChainTyped
<1> QED
  BY <1>3, <1>4

LEMMA StartSteps ==
    ASSUME RecordAssumption, Inv, NEW l \in Lanes,
           StartCreation(l) \/ StartRound(l) \/ StartHandoff(l)
    PROVE  Inv'
<1>1. 0 \in Heads /\ runs \in Nat
  BY DEF Heads, RecordAssumption, Inv, Shared
<1>2. CASE StartCreation(l)
  <2> DEFINE r == [IdleRun EXCEPT !.pc = "work", !.kind = "creation", !.from = l]
  <2>1. /\ r \in RunRecs /\ r.pc = "work" /\ r.count = 0 /\ r.episode = NoEpisode
        /\ r.seen = {} /\ r.expected = {}
    BY <1>1 DEF IdleRun, RunRecs, Steps, Kinds
  <2>2. Starts(l, r) /\ handed' \subseteq Heads
    BY <1>2 DEF StartCreation, Inv, Shared
  <2>3. PICK h \in Heads : copy' = [copy EXCEPT ![l] = h]
    BY <1>1, <1>2 DEF StartCreation
  <2>4. r.count <= runs
    BY <1>1, <2>1
  <2> HIDE DEF r
  <2> QED
    BY <2>1, <2>2, <2>3, <2>4, StartStep
<1>3. CASE StartRound(l)
  <2> DEFINE n == Len(IF atPull = None THEN <<>> ELSE atPull.chain)
             k == IF atPull = None THEN "plain" ELSE "continuation"
             r == [IdleRun EXCEPT !.pc = "work", !.before = ref, !.from = l,
                                  !.kind = k, !.count = n]
  <2>1. ref \in Heads
    BY <1>3, KnownLength DEF StartRound
  <2>2. n \in Nat /\ n <= runs
    BY <1>1, ListLength
  <2>3. Starts(l, r) /\ copy' = [copy EXCEPT ![l] = ref] /\ handed' \subseteq Heads
    BY <1>3 DEF StartRound, Inv, Shared
  <2> HIDE DEF n
  <2>4. /\ r \in RunRecs /\ r.pc = "work" /\ r.count = n /\ r.episode = NoEpisode
        /\ r.seen = {} /\ r.expected = {}
    BY <2>1, <2>2 DEF IdleRun, RunRecs, Steps, Kinds
  <2> HIDE DEF r
  <2> QED
    BY <2>1, <2>2, <2>3, <2>4, StartStep
<1>4. CASE StartHandoff(l)
  <2> DEFINE n == Cardinality(Known)
             w == Writer(Known)
             b == (atPull = None)
             r == [IdleRun EXCEPT !.pc = "work", !.before = ref, !.from = w,
                                  !.kind = "handoff", !.create = b, !.count = n]
  <2>1. ref \in Heads /\ n \in Nat /\ n <= runs /\ w \in Lanes
    BY <1>4, KnownLength DEF StartHandoff
  <2>2. Starts(l, r) /\ copy' = [copy EXCEPT ![l] = ref] /\ handed' \subseteq Heads
    BY <1>4, <2>1 DEF StartHandoff, Inv, Shared
  <2> HIDE DEF n, w
  <2>3. /\ r \in RunRecs /\ r.pc = "work" /\ r.count = n /\ r.episode = NoEpisode
        /\ r.seen = {} /\ r.expected = {}
    BY <2>1 DEF IdleRun, RunRecs, Steps, Kinds
  <2> HIDE DEF r
  <2> QED
    BY <2>1, <2>2, <2>3, StartStep
<1> QED
  BY <1>2, <1>3, <1>4

(***************************************************************************)
(* The branch and the working copies.                                      *)
(***************************************************************************)
LEMMA NextHead ==
    ASSUME RecordAssumption, author \in [Heads -> Lanes \cup {Outsider, None}],
           Commits < MaxCommits + 1
    PROVE  Commits \in Heads
<1>1. IsFiniteSet(Heads)
  BY FS_Interval DEF Heads, RecordAssumption
<1>2. IsFiniteSet({h \in Heads : author[h] # None})
  BY <1>1, FS_Subset
<1>3. Commits \in Nat
  BY <1>2, FS_CardinalityType DEF Commits
<1> QED
  BY <1>3 DEF Heads, RecordAssumption

LEMMA PushesShared ==
    ASSUME RecordAssumption, Inv, NEW w \in Lanes \cup {Outsider}, Pushes(w),
           copy' \in [Lanes -> Heads]
    PROVE  /\ Shared' /\ Commits \in Heads
           /\ runs' = runs /\ public' = public /\ Recorded' = Recorded
<1>1. Commits \in Heads
  BY NextHead DEF Pushes, Inv, Shared
<1>2. /\ UNCHANGED <<pull, public, labels, atIssue, atPull, handed, runs>>
      /\ ref' \in Heads /\ author' \in [Heads -> Lanes \cup {Outsider, None}]
  BY <1>1 DEF Pushes, stores, Inv, Shared
<1>3. Recorded' = Recorded
  BY <1>2 DEF Recorded, Chain
<1>4. None \notin Heads
  BY NoneElsewhere
<1> QED
  BY <1>1, <1>2, <1>3, <1>4
  DEF Inv, Shared, Listed, PublicIsRecorded, LabelsAreNamed, Recorded, Chain

LEMMA WorkSteps ==
    ASSUME RecordAssumption, Inv,
           (\E l \in Lanes : Push(l) \/ Sync(l)) \/ PushOutside \/ Open
    PROVE  Inv'
<1>1. ASSUME NEW l \in Lanes, Push(l) PROVE Inv'
  <2> DEFINE r == [run[l] EXCEPT !.mine = @ \cup {Commits}]
  <2>1. Pushes(l) /\ copy' = [copy EXCEPT ![l] = Commits] /\ Now(l, r) /\ run[l].pc = "work"
    BY <1>1 DEF Push, At
  <2>2. Commits \in Heads
    BY <2>1, NextHead DEF Pushes, Inv, Shared
  <2>3. copy' \in [Lanes -> Heads]
    BY <2>1, <2>2 DEF Inv, Shared
  <2>4. Shared' /\ runs' = runs /\ public' = public /\ Recorded' = Recorded
    BY <2>1, <2>3, PushesShared
  <2>5. Sound(run[l], runs, public, Recorded) /\ run[l] \in RunRecs
    BY DEF Inv, Sound
  <2>6. /\ r \in RunRecs /\ r.pc = run[l].pc /\ r.count = run[l].count
        /\ r.episode = run[l].episode /\ r.seen = run[l].seen /\ r.expected = run[l].expected
    BY <2>2, <2>5 DEF RunRecs
  <2> HIDE DEF r
  <2>7. Sound(r, runs, public, Recorded)
    BY <2>1, <2>5, <2>6 DEF Sound, Delivering, Publishing
  <2>8. runs \in Nat
    BY DEF Inv, Shared, RecordAssumption
  <2> QED
    BY <2>1, <2>4, <2>7, <2>8, RunChanges
<1>2. ASSUME NEW l \in Lanes, Sync(l) PROVE Inv'
  <2>1. /\ ref \in Heads /\ run' = run /\ copy' = [copy EXCEPT ![l] = ref]
        /\ UNCHANGED <<github, public, labels, stores, handed, runs>>
    BY <1>2 DEF Sync, Inv, Shared
  <2>2. copy' \in [Lanes -> Heads]
    BY <2>1 DEF Inv, Shared
  <2>3. Recorded' = Recorded
    BY <2>1 DEF Recorded, Chain, stores
  <2> QED
    BY <2>1, <2>2, <2>3
    DEF Inv, Shared, github, stores, Listed, PublicIsRecorded, LabelsAreNamed, Recorded, Chain
<1>3. CASE PushOutside
  <2>1. Pushes(Outsider) /\ copy' = copy /\ run' = run
    BY <1>3 DEF PushOutside
  <2>2. Shared' /\ runs' = runs /\ public' = public /\ Recorded' = Recorded
    BY <2>1, PushesShared DEF Inv, Shared
  <2> QED
    BY <2>1, <2>2 DEF Inv
<1>4. CASE Open
  BY <1>4 DEF Open, Inv, Shared, stores, Listed, PublicIsRecorded, LabelsAreNamed, Recorded,
              Chain
<1> QED
  BY <1>1, <1>2, <1>3, <1>4

(***************************************************************************)
(* The delivery, up to what the lane does to its own run.                  *)
(***************************************************************************)
LEMMA DeliverStep ==
    ASSUME RecordAssumption, Inv, NEW l \in Lanes, Deliver(l) PROVE Inv'
<1>1. run[l].pc = "deliver" /\ UNCHANGED quiet
  BY DEF Deliver, At
<1>2. CASE ~Delivers(l)
  BY <1>1, <1>2, HaltStep DEF Deliver
<1>3. CASE Delivers(l)
  <2> DEFINE x == IF run[l].kind = "creation" THEN Created(l) ELSE Extended(l)
             r == [run[l] EXCEPT !.pc = "history", !.labels = labels, !.episode = x]
  <2>1. Now(l, r)
    BY <1>3 DEF Deliver
  <2>2. Sound(run[l], runs, public, Recorded) /\ run[l] \in RunRecs /\ runs \in 0..MaxRuns
    BY DEF Inv, Sound, Shared
  <2>3. run[l].count < runs /\ run[l].count \in Nat /\ runs \in Nat /\ MaxRuns \in Nat
    BY <1>1, <2>2 DEF Sound, RunRecs, RecordAssumption
  <2>4. ref \in Heads /\ 0 \in Heads /\ run[l].kind \in Kinds /\ labels \subseteq Lanes
    BY <1>3, <2>2 DEF Delivers, Inv, Shared, RunRecs, Heads, RecordAssumption
  <2>5. x \in Episodes /\ x.seq <= runs
    <3>1. CASE run[l].kind = "creation"
      BY <2>2, <2>3, <2>4, <3>1 DEF Created, Episodes
    <3>2. CASE run[l].kind # "creation"
      BY <2>2, <2>3, <2>4, <3>2 DEF Extended, Episodes, RunRecs
    <3> QED
      BY <3>1, <3>2
  <2> HIDE DEF x
  <2>6. /\ r \in RunRecs /\ r.pc = "history" /\ r.count = run[l].count /\ r.episode = x
        /\ r.kind = run[l].kind /\ r.seen = run[l].seen /\ r.expected = run[l].expected
    BY <2>2, <2>4, <2>5 DEF RunRecs, Steps
  <2> HIDE DEF r
  <2>7. Sound(r, runs, public, Recorded)
    BY <1>3, <2>2, <2>3, <2>5, <2>6 DEF Sound, Delivering, Publishing, Delivers
  <2> QED
    BY <1>1, <2>1, <2>7, OwnStep
<1> QED
  BY <1>2, <1>3

LEMMA HistoryStep ==
    ASSUME RecordAssumption, Inv, NEW l \in Lanes, ReadHistory(l) PROVE Inv'
<1> DEFINE r == [run[l] EXCEPT !.pc = "record", !.seen = public]
<1>1. Now(l, r) /\ run[l].pc = "history" /\ UNCHANGED quiet
  BY DEF ReadHistory, At
<1>2. Sound(run[l], runs, public, Recorded) /\ run[l] \in RunRecs /\ public \subseteq Episodes
  BY DEF Inv, Sound, Shared
<1>3. /\ r \in RunRecs /\ r.pc = "record" /\ r.count = run[l].count /\ r.episode = run[l].episode
      /\ r.kind = run[l].kind /\ r.seen = public /\ r.expected = run[l].expected
  BY <1>2 DEF RunRecs, Steps
<1>4. \A e \in public : e.seq <= runs
  BY ChainTyped
<1> HIDE DEF r
<1>5. Sound(r, runs, public, Recorded)
  BY <1>1, <1>2, <1>3, <1>4 DEF Sound, Delivering, Publishing
<1> QED
  BY <1>1, <1>5, OwnStep

LEMMA NameStep ==
    ASSUME RecordAssumption, Inv, NEW l \in Lanes, NameCreated(l) PROVE Inv'
<1> DEFINE r == [run[l] EXCEPT !.pc = "read", !.created = TRUE]
<1>1. Now(l, r) /\ run[l].pc = "name" /\ UNCHANGED quiet
  BY DEF NameCreated, At
<1>2. Sound(run[l], runs, public, Recorded) /\ run[l] \in RunRecs
  BY DEF Inv, Sound
<1>3. /\ r \in RunRecs /\ r.pc = "read" /\ r.count = run[l].count /\ r.episode = run[l].episode
      /\ r.kind = run[l].kind /\ r.seen = run[l].seen /\ r.expected = run[l].expected
  BY <1>2 DEF RunRecs, Steps
<1> HIDE DEF r
<1>4. Sound(r, runs, public, Recorded)
  BY <1>1, <1>2, <1>3 DEF Sound, Delivering, Publishing
<1> QED
  BY <1>1, <1>4, OwnStep

LEMMA ReadStep ==
    ASSUME RecordAssumption, Inv, NEW l \in Lanes, ReadPublic(l) PROVE Inv'
<1> DEFINE all == public \cup Chain(Store(l))
           r == [run[l] EXCEPT !.pc = "check", !.seen = public, !.expected = all,
                               !.labels = labels]
<1>1. run[l].pc = "read" /\ UNCHANGED quiet
  BY DEF ReadPublic, At
<1>2. CASE ~(Snapshot(l) /\ Ready(all, labels, ref))
  BY <1>1, <1>2, RefuseStep DEF ReadPublic
<1>3. CASE Snapshot(l) /\ Ready(all, labels, ref)
  <2>1. Now(l, r)
    BY <1>3 DEF ReadPublic
  <2>2. Sound(run[l], runs, public, Recorded) /\ run[l] \in RunRecs /\ public \subseteq Episodes
        /\ labels \subseteq Lanes
    BY DEF Inv, Sound, Shared
  <2>3. all \subseteq Episodes /\ all \subseteq Recorded /\ \A e \in all : e.seq <= runs
    BY ChainTyped DEF Store, Recorded
  <2>4. IsChain(all)
    BY <1>3 DEF Ready
  <2> HIDE DEF all
  <2>5. /\ r \in RunRecs /\ r.pc = "check" /\ r.count = run[l].count
        /\ r.episode = run[l].episode /\ r.kind = run[l].kind /\ r.seen = public
        /\ r.expected = all
    BY <2>2, <2>3 DEF RunRecs, Steps
  <2>6. \A e \in public : e.seq <= runs
    BY ChainTyped
  <2> HIDE DEF r
  <2>7. Sound(r, runs, public, Recorded)
    BY <1>1, <2>2, <2>3, <2>4, <2>5, <2>6 DEF Sound, Delivering, Publishing
  <2> QED
    BY <1>1, <2>1, <2>7, OwnStep
<1> QED
  BY <1>2, <1>3

LEMMA PlanStep ==
    ASSUME RecordAssumption, Inv, NEW l \in Lanes, PlanLabels(l) PROVE Inv'
<1> DEFINE pc == IF labels = {Writer(run[l].expected)} THEN "final" ELSE "label"
           r == [run[l] EXCEPT !.labels = labels, !.pc = pc]
<1>1. run[l].pc = "plan" /\ UNCHANGED quiet
  BY DEF PlanLabels, At
<1>2. CASE ~Snapshot(l)
  BY <1>1, <1>2, RefuseStep DEF PlanLabels
<1>3. CASE Snapshot(l)
  <2>1. Now(l, r) /\ pc \in {"final", "label"}
    BY <1>3 DEF PlanLabels
  <2>2. Sound(run[l], runs, public, Recorded) /\ run[l] \in RunRecs /\ labels \subseteq Lanes
    BY DEF Inv, Sound, Shared
  <2> HIDE DEF pc
  <2>3. /\ r \in RunRecs /\ r.pc = pc /\ r.count = run[l].count /\ r.episode = run[l].episode
        /\ r.kind = run[l].kind /\ r.seen = run[l].seen /\ r.expected = run[l].expected
    BY <2>1, <2>2 DEF RunRecs, Steps
  <2> HIDE DEF r
  <2>4. Sound(r, runs, public, Recorded)
    BY <1>1, <2>1, <2>2, <2>3 DEF Sound, Delivering, Publishing
  <2> QED
    BY <1>1, <2>1, <2>4, OwnStep
<1> QED
  BY <1>2, <1>3

LEMMA OwnSteps ==
    ASSUME RecordAssumption, Inv, NEW l \in Lanes,
           \/ Stop(l) \/ Deliver(l) \/ ReadHistory(l) \/ NameCreated(l) \/ ReadPublic(l)
           \/ CheckFresh(l) \/ Readback(l) \/ PlanLabels(l) \/ VerifyLabels(l) \/ Crash(l)
    PROVE  Inv'
<1>1. CASE Stop(l)
  <2>1. run[l].pc = "work" /\ Goto(l, "deliver") /\ UNCHANGED quiet
    BY <1>1 DEF Stop, At, quiet
  <2>2. Sound([run[l] EXCEPT !.pc = "deliver"], runs, public, Recorded)
    BY <2>1, GotoSound DEF Steps, Delivering, Publishing
  <2> QED
    BY <2>1, <2>2, OwnStep DEF Goto
<1>2. CASE CheckFresh(l)
  <2>1. run[l].pc = "check" /\ UNCHANGED quiet
    BY <1>2 DEF CheckFresh, At
  <2>2. CASE Goto(l, Proceed(l))
    <3>1. Proceed(l) \in {"readback", "post"}
      BY DEF Proceed
    <3>2. Sound([run[l] EXCEPT !.pc = Proceed(l)], runs, public, Recorded)
      BY <2>1, <3>1, GotoSound DEF Steps, Delivering, Publishing
    <3> QED
      BY <2>1, <2>2, <3>2, OwnStep DEF Goto
  <2>3. CASE Refuse(l)
    BY <2>1, <2>3, RefuseStep
  <2> QED
    BY <1>2, <2>2, <2>3 DEF CheckFresh
<1>3. CASE Readback(l)
  <2>1. run[l].pc = "readback" /\ UNCHANGED quiet
    BY <1>3 DEF Readback, At
  <2>2. CASE public = run[l].expected
    <3>1. Sound([run[l] EXCEPT !.pc = "plan"], runs, public, Recorded)
      BY <2>1, <2>2, GotoSound DEF Steps, Delivering, Publishing
    <3> QED
      BY <1>3, <2>1, <2>2, <3>1, OwnStep DEF Goto, Readback
  <2>3. CASE public # run[l].expected
    BY <1>3, <2>1, <2>3, RefuseStep DEF Readback
  <2> QED
    BY <2>2, <2>3
<1>4. CASE VerifyLabels(l)
  BY <1>4, RefuseStep DEF VerifyLabels, At
<1>5. CASE Crash(l)
  BY <1>5, HaltStep DEF Crash
<1> QED
  BY <1>1, <1>2, <1>3, <1>4, <1>5, DeliverStep, HistoryStep, NameStep, ReadStep, PlanStep

(***************************************************************************)
(* The stores, the comments and the labels.                                *)
(***************************************************************************)
LEMMA UpdatedStore ==
    ASSUME RecordAssumption, Inv, NEW l \in Lanes, run[l].pc = "record", Recordable(l)
    PROVE  /\ Listed(Updated(l)) /\ Updated(l) # None
           /\ Chain(Updated(l)) = Arrivals(l) /\ Chain(Store(l)) \subseteq Arrivals(l)
           /\ \A e \in Arrivals(l) : e.seq <= runs
<1>1. Sound(run[l], runs, public, Recorded) /\ run[l] \in RunRecs
  BY DEF Inv, Sound
<1>2. run[l].episode \in Episodes /\ run[l].seen \subseteq Episodes
      /\ run[l].episode.seq <= runs /\ \A e \in run[l].seen : e.seq <= runs
  BY <1>1 DEF Sound, Delivering, RunRecs
<1>3. Chain(Store(l)) \subseteq Episodes /\ \A e \in Chain(Store(l)) : e.seq <= runs
  BY ChainTyped DEF Store, Recorded
<1>4. Arrivals(l) \in SUBSET Episodes /\ Chain(Store(l)) \subseteq Arrivals(l)
      /\ \A e \in Arrivals(l) : e.seq <= runs
  BY <1>2, <1>3 DEF Arrivals
<1>5. IsChain(Arrivals(l))
  BY DEF Recordable, Ready
<1> DEFINE A == Arrivals(l)
<1>6. /\ Ordered(A) \in Seq(Episodes) /\ Range(Ordered(A)) = A
      /\ \A n \in DOMAIN Ordered(A) : Ordered(A)[n].seq = n
  BY <1>4, <1>5, OrderedChain
<1>7. Updated(l) \in Records /\ Updated(l).chain = Ordered(A)
  BY <1>6 DEF Updated, Records
<1>8. Updated(l) # None
  BY <1>7, NoneElsewhere
<1> QED
  BY <1>4, <1>6, <1>7, <1>8 DEF Listed, Chain

LEMMA TouchedStore ==
    ASSUME RecordAssumption, Inv, NEW l \in Lanes
    PROVE  Listed(Touched(l)) /\ Chain(Touched(l)) = Chain(Store(l))
<1>1. Empty \in Records /\ Empty.chain = <<>> /\ Empty # None
  <2>1. <<>> \in Seq(Episodes) /\ Owner \in Lanes
    BY NoneElsewhere
  <2>2. Empty \in Records /\ Empty.chain = <<>>
    BY <2>1 DEF Empty, Records
  <2> QED
    BY <2>2, NoneElsewhere
<1>2. Listed(Empty) /\ Chain(Empty) = {}
  BY <1>1 DEF Listed, Chain, Range
<1>3. Listed(Store(l))
  BY DEF Store, Inv, Shared
<1> QED
  BY <1>2, <1>3 DEF Touched, Chain

LEMMA KeepStep ==
    ASSUME RecordAssumption, Inv, NEW l \in Lanes, NEW v, Keep(l, v), Listed(v),
           Chain(Store(l)) \subseteq Chain(v), \A e \in Chain(v) : e.seq <= runs,
           UNCHANGED <<github, public, labels, copy, handed, runs>>
    PROVE  Shared' /\ runs' = runs /\ public' = public /\ Recorded \subseteq Recorded'
<1>1. Recorded \subseteq Recorded' /\ \A e \in Recorded' : e.seq <= runs
  BY ChainTyped DEF Keep, Store, Recorded, Chain
<1>2. Listed(atIssue)' /\ Listed(atPull)'
  BY DEF Keep, Inv, Shared, Listed
<1> QED
  BY <1>1, <1>2 DEF Inv, Shared, github, PublicIsRecorded, LabelsAreNamed, Recorded

LEMMA RecordStep ==
    ASSUME RecordAssumption, Inv, NEW l \in Lanes, Record(l) PROVE Inv'
<1>1. run[l].pc = "record" /\ UNCHANGED <<github, public, labels, copy, handed, runs>>
  BY DEF Record, At
<1>2. runs \in Nat
  BY DEF Inv, Shared, RecordAssumption
<1>3. CASE Recordable(l)
  <2> DEFINE pc == IF run[l].kind = "creation" THEN "name" ELSE "read"
             r == [run[l] EXCEPT !.pc = pc]
  <2>1. Keep(l, Updated(l)) /\ Now(l, r)
    BY <1>3 DEF Record, Goto
  <2>2. Shared' /\ runs' = runs /\ public' = public /\ Recorded \subseteq Recorded'
    BY <1>1, <1>3, <2>1, UpdatedStore, KeepStep
  <2>3. Sound(r, runs, public, Recorded)
    <3>1. pc \in {"name", "read"}
      OBVIOUS
    <3> HIDE DEF pc
    <3> QED
      BY <1>1, <3>1, GotoSound DEF Steps, Delivering, Publishing
  <2> HIDE DEF r
  <2>4. Sound(r, runs', public', Recorded')
    BY <1>2, <2>2, <2>3, SoundGrows
  <2> QED
    BY <1>2, <2>1, <2>2, <2>4, RunChanges
<1>4. CASE ~Recordable(l)
  <2>1. Keep(l, Touched(l)) /\ Now(l, IdleRun)
    BY <1>4 DEF Record, Halt
  <2>2. \A e \in Chain(Touched(l)) : e.seq <= runs
    BY TouchedStore, ChainTyped DEF Store, Recorded
  <2>3. Shared' /\ runs' = runs /\ public' = public /\ Recorded \subseteq Recorded'
    BY <1>1, <2>1, <2>2, TouchedStore, KeepStep
  <2>4. Sound(IdleRun, runs', public', Recorded')
    BY <1>2, <2>3, IdleSound
  <2> QED
    BY <1>2, <2>1, <2>3, <2>4, RunChanges
<1> QED
  BY <1>3, <1>4

LEMMA ShowStep ==
    ASSUME RecordAssumption, Inv, NEW l \in Lanes, run[l].pc = "post",
           public' \in {public, public \cup run[l].expected},
           UNCHANGED <<github, labels, stores, copy, handed, runs>>
    PROVE  Shared' /\ runs' = runs /\ public \subseteq public' /\ Recorded' = Recorded
<1>1. run[l].expected \subseteq Recorded /\ run[l].expected \subseteq Episodes
  BY DEF Inv, Sound, Publishing, RunRecs
<1>2. Recorded' = Recorded
  BY DEF Recorded, Chain, stores
<1>3. public' \subseteq Recorded /\ public' \subseteq Episodes /\ public \subseteq public'
  BY <1>1, ChainTyped DEF Inv, Shared
<1>4. labels \subseteq Named(public') \cup {Owner}
  BY <1>3 DEF Inv, Shared, LabelsAreNamed, Named
<1> QED
  BY <1>2, <1>3, <1>4
  DEF Inv, Shared, github, stores, Listed, PublicIsRecorded, LabelsAreNamed, Recorded

LEMMA PostSteps ==
    ASSUME RecordAssumption, Inv, NEW l \in Lanes, Post(l) \/ PostFails(l) PROVE Inv'
<1>1. /\ run[l].pc = "post" /\ public' \in {public, public \cup run[l].expected}
      /\ UNCHANGED <<github, labels, stores, copy, handed, runs>>
  BY DEF Post, PostFails, At
<1>2. Shared' /\ runs' = runs /\ public \subseteq public' /\ Recorded' = Recorded
  BY <1>1, ShowStep
<1>3. \E r : Sound(r, runs, public, Recorded) /\ Now(l, r)
  <2>1. CASE Post(l)
    BY <1>1, <2>1, GotoSound DEF Post, Goto, Steps, Delivering, Publishing
  <2>2. CASE PostFails(l)
    BY <1>1, <2>2, RefuseSound DEF PostFails
  <2> QED
    BY <2>1, <2>2
<1>4. PICK r : Sound(r, runs, public, Recorded) /\ Now(l, r)
  BY <1>3
<1>5. runs \in Nat
  BY DEF Inv, Shared, RecordAssumption
<1>6. Sound(r, runs', public', Recorded')
  BY <1>2, <1>4, <1>5, SoundGrows
<1> QED
  BY <1>2, <1>4, <1>5, <1>6, RunChanges

LEMMA LabelStep ==
    ASSUME RecordAssumption, Inv, NEW l \in Lanes, SetLabels(l) PROVE Inv'
<1>1. /\ run[l].pc = "label" /\ Goto(l, "final")
      /\ labels' = (labels \ run[l].labels) \cup {Writer(run[l].expected)}
      /\ UNCHANGED <<github, public, stores, copy, handed, runs>>
  BY DEF SetLabels, At
<1>2. /\ IsChain(run[l].expected) /\ run[l].expected \subseteq public
      /\ run[l].expected \in SUBSET Episodes
  BY <1>1 DEF Inv, Sound, Publishing, RunRecs
<1>3. Writer(run[l].expected) \in Lanes
      /\ Writer(run[l].expected) \in Named(run[l].expected) \cup {Owner}
  BY <1>2, WriterOfChain
<1>4. Named(run[l].expected) \subseteq Named(public)
  BY <1>2 DEF Named
<1>5. LabelsAreNamed' /\ labels' \subseteq Lanes
  BY <1>1, <1>3, <1>4 DEF LabelsAreNamed, Inv, Shared
<1>6. Recorded' = Recorded
  BY <1>1 DEF Recorded, Chain, stores
<1>7. Shared'
  BY <1>1, <1>5, <1>6 DEF Inv, Shared, github, stores, Listed, PublicIsRecorded, Recorded
<1>8. Sound([run[l] EXCEPT !.pc = "final"], runs, public, Recorded)
  BY <1>1, GotoSound DEF Steps, Delivering, Publishing
<1>9. runs \in Nat
  BY DEF Inv, Shared, RecordAssumption
<1> QED
  BY <1>1, <1>6, <1>7, <1>8, <1>9, RunChanges DEF Goto

LEMMA RelocateStep ==
    ASSUME RecordAssumption, Inv, NEW l \in Lanes, Relocate(l) PROVE Inv'
<1>1. Now(l, IdleRun) /\ UNCHANGED <<github, public, labels, copy, handed, runs>>
  BY DEF Relocate, Halt
<1>2. Chain(None) = {}
  BY DEF Chain
<1>3. Recorded' = Recorded /\ Listed(atIssue)' /\ Listed(atPull)'
  <2>1. CASE FreeDestination /\ atIssue # None
    <3>1. atPull = None /\ atPull' = atIssue /\ atIssue' = None
      BY <2>1 DEF Relocate, FreeDestination
    <3>2. Chain(atPull)' = Chain(atIssue) /\ Chain(atIssue)' = {} /\ Chain(atPull) = {}
      BY <3>1 DEF Chain
    <3> QED
      BY <3>1, <3>2 DEF Recorded, Inv, Shared, Listed
  <2>2. CASE ~(FreeDestination /\ atIssue # None)
    BY <2>2 DEF Relocate, stores, Recorded, Inv, Shared, Listed, Chain
  <2> QED
    BY <2>1, <2>2
<1>4. Shared'
  BY <1>1, <1>3 DEF Inv, Shared, github, PublicIsRecorded, LabelsAreNamed, Recorded
<1>5. runs \in Nat
  BY DEF Inv, Shared, RecordAssumption
<1>6. Sound(IdleRun, runs', public', Recorded')
  BY <1>1, <1>5, IdleSound
<1> QED
  BY <1>1, <1>3, <1>4, <1>5, <1>6, RunChanges

(***************************************************************************)
(* The theorems.                                                           *)
(***************************************************************************)
LEMMA InvInit == ASSUME RecordAssumption, Init PROVE Inv
<1>1. 0 \in Heads /\ 0 \in 0..MaxRuns /\ 0 \in Nat /\ Chain(None) = {}
  BY DEF Heads, RecordAssumption, Chain
<1>2. Shared
  <2>1. author \in [Heads -> Lanes \cup {Outsider, None}]
    BY DEF Init
  <2>2. copy \in [Lanes -> Heads]
    BY <1>1 DEF Init
  <2> QED
    BY <1>1, <2>1, <2>2
    DEF Init, Shared, Listed, Recorded, PublicIsRecorded, LabelsAreNamed
<1>3. \A l \in Lanes : Sound(IdleRun, runs, public, Recorded)
  BY <1>1, IdleSound DEF Init
<1>4. run = [l \in Lanes |-> IdleRun] /\ \A l \in Lanes : IdleRun \in RunRecs
  BY <1>3 DEF Init, Sound
<1>5. run \in [Lanes -> RunRecs]
  BY <1>4
<1> QED
  BY <1>2, <1>3, <1>4, <1>5 DEF Inv

LEMMA InvNext == ASSUME RecordAssumption, Inv, [Next]_vars PROVE Inv'
<1>1. ASSUME NEW l \in Lanes, Round(l) PROVE Inv'
  BY <1>1, StartSteps, WorkSteps, OwnSteps, RecordStep, PostSteps, LabelStep, RelocateStep
  DEF Round
<1>2. CASE PushOutside \/ Open
  BY <1>2, WorkSteps
<1>3. CASE UNCHANGED vars
  <2>1. UNCHANGED quiet /\ run' = run
    BY <1>3 DEF vars, quiet, github, stores
  <2> QED
    BY <2>1, SharedKept DEF Inv
<1> QED
  BY <1>1, <1>2, <1>3 DEF Next

\* What a step of a lineage keeps, whatever it is (the lineage rounds of
\* lane_delivery.py and run_mac_lane.sh).
THEOREM InductiveInvariant == ASSUME RecordAssumption PROVE Spec => []Inv
<1>1. Init => Inv
  BY InvInit
<1>2. Inv /\ [Next]_vars => Inv'
  BY InvNext
<1> QED
  BY <1>1, <1>2, PTL DEF Spec

LEMMA InvTypes == ASSUME RecordAssumption, Inv PROVE TypeOK
<1>1. ASSUME NEW s, Listed(s) PROVE s \in Records \cup {None}
  BY <1>1 DEF Listed
<1>2. ASSUME NEW l \in Lanes
      PROVE  /\ run[l].pc \in Steps /\ run[l].episode \in Episodes \cup {NoEpisode}
             /\ run[l].seen \subseteq Episodes /\ run[l].expected \subseteq Episodes
  <2>1. run[l] \in RunRecs
    BY DEF Inv
  <2> QED
    BY <2>1 DEF RunRecs
<1> QED
  BY <1>1, <1>2 DEF Inv, Shared, TypeOK

\* Every store, comment and run of the model has its type, however far the
\* rounds have come (ProducerStore, publish, CreationOrigin).
THEOREM TypeCorrect == ASSUME RecordAssumption PROVE Spec => []TypeOK
<1>1. Inv => TypeOK
  BY InvTypes
<1> QED
  BY <1>1, InductiveInvariant, PTL

\* A builder label never runs ahead of the public history (publish).
THEOREM LabelsFollow == ASSUME RecordAssumption PROVE Spec => []LabelsAreNamed
<1>1. Inv => LabelsAreNamed
  BY DEF Inv, Shared
<1> QED
  BY <1>1, InductiveInvariant, PTL

\* Nothing is public that no private record holds (ProducerStore.record).
THEOREM NothingUnrecorded == ASSUME RecordAssumption PROVE Spec => []PublicIsRecorded
<1>1. Inv => PublicIsRecorded
  BY DEF Inv, Shared
<1> QED
  BY <1>1, InductiveInvariant, PTL

(***************************************************************************)
(* The record of the pull request grows at its end.                        *)
(***************************************************************************)
LEMMA PrefixOf ==
    ASSUME NEW s \in Seq(Episodes), NEW t \in Seq(Episodes), Len(s) <= Len(t),
           \A n \in 1..Len(s) : s[n] = t[n]
    PROVE  IsPrefix(s, t)
<1>1. SubSeq(s, 1, Len(s)) = SubSeq(t, 1, Len(s))
  OBVIOUS
<1> QED
  BY <1>1 DEF IsPrefix

LEMMA PrefixAgrees ==
    ASSUME NEW s \in Seq(Episodes), NEW t \in Seq(Episodes), IsPrefix(s, t)
    PROVE  Len(s) <= Len(t) /\ \A n \in 1..Len(s) : s[n] = t[n]
<1>1. Len(s) <= Len(t) /\ SubSeq(s, 1, Len(s)) = SubSeq(t, 1, Len(s))
  BY DEF IsPrefix
<1>2. ASSUME NEW n \in 1..Len(s) PROVE s[n] = t[n]
  <2>1. SubSeq(s, 1, Len(s))[n] = s[n] /\ SubSeq(t, 1, Len(s))[n] = t[n]
    BY <1>1
  <2> QED
    BY <1>1, <2>1
<1> QED
  BY <1>1, <1>2

LEMMA ListOf ==
    ASSUME RecordAssumption, NEW s, Listed(s), s # None
    PROVE  /\ s.chain \in Seq(Episodes) /\ Len(s.chain) \in Nat
           /\ DOMAIN s.chain = 1..Len(s.chain)
           /\ \A n \in 1..Len(s.chain) : s.chain[n].seq = n /\ s.chain[n] \in Chain(s)
           /\ Chain(s) = {s.chain[n] : n \in 1..Len(s.chain)}
<1>1. s.chain \in Seq(Episodes) /\ \A n \in DOMAIN s.chain : s.chain[n].seq = n
  BY DEF Listed, Records
<1>2. Len(s.chain) \in Nat /\ DOMAIN s.chain = 1..Len(s.chain)
  BY <1>1
<1> QED
  BY <1>1, <1>2 DEF Chain, Range

LEMMA ChainExtends ==
    ASSUME RecordAssumption, NEW s, Listed(s), s # None, NEW A \in SUBSET Episodes, IsChain(A),
           Chain(s) \subseteq A
    PROVE  IsPrefix(s.chain, Ordered(A))
<1> DEFINE c == s.chain
<1>1. /\ c \in Seq(Episodes) /\ Len(c) \in Nat
      /\ \A n \in 1..Len(c) : c[n].seq = n /\ c[n] \in A
  BY ListOf
<1>2. /\ Cardinality(A) \in Nat /\ \A a \in A : a.seq \in 1..Cardinality(A)
      /\ \A a, b \in A : a.seq = b.seq => a = b
  BY ChainNumbers
<1>3. /\ Ordered(A) \in Seq(Episodes) /\ Len(Ordered(A)) = Cardinality(A)
      /\ \A n \in 1..Cardinality(A) : Ordered(A)[n] \in A /\ Ordered(A)[n].seq = n
  BY OrderedChain
<1> HIDE DEF c
<1>4. \A n \in 1..Len(c) : n \in 1..Cardinality(A)
  BY <1>1, <1>2
<1>5. Len(c) <= Cardinality(A)
  <2>1. CASE Len(c) = 0
    BY <1>2, <2>1
  <2>2. CASE Len(c) # 0
    <3>1. Len(c) \in 1..Len(c)
      BY <1>1, <2>2
    <3> QED
      BY <1>4, <3>1
  <2> QED
    BY <2>1, <2>2
<1>6. \A n \in 1..Len(c) : c[n] = Ordered(A)[n]
  BY <1>1, <1>2, <1>3, <1>4
<1>7. IsPrefix(c, Ordered(A))
  BY <1>1, <1>3, <1>5, <1>6, PrefixOf
<1> QED
  BY <1>7 DEF c

LEMMA SamePull ==
    ASSUME RecordAssumption, Inv, atPull' = atPull, Carries(atPull)
    PROVE  Carries(atPull') /\ IsPrefix(atPull.chain, atPull'.chain)
<1>1. atPull # None /\ Listed(atPull)
  BY DEF Carries, Inv, Shared
<1>2. atPull.chain \in Seq(Episodes) /\ Len(atPull.chain) \in Nat
  BY <1>1, ListOf
<1>3. IsPrefix(atPull.chain, atPull.chain)
  BY <1>2, PrefixOf
<1> QED
  BY <1>3

LEMMA PullGrows ==
    ASSUME RecordAssumption, Inv, [Next]_vars, Carries(atPull)
    PROVE  Carries(atPull') /\ IsPrefix(atPull.chain, atPull'.chain)
<1>1. atPull # None /\ Listed(atPull) /\ atPull.chain # <<>>
  BY DEF Carries, Inv, Shared
<1>2. ASSUME NEW l \in Lanes, Record(l), atPull' # atPull
      PROVE  Carries(atPull') /\ IsPrefix(atPull.chain, atPull'.chain)
  <2>1. Store(l) = atPull /\ run[l].pc = "record" /\ Recordable(l) /\ atPull' = Updated(l)
    BY <1>1, <1>2 DEF Record, At, Keep, Store, Touched
  <2>2. /\ Chain(atPull) \subseteq Arrivals(l) /\ Updated(l) # None
        /\ IsChain(Arrivals(l))
    BY <2>1, UpdatedStore DEF Recordable, Ready
  <2>3. Arrivals(l) \in SUBSET Episodes
    <3>1. run[l].episode \in Episodes /\ run[l].seen \subseteq Episodes
      BY <2>1 DEF Inv, Sound, Delivering, RunRecs
    <3> QED
      BY <2>1, <3>1, ChainTyped DEF Arrivals
  <2>4. IsPrefix(atPull.chain, Ordered(Arrivals(l)))
    BY <1>1, <2>2, <2>3, ChainExtends
  <2>5. atPull'.chain = Ordered(Arrivals(l))
    BY <2>1 DEF Updated
  <2>6. atPull.chain \in Seq(Episodes) /\ Ordered(Arrivals(l)) \in Seq(Episodes)
    BY <1>1, <2>2, <2>3, ListOf, OrderedChain
  <2>7. Len(atPull.chain) <= Len(Ordered(Arrivals(l))) /\ Len(atPull.chain) # 0
    BY <1>1, <2>4, <2>6, PrefixAgrees
  <2>8. Ordered(Arrivals(l)) # <<>>
    BY <2>6, <2>7
  <2> QED
    BY <2>1, <2>2, <2>4, <2>5, <2>8 DEF Carries
<1>3. ASSUME NEW l \in Lanes, Round(l), ~Record(l) PROVE atPull' = atPull
  BY <1>1, <1>3
  DEF Round, StartCreation, StartRound, StartHandoff, Starts, Push, Pushes, Sync, Stop, Deliver,
      ReadHistory, NameCreated, ReadPublic, CheckFresh, Post, PostFails, Readback, PlanLabels,
      SetLabels, VerifyLabels, Relocate, Crash, quiet, stores, FreeDestination
<1>4. CASE PushOutside \/ Open \/ UNCHANGED vars
  BY <1>4, SamePull DEF PushOutside, Pushes, Open, vars, stores
<1> QED
  BY <1>2, <1>3, <1>4, SamePull DEF Next

\* No round replaces what a later one recorded of the pull request, however
\* old the history it read (ProducerStore.record under its lock).
THEOREM RecordGrows == ASSUME RecordAssumption PROVE Spec => [][RecordExtends]_vars
<1>1. Inv /\ [Next]_vars => [RecordExtends]_vars
  BY PullGrows DEF RecordExtends
<1> QED
  BY <1>1, InductiveInvariant, PTL DEF Spec

(***************************************************************************)
(* Once the record is at the pull request.                                 *)
(***************************************************************************)
Segment(S, c) == \E k \in 0..Len(c) : S = {c[n] : n \in 1..k}

\* A run that began since creates nothing, and publishes a first part of the
\* record.
Late(r, c) == /\ r.kind # "creation" /\ ~r.created /\ r.pc \notin {"name", "relocate"}
              /\ r.pc \in Publishing => Segment(r.expected, c)

Grown == /\ ref # None /\ atIssue = None /\ Carries(atPull) /\ IsChain(Chain(atPull))
         /\ Segment(public, atPull.chain)
         /\ \A l \in Lanes : Late(run[l], atPull.chain)

LEMMA SegmentJoins ==
    ASSUME NEW c \in Seq(Episodes), NEW S, NEW T, Segment(S, c), Segment(T, c)
    PROVE  Segment(S \cup T, c)
<1>1. PICK j \in 0..Len(c) : S = {c[n] : n \in 1..j}
  BY DEF Segment
<1>2. PICK k \in 0..Len(c) : T = {c[n] : n \in 1..k}
  BY DEF Segment
<1>3. CASE j <= k
  <2>1. S \cup T = T
    BY <1>1, <1>2, <1>3
  <2> QED
    BY <2>1
<1>4. CASE k <= j
  <2>1. S \cup T = S
    BY <1>1, <1>2, <1>4
  <2> QED
    BY <2>1
<1> QED
  BY <1>1, <1>2, <1>3, <1>4

LEMMA SegmentStays ==
    ASSUME NEW c \in Seq(Episodes), NEW d \in Seq(Episodes), IsPrefix(c, d), NEW S, Segment(S, c)
    PROVE  Segment(S, d)
<1>1. PICK k \in 0..Len(c) : S = {c[n] : n \in 1..k}
  BY DEF Segment
<1>2. Len(c) <= Len(d) /\ \A n \in 1..Len(c) : c[n] = d[n]
  BY PrefixAgrees
<1>3. k \in 0..Len(d) /\ {c[n] : n \in 1..k} = {d[n] : n \in 1..k}
  <2>1. Len(c) \in Nat /\ Len(d) \in Nat
    OBVIOUS
  <2>2. \A n \in 1..k : c[n] = d[n]
    BY <1>2, <2>1
  <2> QED
    BY <1>2, <2>1, <2>2
<1> QED
  BY <1>1, <1>3 DEF Segment

\* What is public of a chain is one.
LEMMA SegmentIsChain ==
    ASSUME RecordAssumption, NEW s, Listed(s), s # None, IsChain(Chain(s)),
           NEW S, Segment(S, s.chain)
    PROVE  IsChain(S)
<1> DEFINE c == s.chain
<1>1. /\ c \in Seq(Episodes) /\ Len(c) \in Nat /\ \A n \in 1..Len(c) : c[n].seq = n
      /\ Chain(s) = {c[n] : n \in 1..Len(c)}
  BY ListOf
<1>2. PICK k \in 0..Len(c) : S = {c[n] : n \in 1..k}
  BY DEF Segment
<1> HIDE DEF c
<1>3. S \subseteq Chain(s) /\ \A n \in 1..k : c[n].seq = n
  BY <1>1, <1>2
<1>4. Cardinality(S) = k
  <2> DEFINE f == [n \in 1..k |-> c[n]]
  <2>1. f \in Bijection(1..k, S)
    BY <1>2, <1>3 DEF Bijection, Injection, IsInjective, Surjection
  <2>2. IsFiniteSet(1..k) /\ Cardinality(1..k) = k
    BY <1>1, FS_Interval
  <2> HIDE DEF f
  <2> QED
    BY <2>1, <2>2, FS_Bijection DEF ExistsBijection
<1>5. {a.seq : a \in S} = 1..k
  BY <1>2, <1>3
<1> QED
  BY <1>3, <1>4, <1>5 DEF IsChain

LEMMA PublishedInv == ASSUME RecordAssumption, Published PROVE Inv /\ Grown
<1>1. atPull # None /\ atPull \in Records /\ atPull.chain \in Seq(Episodes)
      /\ DOMAIN atPull.chain = 1..Len(atPull.chain) /\ Len(atPull.chain) \in Nat
  BY DEF Published, Carries, TypeOK, Records
<1>2. Listed(atIssue) /\ Listed(atPull)
  BY <1>1 DEF Published, Listed
<1>3. Chain(atIssue) = {} /\ Recorded = Chain(atPull)
  BY DEF Published, Chain, Recorded
<1>4. \A e \in Recorded : e.seq <= runs
  BY <1>1, <1>3 DEF Published, Chain, Range
<1>5. Shared
  BY <1>2, <1>3, <1>4
  DEF Published, TypeOK, Shared, PublicIsRecorded, LabelsAreNamed, Recorded
<1>6. runs \in Nat
  BY DEF Published, TypeOK, RecordAssumption
<1>7. \A l \in Lanes : Sound(IdleRun, runs, public, Recorded)
  BY <1>6, IdleSound
<1>8. run = [l \in Lanes |-> IdleRun] /\ \A l \in Lanes : IdleRun \in RunRecs
  BY <1>7 DEF Published, Sound
<1>9. Inv
  BY <1>5, <1>7, <1>8 DEF Inv
<1>10. Segment(public, atPull.chain)
  BY <1>1, <1>2, ListOf DEF Published, Segment
<1>11. Late(IdleRun, atPull.chain)
  BY DEF Late, IdleRun, Publishing
<1>12. Grown
  BY <1>8, <1>10, <1>11 DEF Grown, Published
<1> QED
  BY <1>9, <1>12

LEMMA LateStays ==
    ASSUME RecordAssumption, Inv, Inv', Grown, [Next]_vars, NEW r, Late(r, atPull.chain)
    PROVE  Late(r, atPull'.chain)
<1>1. Carries(atPull') /\ IsPrefix(atPull.chain, atPull'.chain)
  BY PullGrows DEF Grown
<1>2. atPull.chain \in Seq(Episodes) /\ atPull'.chain \in Seq(Episodes)
  BY <1>1, ListOf DEF Grown, Carries, Inv, Shared
<1> QED
  BY <1>1, <1>2, SegmentStays DEF Late

LEMMA GrownStep ==
    ASSUME RecordAssumption, Inv, Inv', Grown, [Next]_vars,
           NEW l \in Lanes, NEW r, Now(l, r), Late(r, atPull.chain) \/ Late(r, atPull'.chain),
           UNCHANGED <<github, atIssue>>,
           \/ UNCHANGED <<public, atPull>>
           \/ UNCHANGED public /\ IsChain(Chain(atPull'))
           \/ UNCHANGED atPull /\ Segment(public', atPull.chain)
    PROVE  Grown'
<1>1. Carries(atPull') /\ IsPrefix(atPull.chain, atPull'.chain)
  BY PullGrows DEF Grown
<1>2. atPull.chain \in Seq(Episodes) /\ atPull'.chain \in Seq(Episodes)
  BY <1>1, ListOf DEF Grown, Carries, Inv, Shared
<1>3. Segment(public', atPull'.chain) /\ IsChain(Chain(atPull'))
  BY <1>1, <1>2, SegmentStays DEF Grown, Chain
<1>4. Late(r, atPull'.chain)
  BY LateStays
<1>5. \A k \in Lanes : run'[k] = IF k = l THEN r ELSE run[k]
  BY DEF Now, Inv
<1>6. \A k \in Lanes : Late(run[k], atPull'.chain)
  BY LateStays DEF Grown
<1>7. \A k \in Lanes : Late(run'[k], atPull'.chain)
  BY <1>4, <1>5, <1>6
<1> QED
  BY <1>1, <1>3, <1>7 DEF Grown, github, Chain

LEMMA GotoLate ==
    ASSUME Inv, Grown, NEW l \in Lanes, NEW pc, pc \notin {"name", "relocate"},
           pc \in Publishing => run[l].pc \in Publishing
    PROVE  Late([run[l] EXCEPT !.pc = pc], atPull.chain)
<1>1. run[l] \in RunRecs /\ Late(run[l], atPull.chain)
  BY DEF Inv, Grown
<1> DEFINE r == [run[l] EXCEPT !.pc = pc]
<1>2. r.kind = run[l].kind /\ r.created = run[l].created /\ r.pc = pc
      /\ r.expected = run[l].expected
  BY <1>1 DEF RunRecs
<1> HIDE DEF r
<1>3. Late(r, atPull.chain)
  BY <1>1, <1>2 DEF Late
<1> QED
  BY <1>3 DEF r

LEMMA IdleLate == ASSUME NEW c PROVE Late(IdleRun, c)
  BY DEF Late, IdleRun, Publishing

LEMMA RefuseLate ==
    ASSUME Grown, NEW l \in Lanes, Refuse(l)
    PROVE  Now(l, IdleRun)
  BY DEF Grown, Late, Refuse, Halt

LEMMA GrownRuns ==
    ASSUME RecordAssumption, Inv, Inv', Grown, [Next]_vars, NEW l \in Lanes, UNCHANGED quiet,
           \/ Stop(l) \/ Deliver(l) \/ ReadHistory(l) \/ NameCreated(l) \/ ReadPublic(l)
           \/ CheckFresh(l) \/ Readback(l) \/ PlanLabels(l) \/ VerifyLabels(l) \/ Crash(l)
    PROVE  Grown'
<1>1. /\ UNCHANGED <<github, atIssue>> /\ UNCHANGED <<public, atPull>>
  BY DEF quiet, stores
<1>2. run[l] \in RunRecs /\ Late(run[l], atPull.chain)
  BY DEF Inv, Grown
<1>3. SUFFICES \E r : Now(l, r) /\ Late(r, atPull.chain)
  BY <1>1, GrownStep
<1>4. CASE Stop(l)
  BY <1>4, GotoLate DEF Stop, Goto, Publishing
<1>5. CASE Deliver(l)
  <2>1. CASE Delivers(l)
    <3> DEFINE x == IF run[l].kind = "creation" THEN Created(l) ELSE Extended(l)
               r == [run[l] EXCEPT !.pc = "history", !.labels = labels, !.episode = x]
    <3>1. Now(l, r)
      BY <1>5, <2>1 DEF Deliver
    <3> HIDE DEF x
    <3>2. r.kind = run[l].kind /\ r.created = run[l].created /\ r.pc = "history"
      BY <1>2 DEF RunRecs
    <3> HIDE DEF r
    <3> QED
      BY <1>2, <3>1, <3>2 DEF Late, Publishing
  <2>2. CASE ~Delivers(l)
    BY <1>5, <2>2, IdleLate DEF Deliver, Halt
  <2> QED
    BY <2>1, <2>2
<1>6. CASE ReadHistory(l)
  <2> DEFINE r == [run[l] EXCEPT !.pc = "record", !.seen = public]
  <2>1. Now(l, r)
    BY <1>6 DEF ReadHistory
  <2>2. r.kind = run[l].kind /\ r.created = run[l].created /\ r.pc = "record"
    BY <1>2 DEF RunRecs
  <2> HIDE DEF r
  <2> QED
    BY <1>2, <2>1, <2>2 DEF Late, Publishing
<1>7. CASE NameCreated(l)
  BY <1>2, <1>7 DEF NameCreated, At, Late
<1>8. CASE ReadPublic(l)
  <2> DEFINE all == public \cup Chain(Store(l))
             r == [run[l] EXCEPT !.pc = "check", !.seen = public, !.expected = all,
                                 !.labels = labels]
  <2>1. CASE Now(l, r)
    <3>1. Store(l) = atPull
      BY <1>2 DEF Store, Late
    <3>2. /\ atPull.chain \in Seq(Episodes) /\ Len(atPull.chain) \in Nat
          /\ Chain(atPull) = {atPull.chain[n] : n \in 1..Len(atPull.chain)}
      BY ListOf DEF Grown, Carries, Inv, Shared
    <3>3. Segment(Chain(atPull), atPull.chain)
      BY <3>2 DEF Segment
    <3>4. Segment(all, atPull.chain)
      BY <3>1, <3>2, <3>3, SegmentJoins DEF Grown
    <3> HIDE DEF all
    <3>5. r.kind = run[l].kind /\ r.created = run[l].created /\ r.pc = "check"
          /\ r.expected = all
      BY <1>2 DEF RunRecs
    <3> HIDE DEF r
    <3> QED
      BY <1>2, <2>1, <3>4, <3>5 DEF Late
  <2>2. CASE Refuse(l)
    BY <2>2, RefuseLate, IdleLate
  <2> QED
    BY <1>8, <2>1, <2>2 DEF ReadPublic
<1>9. CASE CheckFresh(l)
  <2>1. CASE Goto(l, Proceed(l))
    <3>1. Proceed(l) \notin {"name", "relocate"} /\ run[l].pc \in Publishing
      BY <1>9 DEF Proceed, CheckFresh, At, Publishing
    <3> QED
      BY <2>1, <3>1, GotoLate DEF Goto
  <2>2. CASE Refuse(l)
    BY <2>2, RefuseLate, IdleLate
  <2> QED
    BY <1>9, <2>1, <2>2 DEF CheckFresh
<1>10. CASE Readback(l)
  <2>1. CASE Goto(l, "plan")
    BY <1>10, <2>1, GotoLate DEF Goto, Readback, At, Publishing
  <2>2. CASE Refuse(l)
    BY <2>2, RefuseLate, IdleLate
  <2> QED
    BY <1>10, <2>1, <2>2 DEF Readback
<1>11. CASE PlanLabels(l)
  <2> DEFINE pc == IF labels = {Writer(run[l].expected)} THEN "final" ELSE "label"
             r == [run[l] EXCEPT !.labels = labels, !.pc = pc]
  <2>1. CASE Now(l, r)
    <3>1. pc \in {"final", "label"} /\ run[l].pc = "plan"
      BY <1>11 DEF PlanLabels, At
    <3> HIDE DEF pc
    <3>2. r.kind = run[l].kind /\ r.created = run[l].created /\ r.pc = pc
          /\ r.expected = run[l].expected
      BY <1>2 DEF RunRecs
    <3> HIDE DEF r
    <3> QED
      BY <1>2, <2>1, <3>1, <3>2 DEF Late, Publishing
  <2>2. CASE Refuse(l)
    BY <2>2, RefuseLate, IdleLate
  <2> QED
    BY <1>11, <2>1, <2>2 DEF PlanLabels
<1>12. CASE VerifyLabels(l)
  BY <1>12, RefuseLate, IdleLate DEF VerifyLabels
<1>13. CASE Crash(l)
  BY <1>13, IdleLate DEF Crash, Halt
<1> QED
  BY <1>4, <1>5, <1>6, <1>7, <1>8, <1>9, <1>10, <1>11, <1>12, <1>13

LEMMA GrownStarts ==
    ASSUME RecordAssumption, Inv, Inv', Grown, [Next]_vars, NEW l \in Lanes,
           StartCreation(l) \/ StartRound(l) \/ StartHandoff(l)
    PROVE  Grown'
<1>1. ~StartCreation(l)
  BY DEF StartCreation, Unclaimed, Grown
<1>2. UNCHANGED <<github, atIssue>> /\ UNCHANGED <<public, atPull>>
  BY DEF StartCreation, StartRound, StartHandoff, Starts, stores
<1>3. SUFFICES \E r : Now(l, r) /\ Late(r, atPull.chain)
  BY <1>2, GrownStep
<1>4. CASE StartRound(l)
  <2> DEFINE n == Len(IF atPull = None THEN <<>> ELSE atPull.chain)
             k == IF atPull = None THEN "plain" ELSE "continuation"
             r == [IdleRun EXCEPT !.pc = "work", !.before = ref, !.from = l,
                                  !.kind = k, !.count = n]
  <2>1. Now(l, r)
    BY <1>4 DEF StartRound, Starts
  <2>2. Late(r, atPull.chain)
    BY DEF Late, IdleRun, Publishing
  <2> QED
    BY <2>1, <2>2
<1>5. CASE StartHandoff(l)
  <2> DEFINE n == Cardinality(Known)
             w == Writer(Known)
             b == (atPull = None)
             r == [IdleRun EXCEPT !.pc = "work", !.before = ref, !.from = w,
                                  !.kind = "handoff", !.create = b, !.count = n]
  <2>1. Now(l, r)
    BY <1>5 DEF StartHandoff, Starts
  <2>2. Late(r, atPull.chain)
    BY DEF Late, IdleRun, Publishing
  <2> QED
    BY <2>1, <2>2
<1> QED
  BY <1>1, <1>4, <1>5

LEMMA GrownWork ==
    ASSUME RecordAssumption, Inv, Inv', Grown, [Next]_vars,
           (\E l \in Lanes : Push(l) \/ Sync(l)) \/ PushOutside \/ Open
    PROVE  Grown'
<1>1. /\ ref' # None /\ UNCHANGED <<atIssue, atPull, public>>
  <2>1. ASSUME NEW w, Pushes(w) PROVE ref' # None /\ UNCHANGED <<atIssue, atPull, public>>
    <3>1. Commits \in Heads
      BY <2>1, NextHead DEF Pushes, Inv, Shared
    <3> QED
      BY <2>1, <3>1, NoneElsewhere DEF Pushes, stores
  <2> QED
    BY <2>1 DEF Push, Sync, PushOutside, Open, github, stores, Grown
<1>2. ASSUME NEW k \in Lanes PROVE Late(run'[k], atPull.chain)
  <2>1. run[k] \in RunRecs /\ Late(run[k], atPull.chain)
    BY DEF Inv, Grown
  <2>2. CASE run'[k] = run[k]
    BY <2>1, <2>2
  <2>3. ASSUME NEW l \in Lanes, Push(l), run'[k] # run[k] PROVE Late(run'[k], atPull.chain)
    <3> DEFINE r == [run[k] EXCEPT !.mine = @ \cup {Commits}]
    <3>1. run'[k] = r
      BY <2>3 DEF Push, Now, Inv
    <3>2. r.kind = run[k].kind /\ r.created = run[k].created /\ r.pc = run[k].pc
          /\ r.expected = run[k].expected
      BY <2>1 DEF RunRecs
    <3> HIDE DEF r
    <3> QED
      BY <2>1, <3>1, <3>2 DEF Late
  <2> QED
    BY <2>2, <2>3 DEF Sync, PushOutside, Open
<1> QED
  BY <1>1, <1>2 DEF Grown, Chain

LEMMA GrownRecord ==
    ASSUME RecordAssumption, Inv, Inv', Grown, [Next]_vars, NEW l \in Lanes, Record(l)
    PROVE  Grown'
<1>1. run[l] \in RunRecs /\ Late(run[l], atPull.chain) /\ run[l].pc = "record"
      /\ atPull # None
  BY DEF Inv, Grown, Record, At, Carries
<1>2. /\ Store(l) = atPull /\ UNCHANGED <<github, atIssue, public>>
      /\ run[l].kind # "creation"
  BY <1>1 DEF Late, Store, Record, Keep
<1>3. CASE Recordable(l)
  <2>1. atPull' = Updated(l) /\ Now(l, [run[l] EXCEPT !.pc = "read"])
    BY <1>2, <1>3 DEF Record, Keep, Goto
  <2>2. Chain(atPull') = Arrivals(l) /\ IsChain(Arrivals(l))
    BY <1>1, <1>3, <2>1, UpdatedStore DEF Recordable, Ready
  <2>3. Late([run[l] EXCEPT !.pc = "read"], atPull.chain)
    BY GotoLate DEF Publishing
  <2> QED
    BY <1>2, <2>1, <2>2, <2>3, GrownStep
<1>4. CASE ~Recordable(l)
  <2>1. atPull' = atPull /\ Now(l, IdleRun)
    BY <1>1, <1>2, <1>4 DEF Record, Keep, Touched, Halt
  <2> QED
    BY <1>2, <2>1, IdleLate, GrownStep
<1> QED
  BY <1>3, <1>4

LEMMA GrownPosts ==
    ASSUME RecordAssumption, Inv, Inv', Grown, [Next]_vars, NEW l \in Lanes,
           Post(l) \/ PostFails(l) \/ SetLabels(l) \/ Relocate(l)
    PROVE  Grown'
<1>1. run[l] \in RunRecs /\ Late(run[l], atPull.chain)
  BY DEF Inv, Grown
<1>2. ~Relocate(l)
  BY <1>1 DEF Relocate, At, Late
<1>3. /\ UNCHANGED <<github, atIssue, atPull>>
      /\ UNCHANGED public \/ Segment(public', atPull.chain)
  <2>1. UNCHANGED <<github, atIssue, atPull>>
    BY <1>2 DEF Post, PostFails, SetLabels, stores
  <2>2. CASE Post(l) \/ PostFails(l)
    <3>1. Segment(run[l].expected, atPull.chain)
      BY <1>1, <2>2 DEF Late, Post, PostFails, At, Publishing
    <3>2. atPull.chain \in Seq(Episodes)
      BY ListOf DEF Grown, Carries, Inv, Shared
    <3>3. Segment(public \cup run[l].expected, atPull.chain)
      BY <3>1, <3>2, SegmentJoins DEF Grown
    <3> QED
      BY <2>1, <2>2, <3>3 DEF Post, PostFails
  <2>3. CASE SetLabels(l)
    BY <2>1, <2>3 DEF SetLabels
  <2> QED
    BY <1>2, <2>2, <2>3
<1>4. \E r : Now(l, r) /\ Late(r, atPull.chain)
  <2>1. CASE Post(l)
    BY <2>1, GotoLate DEF Post, Goto, At, Publishing
  <2>2. CASE PostFails(l)
    BY <2>2, RefuseLate, IdleLate DEF PostFails
  <2>3. CASE SetLabels(l)
    BY <2>3, GotoLate DEF SetLabels, Goto, At, Publishing
  <2> QED
    BY <1>2, <2>1, <2>2, <2>3
<1>5. PICK r : Now(l, r) /\ Late(r, atPull.chain)
  BY <1>4
<1>6. CASE UNCHANGED public
  BY <1>3, <1>5, <1>6, GrownStep
<1>7. CASE Segment(public', atPull.chain)
  BY <1>3, <1>5, <1>7, GrownStep
<1> QED
  BY <1>3, <1>6, <1>7

LEMMA GrownNext == ASSUME RecordAssumption, Inv, Grown, [Next]_vars PROVE Inv' /\ Grown'
<1>1. Inv'
  BY InvNext
<1>2. ASSUME NEW l \in Lanes, Round(l) PROVE Grown'
  <2>1. CASE \/ Stop(l) \/ Deliver(l) \/ ReadHistory(l) \/ NameCreated(l) \/ ReadPublic(l)
             \/ CheckFresh(l) \/ Readback(l) \/ PlanLabels(l) \/ VerifyLabels(l) \/ Crash(l)
    <3>1. UNCHANGED quiet
      BY <2>1
      DEF Stop, Deliver, ReadHistory, NameCreated, ReadPublic, CheckFresh, Readback, PlanLabels,
          VerifyLabels, Crash, quiet
    <3> QED
      BY <1>1, <2>1, <3>1, GrownRuns
  <2> QED
    BY <1>1, <1>2, <2>1, GrownStarts, GrownWork, GrownRecord, GrownPosts DEF Round
<1>3. CASE PushOutside \/ Open
  BY <1>1, <1>3, GrownWork
<1>4. CASE UNCHANGED vars
  <2>1. UNCHANGED <<ref, public, atIssue, atPull, run>>
    BY <1>4 DEF vars
  <2> QED
    BY <1>1, <2>1 DEF Grown
<1> QED
  BY <1>1, <1>2, <1>3, <1>4 DEF Next

\* Once the record is at the pull request, what is public of it stays one
\* chain, which the next reader accepts, whatever rounds, takeovers, pushes
\* and kills come between the record and the comment (publish, resolve).
THEOREM PublicStaysChain == ASSUME RecordAssumption PROVE PublishedSpec => []PublicIsChain
<1>1. Published => Inv /\ Grown
  BY PublishedInv
<1>2. Inv /\ Grown /\ [Next]_vars => (Inv /\ Grown)'
  BY GrownNext
<1>3. Inv /\ Grown => PublicIsChain
  BY SegmentIsChain DEF Grown, PublicIsChain, Carries, Inv, Shared
<1> QED
  BY <1>1, <1>2, <1>3, PTL DEF PublishedSpec

(***************************************************************************)
(* Delivery.                                                               *)
(***************************************************************************)

Shots  == [pr: Pulls, head: Tips, label: BOOLEAN, comment: BOOLEAN, complete: BOOLEAN]
Codes  == Exits \cup {CapExit[c] : c \in Caps}
RoundRecs ==
    [pc: RoundSteps, slot: Slots, before: Shots, after: Shots, rc: Codes, reason: Reasons,
     file: Files, declared: Bounded \cup {"none"}, comment: BOOLEAN, delivered: BOOLEAN,
     exit: {NoExit, Signal, 2, 3} \cup Exits]

\* The pull request of the lane is the only one there will ever be.
OnePull == kind = "pr" \/ MaxPulls = 1

TargetTyped ==
    /\ kind \in {"issue", "pr"} /\ pr \in Pulls /\ head \in [1..MaxPulls -> Tips]
    /\ label \in BOOLEAN /\ comments \subseteq [run: 1..MaxRounds, says: Says]
    /\ moved \in BOOLEAN /\ did \in BOOLEAN
    /\ rounds \in 0..MaxRounds /\ pushes \in Tips /\ outside \in 0..MaxOutside
    /\ kind = "pr" => pr = 1

\* Where a round is says which snapshot it takes, and that it was let past
\* the first one.
PhaseInv ==
    /\ round \in RoundRecs
    /\ round.slot = "before" =>
         round.pc \in {"idle", "pulls", "labels", "view", "launch", "provider"}
    /\ round.slot = "after" => round.pc \notin {"launch", "provider"}
    /\ round.slot = "again" =>
         round.pc \in {"idle", "pulls", "labels", "view", "classify", "report"}
    /\ round.slot # "before" \/ round.pc \in {"pulls", "provider"} => round.before.complete
    /\ round.reason = "completed" => round.rc \in Exits
    /\ round.pc # "idle" => round.exit = NoExit

\* Heads are numbered as they are pushed.
NumberInv ==
    /\ \A p \in 1..MaxPulls : head[p] <= pushes
    /\ round.before.head <= pushes /\ round.after.head <= pushes
    /\ \A c \in comments : c.run <= rounds
    /\ round.pc # "idle" => rounds # 0
    /\ kind = "pr" /\ round.pc # "idle" =>
         round.before.pr = 1 /\ (round.slot # "before" => round.after.pr = 1)

\* How far the snapshot before the provider has come, or the one after it.
PullsRead(slot) ==
    IF slot = "before" THEN round.slot # "before" \/ round.pc # "pulls"
    ELSE round.slot # "before" /\ round.pc # "pulls"
ViewRead(slot) ==
    IF slot = "before" THEN round.slot # "before" \/ round.pc \notin {"pulls", "labels", "view"}
    ELSE round.slot # "before" /\ round.pc \notin {"pulls", "labels", "view"}

\* What is seen of a target that did not move: the same pull request, or
\* none, and the same head of it.
StillInv ==
    ~moved /\ round.pc # "idle" =>
       /\ round.before.complete /\ PullsRead("before") => pr \in {round.before.pr, 0}
       /\ round.before.complete /\ round.before.pr # 0 /\ ViewRead("before") =>
            round.before.head = head[round.before.pr]
       /\ round.after.complete /\ PullsRead("after") => round.after.pr \in {round.before.pr, 0}
       /\ round.after.complete /\ round.after.pr # 0 /\ ViewRead("after") =>
            round.after.head = head[round.after.pr]

\* What is seen of one that the provider moved.
DidInv ==
    OnePull /\ did =>
       /\ pr = 1 /\ round.before.complete /\ head[1] > round.before.head
       /\ round.slot = "before" => round.pc \notin {"pulls", "labels", "view"}
       /\ round.slot = "after" /\ round.after.complete =>
            /\ round.pc \notin {"idle", "pulls"} => round.after.pr = 1
            /\ round.pc \notin {"idle", "pulls", "labels", "view"} =>
                 round.after.head > round.before.head

\* What is said is the outcome of a provider that finished.
SaidInv ==
    /\ round.comment \/ round.after.comment => SaidMine
    /\ SaidMine => /\ round.slot # "before"
                   /\ round.reason = "completed" /\ round.rc = 0
    /\ round.pc \in {"comment", "label"} => Declares /\ round.declared = round.file
    /\ round.pc = "label" => Mine(round.declared)
    /\ round.delivered => moved \/ SaidMine
    /\ round.exit = 0 => round.delivered
    /\ OnePull /\ SaidMine => ~did

DeliveryInv ==
    /\ TargetTyped /\ PhaseInv /\ NumberInv /\ StillInv /\ DidInv /\ SaidInv /\ ExitIsProviders

LEMMA RoundWords ==
    ASSUME DeliveryAssumption
    PROVE  /\ NoSnapshot \in Shots /\ 0 \in Pulls /\ 1 \in Pulls
           /\ \A c \in Caps : CapExit[c] \in Codes /\ CapExit[c] # 0
           /\ Exits \subseteq Codes /\ Codes \subseteq Nat
           /\ "completed" \notin Caps /\ Reasons = Caps \cup {"completed"}
<1>1. 0 \in Pulls /\ 1 \in Pulls /\ 0 \in Tips
  BY DEF DeliveryAssumption, Pulls, Tips
<1>2. NoSnapshot \in Shots
  BY <1>1 DEF NoSnapshot, Shots
<1>3. \A c \in Caps : CapExit[c] \in Codes
  BY DEF Codes
<1>4. \A c \in Caps : CapExit[c] \in Nat /\ CapExit[c] # 0
  BY DEF Caps, CapExit
<1>5. Exits \subseteq Codes /\ Codes \subseteq Nat
  BY <1>4 DEF Codes, Exits
<1> QED
  BY <1>1, <1>2, <1>3, <1>4, <1>5 DEF Caps, Reasons

\* The first round starts from nothing.
LEMMA DeliveryStarts == DeliveryAssumption /\ DeliveryInit => DeliveryInv
<1> SUFFICES ASSUME DeliveryAssumption, DeliveryInit PROVE DeliveryInv
  OBVIOUS
<1>1. TargetTyped
  <2>1. 0 \in Tips /\ 0 \in 0..MaxRounds /\ 0 \in 0..MaxOutside
    BY DEF DeliveryAssumption, Tips
  <2>2. head \in [1..MaxPulls -> Tips]
    BY <2>1 DEF DeliveryInit
  <2> QED
    BY <2>1, <2>2, RoundWords DEF TargetTyped, DeliveryInit
<1>2. round \in RoundRecs
  BY RoundWords DEF DeliveryInit, IdleRound, RoundRecs, RoundSteps, Slots, Codes, Exits, Reasons,
     Files, Bounded, NoExit, Signal
<1>3. PhaseInv /\ NumberInv /\ StillInv /\ DidInv
  BY <1>1, <1>2 DEF DeliveryInit, IdleRound, NoSnapshot, Exits, PhaseInv, NumberInv, StillInv, DidInv,
     TargetTyped, Tips
<1>4. SaidInv /\ ExitIsProviders
  BY DEF DeliveryInit, IdleRound, NoSnapshot, SaidInv, SaidMine, Mine, ExitIsProviders, NoExit
<1> QED
  BY <1>1, <1>3, <1>4 DEF DeliveryInv

(* The target.                                                             *)

\* A push gives the lane's pull request a head of its own.
LEMMA HeadIsNew ==
    ASSUME DeliveryAssumption, DeliveryInv, UNCHANGED kind, PushHead \/ OpenPull
    PROVE  /\ pr' \in 1..MaxPulls /\ pushes' = pushes + 1 /\ pushes' \in Tips
           /\ head' = [head EXCEPT ![pr'] = pushes + 1] /\ head' \in [1..MaxPulls -> Tips]
           /\ moved' = TRUE /\ label' = label
           /\ OnePull => pr' = 1
           /\ kind = "pr" => pr' = 1
<1>1. pushes' = pushes + 1 /\ pushes' \in Tips /\ moved' = TRUE /\ label' = label
  BY DEF PushHead, OpenPull, DeliveryInv, TargetTyped, Tips, DeliveryAssumption
<1>2. pr' \in 1..MaxPulls /\ head' = [head EXCEPT ![pr'] = pushes + 1]
  <2>1. CASE PushHead
    BY <2>1 DEF PushHead, DeliveryInv, TargetTyped, Pulls, DeliveryAssumption
  <2>2. CASE OpenPull
    <3>1. IsFiniteSet(1..MaxPulls)
      BY FS_Interval DEF DeliveryAssumption
    <3>2. IsFiniteSet(Opened)
      BY <3>1, FS_Subset DEF Opened
    <3>3. Cardinality(Opened) \in Nat
      BY <3>2, FS_CardinalityType
    <3> QED
      BY <2>2, <3>3 DEF OpenPull, DeliveryAssumption
  <2> QED
    BY <2>1, <2>2
<1>3. head' \in [1..MaxPulls -> Tips]
  BY <1>1, <1>2 DEF DeliveryInv, TargetTyped
<1>4. kind = "pr" => pr' = 1
  BY DEF PushHead, OpenPull, DeliveryInv, TargetTyped
<1> QED
  BY <1>1, <1>2, <1>3, <1>4 DEF OnePull

\* Whoever moves the target, and whenever, the round knows it moved.
LEMMA TargetStep ==
    ASSUME DeliveryAssumption, DeliveryInv, UNCHANGED <<kind, comments, round, rounds>>,
           outside' \in 0..MaxOutside,
           \/ /\ PushHead \/ OpenPull
              /\ \/ did' = did
                 \/ did' = TRUE /\ round.pc = "provider"
           \/ ClosePull
           \/ label' = ~label /\ UNCHANGED <<pr, head, pushes, moved, did>>
    PROVE  DeliveryInv'
<1>1. CASE PushHead \/ OpenPull
  <2>1. /\ pr' \in 1..MaxPulls /\ pushes' = pushes + 1 /\ pushes' \in Tips
        /\ head' = [head EXCEPT ![pr'] = pushes + 1] /\ head' \in [1..MaxPulls -> Tips]
        /\ moved' = TRUE /\ label' = label
        /\ OnePull => pr' = 1
        /\ kind = "pr" => pr' = 1
    BY <1>1, HeadIsNew
  <2>2. did' \in BOOLEAN /\ (did' => did \/ round.pc = "provider")
    <3>1. did \in BOOLEAN
      BY DEF DeliveryInv, TargetTyped
    <3>2. did' = did \/ did' = FALSE \/ (did' = TRUE /\ round.pc = "provider")
      BY DEF ClosePull
    <3>3. CASE did' = did
      BY <3>1, <3>3
    <3>4. CASE did' = FALSE
      BY <3>4
    <3>5. CASE did' = TRUE /\ round.pc = "provider"
      BY <3>5
    <3> QED
      BY <3>2, <3>3, <3>4, <3>5
  <2>3. TargetTyped'
    BY <2>1, <2>2 DEF DeliveryInv, TargetTyped, Pulls
  <2>4. PhaseInv' /\ StillInv' /\ ExitIsProviders'
    BY <2>1 DEF DeliveryInv, PhaseInv, StillInv, ExitIsProviders
  <2>5. pushes \in Nat /\ round.before.head \in Nat /\ round.after.head \in Nat
    BY DEF DeliveryInv, TargetTyped, PhaseInv, RoundRecs, Shots, Tips
  <2>6. \A p \in 1..MaxPulls : head'[p] <= pushes + 1
    BY <2>1, <2>5 DEF DeliveryInv, NumberInv, TargetTyped, Tips
  <2>7. NumberInv'
    BY <2>1, <2>5, <2>6 DEF DeliveryInv, NumberInv
  <2>8. DidInv'
    <3> SUFFICES ASSUME OnePull, did' PROVE DidInv'
      BY DEF DidInv, OnePull
    <3>1. pr' = 1 /\ head'[1] = pushes + 1
      BY <2>1 DEF DeliveryInv, TargetTyped
    <3>2. round.before.complete /\ head'[1] > round.before.head
      BY <2>2, <2>5, <3>1 DEF DeliveryInv, DidInv, PhaseInv, NumberInv
    <3>3. round.slot = "after" => round.pc # "provider"
      BY DEF DeliveryInv, PhaseInv
    <3> QED
      BY <2>2, <3>1, <3>2, <3>3 DEF DeliveryInv, DidInv
  <2>9. SaidInv'
    <3>1. SaidMine => round.slot # "before"
      BY DEF DeliveryInv, SaidInv
    <3>2. round.pc = "provider" => round.slot = "before"
      BY DEF DeliveryInv, PhaseInv, RoundRecs, Slots
    <3>3. Declares' = Declares /\ SaidMine' = SaidMine /\ OnePull' = OnePull
      BY DEF Declares, OwnExit, NothingSeen, ObservedTransition, SaidMine, Mine, OnePull
    <3> QED
      BY <2>1, <2>2, <3>1, <3>2, <3>3 DEF DeliveryInv, SaidInv, Mine
  <2> QED
    BY <2>3, <2>4, <2>7, <2>8, <2>9 DEF DeliveryInv
<1>2. CASE ClosePull
  <2>1. TargetTyped'
    <3>1. pr' \in Pulls /\ did' \in BOOLEAN /\ (kind = "pr" => pr' = 1)
      BY <1>2, RoundWords DEF ClosePull
    <3> QED
      BY <1>2, <3>1 DEF ClosePull, DeliveryInv, TargetTyped
  <2>2. PhaseInv' /\ NumberInv' /\ ExitIsProviders'
    BY <1>2 DEF ClosePull, DeliveryInv, PhaseInv, NumberInv, ExitIsProviders
  <2>3. StillInv'
    BY <1>2 DEF ClosePull, DeliveryInv, StillInv, PullsRead, ViewRead
  <2>4. DidInv'
    BY <1>2 DEF ClosePull, DidInv
  <2>5. SaidInv'
    BY <1>2 DEF ClosePull, DeliveryInv, SaidInv, SaidMine, Mine, OnePull, Declares, OwnExit,
       NothingSeen, ObservedTransition
  <2> QED
    BY <2>1, <2>2, <2>3, <2>4, <2>5 DEF DeliveryInv
<1>3. CASE label' = ~label /\ UNCHANGED <<pr, head, pushes, moved, did>>
  <2>1. TargetTyped'
    BY <1>3 DEF DeliveryInv, TargetTyped
  <2>2. PhaseInv' /\ NumberInv' /\ StillInv' /\ ExitIsProviders'
    BY <1>3 DEF DeliveryInv, PhaseInv, NumberInv, StillInv, PullsRead, ViewRead, ExitIsProviders
  <2>3. DidInv' /\ SaidInv'
    BY <1>3 DEF DeliveryInv, DidInv, SaidInv, SaidMine, Mine, OnePull, Declares, OwnExit,
       NothingSeen, ObservedTransition
  <2> QED
    BY <2>1, <2>2, <2>3 DEF DeliveryInv
<1> QED
  BY <1>1, <1>2, <1>3

LEMMA IntrudesStep ==
    ASSUME DeliveryAssumption, DeliveryInv, Intrudes PROVE DeliveryInv'
<1>1. outside' \in 0..MaxOutside
  BY DEF Intrudes, DeliveryInv, TargetTyped, DeliveryAssumption
<1> QED
  BY <1>1, TargetStep DEF Intrudes

(* The round.                                                              *)

\* A step of the round that says nothing leaves the target, and what was
\* said of it, as they are.
LEMMA NothingSaid ==
    ASSUME DeliveryInv, UNCHANGED reads
    PROVE  /\ TargetTyped' /\ SaidMine' = SaidMine /\ OnePull' = OnePull
           /\ \A o \in Says : Mine(o)' = Mine(o)
           /\ \A p \in 1..MaxPulls : head'[p] <= pushes'
           /\ \A c \in comments' : c.run <= rounds'
<1>1. UNCHANGED <<kind, pr, head, label, comments, rounds, pushes, outside, moved, did>>
  BY DEF reads, target, ghosts
<1> QED
  BY <1>1 DEF DeliveryInv, TargetTyped, NumberInv, SaidMine, Mine, OnePull

LEMMA ShotTyped ==
    ASSUME DeliveryInv
    PROVE  /\ Shot \in Shots /\ (round.after.comment => SaidMine)
           /\ Shot.head \in Nat /\ round.before.head \in Nat /\ pushes \in Nat
  BY DEF DeliveryInv, PhaseInv, RoundRecs, Shots, Shot, SaidInv, TargetTyped, Tips

\* A read changes the snapshot it is for, and where the round is.
LEMMA ReadFields ==
    ASSUME DeliveryAssumption, DeliveryInv, NEW pc \in RoundSteps, NEW s \in Shots, Reading(pc, s)
    PROVE  /\ round' \in RoundRecs /\ round'.pc = pc
           /\ round.slot = "before" => round'.before = s /\ round'.after = round.after
           /\ round.slot # "before" => round'.before = round.before /\ round'.after = s
           /\ round'.slot = round.slot /\ round'.rc = round.rc /\ round'.reason = round.reason
           /\ round'.file = round.file /\ round'.declared = round.declared
           /\ round'.comment = round.comment /\ round'.delivered = round.delivered
           /\ round'.exit = round.exit
<1>1. round \in RoundRecs
  BY DEF DeliveryInv, PhaseInv
<1>2. CASE round.slot = "before"
  <2>1. round' = [round EXCEPT !.pc = pc, !.before = s]
    BY <1>2 DEF Reading
  <2> QED
    BY <1>1, <1>2, <2>1 DEF RoundRecs
<1>3. CASE round.slot # "before"
  <2>1. round' = [round EXCEPT !.pc = pc, !.after = s]
    BY <1>3 DEF Reading
  <2> QED
    BY <1>1, <1>3, <2>1 DEF RoundRecs
<1> QED
  BY <1>2, <1>3

LEMMA ReadingStep ==
    ASSUME DeliveryAssumption, DeliveryInv, UNCHANGED reads,
           NEW pc \in {"labels", "view", After(round.slot)}, NEW s \in Shots, Reading(pc, s),
           round.pc \in {"pulls", "labels", "view"},
           s.comment = Shot.comment, s.head <= pushes, kind = "pr" => s.pr = 1
    PROVE  /\ TargetTyped' /\ PhaseInv' /\ NumberInv' /\ SaidInv' /\ ExitIsProviders'
<1>1. round.slot \in Slots
  BY DEF DeliveryInv, PhaseInv, RoundRecs
<1>2. pc \in RoundSteps /\ pc \notin {"idle", "comment", "label", "provider", "pulls"}
  BY <1>1 DEF After, RoundSteps, Slots
<1>3. /\ round' \in RoundRecs /\ round'.pc = pc
      /\ round.slot = "before" => round'.before = s /\ round'.after = round.after
      /\ round.slot # "before" => round'.before = round.before /\ round'.after = s
      /\ round'.slot = round.slot /\ round'.rc = round.rc /\ round'.reason = round.reason
      /\ round'.file = round.file /\ round'.declared = round.declared
      /\ round'.comment = round.comment /\ round'.delivered = round.delivered
      /\ round'.exit = round.exit
  BY <1>2, ReadFields
<1>4. /\ TargetTyped' /\ SaidMine' = SaidMine /\ OnePull' = OnePull
      /\ \A p \in 1..MaxPulls : head'[p] <= pushes'
      /\ \A c \in comments' : c.run <= rounds'
  BY NothingSaid
<1>5. UNCHANGED <<kind, rounds, pushes, moved, did>>
  BY DEF reads, ghosts
<1>6. PhaseInv'
  BY <1>1, <1>2, <1>3 DEF DeliveryInv, PhaseInv, After, Slots
<1>7. NumberInv'
  BY <1>3, <1>4, <1>5 DEF DeliveryInv, NumberInv
<1>8. SaidInv'
  <2>1. round'.comment \/ round'.after.comment => SaidMine
    BY <1>3 DEF DeliveryInv, SaidInv, Shot
  <2> QED
    BY <1>2, <1>3, <1>4, <1>5, <2>1 DEF DeliveryInv, SaidInv
<1>9. ExitIsProviders'
  BY <1>2, <1>3 DEF ExitIsProviders
<1> QED
  BY <1>4, <1>6, <1>7, <1>8, <1>9

LEMMA ReadPullsStep ==
    ASSUME DeliveryAssumption, DeliveryInv, ReadPulls PROVE DeliveryInv'
<1>1. round.pc = "pulls" /\ UNCHANGED reads
  BY DEF ReadPulls
<1>2. UNCHANGED <<kind, pr, head, moved, did>>
  BY <1>1 DEF reads, target, ghosts
<1>3. PICK s : /\ s \in {[Shot EXCEPT !.pr = pr], Unread(Shot)}
               /\ Reading("labels", s)
  BY DEF ReadPulls
<1>4. /\ s \in Shots /\ s.comment = Shot.comment /\ s.head = Shot.head
      /\ s.complete => s.pr = pr /\ Shot.complete
      /\ s.pr \in {pr, Shot.pr}
  BY <1>3, ShotTyped DEF Unread, Shots, DeliveryInv, TargetTyped
<1>5. s.head <= pushes /\ (kind = "pr" => s.pr = 1)
  <2>1. Shot.head <= pushes
    BY ShotTyped DEF DeliveryInv, NumberInv, Shot, PhaseInv, RoundRecs, Shots
  <2> QED
    BY <1>1, <1>4, <2>1 DEF DeliveryInv, NumberInv, TargetTyped, Shot
<1>6. TargetTyped' /\ PhaseInv' /\ NumberInv' /\ SaidInv' /\ ExitIsProviders'
  BY <1>1, <1>3, <1>4, <1>5, ReadingStep
<1>7. /\ round'.pc = "labels" /\ round'.slot = round.slot
      /\ round.slot = "before" => round'.before = s /\ round'.after = round.after
      /\ round.slot # "before" => round'.before = round.before /\ round'.after = s
  BY <1>3, <1>4, ReadFields DEF RoundSteps
<1>8. StillInv'
  BY <1>1, <1>2, <1>4, <1>7 DEF DeliveryInv, StillInv, PullsRead, ViewRead, Shot, PhaseInv
<1>9. DidInv'
  BY <1>1, <1>2, <1>4, <1>7 DEF DeliveryInv, DidInv, OnePull
<1> QED
  BY <1>6, <1>8, <1>9 DEF DeliveryInv

LEMMA ReadLabelsStep ==
    ASSUME DeliveryAssumption, DeliveryInv, ReadLabels PROVE DeliveryInv'
<1>1. round.pc = "labels" /\ UNCHANGED reads
  BY DEF ReadLabels
<1>2. UNCHANGED <<kind, pr, head, moved, did>>
  BY <1>1 DEF reads, target, ghosts
<1>3. PICK s : /\ s \in {[Shot EXCEPT !.label = label], Unread(Shot)}
               /\ Reading("view", s)
  BY DEF ReadLabels
<1>4. /\ s \in Shots /\ s.comment = Shot.comment /\ s.head = Shot.head /\ s.pr = Shot.pr
      /\ s.complete => Shot.complete
  BY <1>3, ShotTyped DEF Unread, Shots, DeliveryInv, TargetTyped
<1>5. s.head <= pushes /\ (kind = "pr" => s.pr = 1)
  BY <1>1, <1>4 DEF DeliveryInv, NumberInv, Shot
<1>6. TargetTyped' /\ PhaseInv' /\ NumberInv' /\ SaidInv' /\ ExitIsProviders'
  BY <1>1, <1>3, <1>4, <1>5, ReadingStep
<1>7. /\ round'.pc = "view" /\ round'.slot = round.slot
      /\ round.slot = "before" => round'.before = s /\ round'.after = round.after
      /\ round.slot # "before" => round'.before = round.before /\ round'.after = s
  BY <1>3, <1>4, ReadFields DEF RoundSteps
<1>8. StillInv'
  BY <1>1, <1>2, <1>4, <1>7 DEF DeliveryInv, StillInv, PullsRead, ViewRead, Shot, PhaseInv
<1>9. DidInv'
  BY <1>1, <1>2, <1>4, <1>7 DEF DeliveryInv, DidInv, OnePull, Shot
<1> QED
  BY <1>6, <1>8, <1>9 DEF DeliveryInv

LEMMA ReadViewStep ==
    ASSUME DeliveryAssumption, DeliveryInv, ReadView PROVE DeliveryInv'
<1>1. round.pc = "view" /\ UNCHANGED reads
  BY DEF ReadView
<1>2. UNCHANGED <<kind, pr, head, moved, did>>
  BY <1>1 DEF reads, target, ghosts
<1> DEFINE Seen == [Shot EXCEPT !.head = head[Shot.pr], !.label = IF kind = "pr" THEN label ELSE @]
<1>3. PICK s : /\ \/ s = Shot /\ Shot.pr = 0
                  \/ s = Seen /\ Shot.pr # 0
                  \/ s = Unread(Shot)
               /\ Reading(After(round.slot), s)
  BY DEF ReadView
<1>4. Shot.pr # 0 => head[Shot.pr] \in Tips /\ head[Shot.pr] <= pushes
  BY ShotTyped DEF Shots, Pulls, DeliveryInv, TargetTyped, NumberInv, DeliveryAssumption
<1>5. /\ s \in Shots /\ s.comment = Shot.comment /\ s.pr = Shot.pr
      /\ s.complete => Shot.complete
      /\ s.complete /\ s.pr # 0 => s.head = head[s.pr]
      /\ s.head = Shot.head \/ (Shot.pr # 0 /\ s.head = head[Shot.pr])
  <2>1. CASE s = Shot /\ Shot.pr = 0
    BY <2>1, ShotTyped
  <2>2. CASE s = Seen /\ Shot.pr # 0
    BY <2>2, <1>4, ShotTyped DEF Shots, DeliveryInv, TargetTyped
  <2>3. CASE s = Unread(Shot)
    BY <2>3, ShotTyped DEF Unread, Shots
  <2> QED
    BY <1>3, <2>1, <2>2, <2>3
<1>6. s.head <= pushes /\ (kind = "pr" => s.pr = 1)
  BY <1>1, <1>4, <1>5 DEF DeliveryInv, NumberInv, Shot
<1>7. TargetTyped' /\ PhaseInv' /\ NumberInv' /\ SaidInv' /\ ExitIsProviders'
  BY <1>1, <1>3, <1>5, <1>6, ReadingStep
<1>8. round.slot \in Slots
  BY DEF DeliveryInv, PhaseInv, RoundRecs
<1>9. After(round.slot) \in {"launch", "transition", "classify"}
  BY <1>8 DEF After, Slots
<1>10. /\ round'.pc = After(round.slot) /\ round'.slot = round.slot
       /\ round.slot = "before" => round'.before = s /\ round'.after = round.after
       /\ round.slot # "before" => round'.before = round.before /\ round'.after = s
  BY <1>3, <1>5, <1>9, ReadFields DEF RoundSteps
<1>11. StillInv'
  <2>1. Shot = IF round.slot = "before" THEN round.before ELSE round.after
    BY DEF Shot
  <2> QED
    BY <1>1, <1>2, <1>5, <1>9, <1>10, <2>1 DEF DeliveryInv, StillInv, PullsRead, ViewRead, PhaseInv
<1>12. DidInv'
  BY <1>1, <1>2, <1>5, <1>9, <1>10 DEF DeliveryInv, DidInv, OnePull, Shot
<1> QED
  BY <1>7, <1>11, <1>12 DEF DeliveryInv

\* A new round has read nothing and said nothing.
LEMMA BeginStep ==
    ASSUME DeliveryAssumption, DeliveryInv, Begin PROVE DeliveryInv'
<1>1. /\ rounds < MaxRounds /\ rounds' = rounds + 1 /\ Capture("before")
      /\ moved' = FALSE /\ did' = FALSE
      /\ UNCHANGED <<kind, pr, head, label, comments, pushes, outside>>
  BY DEF Begin, target
<1> DEFINE s == [NoSnapshot EXCEPT !.pr = IF kind = "pr" THEN 1 ELSE 0]
<1>2. round' = [IdleRound EXCEPT !.pc = First, !.before = s]
  BY <1>1 DEF Capture
<1>3. /\ s \in Shots /\ s.head = 0 /\ s.complete = TRUE /\ (kind = "pr" => s.pr = 1)
      /\ (kind # "pr" => s.pr = 0)
  BY RoundWords DEF NoSnapshot, Shots
<1>4. First = (IF kind = "issue" THEN "pulls" ELSE "view") /\ First \in RoundSteps
  BY DEF First, RoundSteps
<1>5. IdleRound \in RoundRecs
  BY RoundWords DEF IdleRound, RoundRecs, RoundSteps, Slots, Codes, Exits, Reasons, Files, Bounded,
     NoExit, Signal
<1>6. round' \in RoundRecs /\ round'.pc = First /\ round'.before = s
  BY <1>2, <1>3, <1>4, <1>5 DEF RoundRecs
<1>7. /\ round'.slot = "before" /\ round'.after = NoSnapshot
      /\ round'.rc = 0 /\ round'.reason = "completed" /\ round'.comment = FALSE
      /\ round'.delivered = FALSE /\ round'.exit = NoExit
  BY <1>2 DEF IdleRound
<1>8. rounds \in Nat /\ pushes \in Nat
  BY DEF DeliveryInv, TargetTyped, Tips
<1>9. TargetTyped'
  <2>1. rounds' \in 0..MaxRounds
    BY <1>1, <1>8 DEF DeliveryAssumption
  <2>2. moved' \in BOOLEAN /\ did' \in BOOLEAN
    BY <1>1
  <2> QED
    BY <1>1, <2>1, <2>2 DEF DeliveryInv, TargetTyped
<1>10. PhaseInv'
  BY <1>3, <1>4, <1>6, <1>7 DEF PhaseInv, Exits
<1>11. NoSnapshot.head = 0 /\ NoSnapshot.comment = FALSE
  BY DEF NoSnapshot
<1>12. NumberInv'
  <2>1. \A c \in comments : c.run \in Nat /\ c.run <= rounds
    BY DEF DeliveryInv, NumberInv, TargetTyped
  <2> QED
    BY <1>1, <1>3, <1>6, <1>7, <1>8, <1>11, <2>1 DEF DeliveryInv, NumberInv
<1>13. StillInv'
  BY <1>1, <1>3, <1>4, <1>6, <1>7 DEF DeliveryInv, TargetTyped, StillInv, PullsRead, ViewRead
<1>14. DidInv'
  BY <1>1 DEF DidInv
<1>15. ~SaidMine'
  <2>1. \A c \in comments : c.run # rounds + 1
    BY <1>8 DEF DeliveryInv, NumberInv, TargetTyped
  <2> QED
    BY <1>1, <2>1 DEF SaidMine, Mine
<1>16. SaidInv'
  <2>1. round'.pc \notin {"comment", "label"}
    BY <1>4, <1>6
  <2> QED
    BY <1>1, <1>7, <1>11, <1>15, <2>1 DEF SaidInv, NoExit
<1>17. ExitIsProviders'
  BY <1>7 DEF ExitIsProviders
<1> QED
  BY <1>9, <1>10, <1>12, <1>13, <1>14, <1>16, <1>17 DEF DeliveryInv

\* Between its snapshots a round changes none of them.
LEMMA SnapshotsKept ==
    ASSUME DeliveryInv, UNCHANGED <<kind, pr, head, pushes, moved, did>>,
           round'.slot = round.slot, round'.before = round.before, round'.after = round.after,
           \/ round'.pc = "idle"
           \/ {round.pc, round'.pc} \cap {"idle", "pulls", "labels", "view"} = {}
    PROVE  StillInv' /\ DidInv'
<1>1. round'.pc # "idle" =>
        /\ round.pc \notin {"idle", "pulls", "labels", "view"}
        /\ round'.pc \notin {"idle", "pulls", "labels", "view"}
  OBVIOUS
<1>2. StillInv'
  BY <1>1 DEF DeliveryInv, StillInv, PullsRead, ViewRead
<1>3. DidInv'
  BY <1>1 DEF DeliveryInv, DidInv, OnePull
<1> QED
  BY <1>2, <1>3

LEMMA KilledStep ==
    ASSUME DeliveryInv, Killed PROVE DeliveryInv'
<1>1. round' = [round EXCEPT !.pc = "idle", !.exit = Signal] /\ UNCHANGED reads
  BY DEF Killed, Exit
<1>2. UNCHANGED <<kind, pr, head, rounds, pushes, moved, did>>
  BY <1>1 DEF reads, target, ghosts
<1>3. /\ round' \in RoundRecs /\ round'.pc = "idle" /\ round'.exit = Signal
      /\ round'.slot = round.slot /\ round'.before = round.before /\ round'.after = round.after
      /\ round'.rc = round.rc /\ round'.reason = round.reason /\ round'.comment = round.comment
      /\ round'.delivered = round.delivered
  BY <1>1 DEF DeliveryInv, PhaseInv, RoundRecs, RoundSteps
<1>4. TargetTyped' /\ SaidMine' = SaidMine /\ OnePull' = OnePull
  BY <1>1, NothingSaid
<1>5. PhaseInv'
  BY <1>3 DEF DeliveryInv, PhaseInv
<1>6. NumberInv'
  BY <1>1, <1>2, <1>3, NothingSaid DEF DeliveryInv, NumberInv
<1>7. StillInv' /\ DidInv'
  BY <1>2, <1>3, SnapshotsKept
<1>8. SaidInv' /\ ExitIsProviders'
  BY <1>2, <1>3, <1>4 DEF DeliveryInv, SaidInv, ExitIsProviders, Signal
<1> QED
  BY <1>4, <1>5, <1>6, <1>7, <1>8 DEF DeliveryInv

LEMMA LaunchStep ==
    ASSUME DeliveryInv, Launch PROVE DeliveryInv'
<1>1. round.pc = "launch" /\ UNCHANGED reads
  BY DEF Launch
<1>2. UNCHANGED <<kind, pr, head, rounds, pushes, moved, did>>
  BY <1>1 DEF reads, target, ghosts
<1>3. \/ round.before.complete /\ round' = [round EXCEPT !.pc = "provider"]
      \/ round' = [round EXCEPT !.pc = "idle", !.exit = 2]
  BY DEF Launch, CompleteBefore, Goes, Exit
<1>4. /\ round' \in RoundRecs
      /\ \/ round.before.complete /\ round'.pc = "provider" /\ round'.exit = round.exit
         \/ round'.pc = "idle" /\ round'.exit = 2
      /\ round'.slot = round.slot /\ round'.before = round.before /\ round'.after = round.after
      /\ round'.rc = round.rc /\ round'.reason = round.reason /\ round'.comment = round.comment
      /\ round'.delivered = round.delivered
  BY <1>3 DEF DeliveryInv, PhaseInv, RoundRecs, RoundSteps
<1>5. TargetTyped' /\ SaidMine' = SaidMine /\ OnePull' = OnePull
  BY <1>1, NothingSaid
<1>6. PhaseInv'
  BY <1>1, <1>4 DEF DeliveryInv, PhaseInv
<1>7. NumberInv'
  BY <1>1, <1>2, <1>4, NothingSaid DEF DeliveryInv, NumberInv
<1>8. StillInv' /\ DidInv'
  BY <1>1, <1>2, <1>4, SnapshotsKept
<1>9. SaidInv' /\ ExitIsProviders'
  BY <1>2, <1>4, <1>5 DEF DeliveryInv, SaidInv, ExitIsProviders
<1> QED
  BY <1>5, <1>6, <1>7, <1>8, <1>9 DEF DeliveryInv

LEMMA ProviderStep ==
    ASSUME DeliveryAssumption, DeliveryInv, Provider PROVE DeliveryInv'
<1>1. round.pc = "provider" /\ UNCHANGED <<kind, comments, rounds, outside>>
  BY DEF Provider
<1>2. CASE (PushHead \/ OpenPull) /\ did' = TRUE /\ UNCHANGED round
  BY <1>1, <1>2, TargetStep DEF DeliveryInv, TargetTyped
<1>3. CASE ClosePull /\ UNCHANGED round
  BY <1>1, <1>3, TargetStep DEF DeliveryInv, TargetTyped
<1>4. CASE /\ \E f \in Files \ {"none"} : round' = [round EXCEPT !.file = f]
           /\ UNCHANGED <<pr, head, label, pushes, moved, did>>
  <2>1. PICK f \in Files : round' = [round EXCEPT !.file = f]
    BY <1>4
  <2>2. /\ round' \in RoundRecs /\ round'.pc = "provider" /\ round'.exit = round.exit
        /\ round'.slot = round.slot /\ round'.before = round.before /\ round'.after = round.after
        /\ round'.rc = round.rc /\ round'.reason = round.reason /\ round'.comment = round.comment
        /\ round'.delivered = round.delivered
    BY <1>1, <2>1 DEF DeliveryInv, PhaseInv, RoundRecs
  <2>3. UNCHANGED reads
    BY <1>1, <1>4 DEF reads, target, ghosts
  <2>4. TargetTyped' /\ SaidMine' = SaidMine /\ OnePull' = OnePull
    BY <2>3, NothingSaid
  <2>5. PhaseInv'
    BY <1>1, <2>2 DEF DeliveryInv, PhaseInv
  <2>6. NumberInv'
    BY <1>1, <1>4, <2>2, <2>3, NothingSaid DEF DeliveryInv, NumberInv
  <2>7. StillInv' /\ DidInv'
    BY <1>1, <1>4, <2>2, SnapshotsKept
  <2>8. SaidInv' /\ ExitIsProviders'
    BY <1>1, <1>4, <2>2, <2>4 DEF DeliveryInv, SaidInv, ExitIsProviders
  <2> QED
    BY <2>4, <2>5, <2>6, <2>7, <2>8 DEF DeliveryInv
<1> QED
  BY <1>2, <1>3, <1>4 DEF Provider

\* A provider that ends has said nothing yet: its round takes its second
\* snapshot from here.
LEMMA ProviderEndsStep ==
    ASSUME DeliveryAssumption, DeliveryInv, ProviderEnds PROVE DeliveryInv'
<1>1. round.pc = "provider" /\ UNCHANGED reads
  BY DEF ProviderEnds
<1>2. UNCHANGED <<kind, pr, head, rounds, pushes, moved, did>>
  BY <1>1 DEF reads, target, ghosts
<1> DEFINE s == [NoSnapshot EXCEPT !.pr = IF kind = "pr" THEN 1 ELSE 0]
<1>3. PICK reason \in Reasons, rc \in Exits :
         round' = [round EXCEPT !.pc = First, !.slot = "after", !.reason = reason,
                                !.rc = IF reason \in Caps THEN CapExit[reason] ELSE rc,
                                !.after = s]
  BY DEF ProviderEnds
<1> DEFINE code == IF reason \in Caps THEN CapExit[reason] ELSE rc
<1>4. code \in Codes /\ (reason = "completed" => code \in Exits)
  BY RoundWords
<1>5. /\ s \in Shots /\ s.head = 0 /\ s.comment = FALSE /\ s.complete = TRUE
      /\ (kind = "pr" => s.pr = 1) /\ (kind # "pr" => s.pr = 0)
  BY RoundWords DEF NoSnapshot, Shots
<1>6. First = (IF kind = "issue" THEN "pulls" ELSE "view") /\ First \in RoundSteps
  BY DEF First, RoundSteps
<1>7. /\ round' \in RoundRecs /\ round'.pc = First /\ round'.slot = "after"
      /\ round'.reason = reason /\ round'.rc = code /\ round'.after = s
      /\ round'.before = round.before /\ round'.comment = round.comment
      /\ round'.delivered = round.delivered /\ round'.exit = round.exit
  BY <1>3, <1>4, <1>5, <1>6 DEF DeliveryInv, PhaseInv, RoundRecs, Slots
<1>8. round.slot = "before" /\ round.before.complete
  BY <1>1 DEF DeliveryInv, PhaseInv, RoundRecs, Slots
<1>9. TargetTyped' /\ SaidMine' = SaidMine /\ OnePull' = OnePull
  BY <1>1, NothingSaid
<1>10. PhaseInv'
  BY <1>1, <1>4, <1>6, <1>7, <1>8 DEF DeliveryInv, PhaseInv
<1>11. NumberInv'
  BY <1>1, <1>2, <1>5, <1>7, NothingSaid, ShotTyped DEF DeliveryInv, NumberInv
<1>12. StillInv'
  <2>1. kind \in {"issue", "pr"} /\ (kind = "pr" => pr = 1 /\ round.before.pr = 1)
    BY <1>1 DEF DeliveryInv, TargetTyped, NumberInv
  <2> QED
    BY <1>1, <1>2, <1>5, <1>6, <1>7, <1>8, <2>1 DEF DeliveryInv, StillInv, PullsRead, ViewRead
<1>13. DidInv'
  <2>1. kind \in {"issue", "pr"}
    BY DEF DeliveryInv, TargetTyped
  <2> QED
    BY <1>2, <1>5, <1>6, <1>7, <1>9, <2>1 DEF DeliveryInv, DidInv
<1>14. SaidInv' /\ ExitIsProviders'
  <2>1. ~SaidMine
    BY <1>8 DEF DeliveryInv, SaidInv
  <2>2. round'.pc \notin {"idle", "comment", "label"}
    BY <1>6, <1>7
  <2> QED
    BY <1>2, <1>5, <1>7, <1>9, <2>1, <2>2 DEF DeliveryInv, SaidInv, ExitIsProviders
<1> QED
  BY <1>9, <1>10, <1>11, <1>12, <1>13, <1>14 DEF DeliveryInv

\* A declaration is taken up from a provider that finished, on a target
\* seen not to move.
LEMMA TransitionStep ==
    ASSUME DeliveryInv, Transition PROVE DeliveryInv'
<1>1. round.pc = "transition" /\ UNCHANGED reads
  BY DEF Transition
<1>2. UNCHANGED <<kind, pr, head, rounds, pushes, moved, did>>
  BY <1>1 DEF reads, target, ghosts
<1>3. \/ Declares /\ round' = [round EXCEPT !.pc = "comment", !.declared = round.file]
      \/ round' = [round EXCEPT !.pc = "classify"]
  BY DEF Transition
<1>4. Declares => round.file \in Bounded
  BY DEF Declares
<1>5. /\ round' \in RoundRecs
      /\ \/ Declares /\ round'.pc = "comment" /\ round'.declared = round.file
         \/ round'.pc = "classify"
      /\ round'.slot = round.slot /\ round'.before = round.before /\ round'.after = round.after
      /\ round'.rc = round.rc /\ round'.reason = round.reason /\ round'.comment = round.comment
      /\ round'.file = round.file
      /\ round'.delivered = round.delivered /\ round'.exit = round.exit
  BY <1>3, <1>4 DEF DeliveryInv, PhaseInv, RoundRecs, RoundSteps
<1>6. TargetTyped' /\ SaidMine' = SaidMine /\ OnePull' = OnePull
  BY <1>1, NothingSaid
<1>7. PhaseInv'
  BY <1>1, <1>5 DEF DeliveryInv, PhaseInv
<1>8. NumberInv'
  BY <1>1, <1>2, <1>5, NothingSaid DEF DeliveryInv, NumberInv
<1>9. StillInv' /\ DidInv'
  BY <1>1, <1>2, <1>5, SnapshotsKept
<1>10. Declares' = Declares
  BY <1>5 DEF Declares, OwnExit, NothingSeen, ObservedTransition
<1>11. SaidInv' /\ ExitIsProviders'
  BY <1>1, <1>2, <1>5, <1>6, <1>10 DEF DeliveryInv, SaidInv, ExitIsProviders
<1> QED
  BY <1>6, <1>7, <1>8, <1>9, <1>11 DEF DeliveryInv

\* A seen outcome is not one of a provider that delivered.
LEMMA NothingDone ==
    ASSUME DeliveryAssumption, DeliveryInv, Declares, OnePull,
           round.slot = "after", round.pc \in {"transition", "comment"}
    PROVE  ~did
<1> SUFFICES ASSUME did PROVE FALSE
  OBVIOUS
<1>1. round.before.complete /\ round.after.complete
  BY DEF Declares, NothingSeen, ObservedTransition
<1>2. round.after.pr = 1 /\ round.after.head > round.before.head
  BY <1>1 DEF DeliveryInv, DidInv
<1>3. round.after.head \in Nat /\ round.before.head \in Nat /\ round.before.pr \in Pulls
  BY DEF DeliveryInv, PhaseInv, RoundRecs, Shots, Tips
<1>4. round.before.pr \in {0, 1}
  BY <1>3 DEF DeliveryInv, NumberInv, OnePull, Pulls
<1>5. Opens(round.before, round.after) \/ Advances(round.before, round.after)
  BY <1>2, <1>3, <1>4 DEF Opens, Advances
<1> QED
  BY <1>1, <1>5 DEF Declares, NothingSeen, ObservedTransition

\* What a round says is recorded as its own.
LEMMA CommentStep ==
    ASSUME DeliveryAssumption, DeliveryInv, Comment PROVE DeliveryInv'
<1>1. round.pc = "comment" /\ UNCHANGED <<kind, pr, head, label, rounds, pushes, outside, moved, did>>
  BY DEF Comment, ghosts
<1>2. Declares /\ round.declared = round.file /\ round.declared \in Bounded
  BY <1>1 DEF DeliveryInv, SaidInv, Declares
<1>3. round.slot = "after"
  BY <1>1 DEF DeliveryInv, PhaseInv, RoundRecs, Slots
<1>4. /\ Posted(round.declared) \/ UNCHANGED comments
      /\ \/ Posted(round.declared) /\ round' = [round EXCEPT !.pc = "label", !.comment = TRUE]
         \/ round' = [round EXCEPT !.pc = "classify", !.declared = "none"]
  BY DEF Comment, Voided
<1>5. /\ round' \in RoundRecs
      /\ \/ /\ Posted(round.declared) /\ round'.pc = "label"
            /\ round'.comment = TRUE /\ round'.declared = round.declared
         \/ round'.pc = "classify" /\ round'.comment = round.comment
      /\ round'.slot = round.slot /\ round'.before = round.before /\ round'.after = round.after
      /\ round'.rc = round.rc /\ round'.reason = round.reason /\ round'.file = round.file
      /\ round'.delivered = round.delivered /\ round'.exit = round.exit
  BY <1>4 DEF DeliveryInv, PhaseInv, RoundRecs, RoundSteps
<1>6. rounds \in 1..MaxRounds
  BY <1>1 DEF DeliveryInv, TargetTyped, NumberInv
<1>7. \/ comments' = comments
      \/ comments' = comments \cup {[run |-> rounds, says |-> round.declared]}
  BY <1>4 DEF Posted
<1>8. TargetTyped'
  <2>1. [run |-> rounds, says |-> round.declared] \in [run: 1..MaxRounds, says: Says]
    BY <1>2, <1>6 DEF Says
  <2>2. comments' \subseteq [run: 1..MaxRounds, says: Says]
    BY <1>7, <2>1 DEF DeliveryInv, TargetTyped
  <2> QED
    BY <1>1, <2>2 DEF DeliveryInv, TargetTyped
<1>9. PhaseInv'
  BY <1>1, <1>3, <1>5 DEF DeliveryInv, PhaseInv
<1>10. NumberInv'
  <2>1. \A c \in comments' : c.run <= rounds
    BY <1>6, <1>7 DEF DeliveryInv, NumberInv
  <2> QED
    BY <1>1, <1>5, <2>1 DEF DeliveryInv, NumberInv
<1>11. StillInv' /\ DidInv'
  BY <1>1, <1>5, SnapshotsKept
<1>12. SaidInv'
  <2>1. SaidMine => SaidMine'
    BY <1>1, <1>7 DEF SaidMine, Mine
  <2>2. Posted(round.declared) =>
          [run |-> rounds', says |-> round.declared] \in comments' /\ SaidMine'
    BY <1>1, <1>2 DEF Posted, SaidMine, Mine
  <2>3. /\ round.reason = "completed" /\ round.rc = 0 /\ round.slot # "before"
        /\ OnePull => ~did
    BY <1>1, <1>2, <1>3, NothingDone DEF Declares, OwnExit, DeliveryInv, PhaseInv, RoundRecs, Reasons
  <2>4. Declares' = Declares
    BY <1>5 DEF Declares, OwnExit, NothingSeen, ObservedTransition
  <2>5. OnePull' = OnePull
    BY <1>1 DEF OnePull
  <2>6. round'.pc = "label" =>
          /\ [run |-> rounds', says |-> round'.declared] \in comments'
          /\ round'.declared = round'.file
    BY <1>2, <1>5, <2>2
  <2>7. round'.comment \/ round'.after.comment => SaidMine'
    BY <1>5, <2>1, <2>2 DEF DeliveryInv, SaidInv
  <2>8. /\ SaidMine' => round'.slot # "before" /\ round'.reason = "completed" /\ round'.rc = 0
        /\ round'.pc \in {"comment", "label"} => Declares'
    BY <1>2, <1>5, <2>3, <2>4
  <2>9. /\ round'.delivered => moved' \/ SaidMine'
        /\ round'.exit = 0 => round'.delivered
        /\ OnePull' => ~did'
    BY <1>1, <1>5, <2>1, <2>3, <2>5 DEF DeliveryInv, SaidInv
  <2> QED
    BY <1>5, <2>6, <2>7, <2>8, <2>9 DEF SaidInv, Mine
<1>13. ExitIsProviders'
  BY <1>5 DEF ExitIsProviders
<1> QED
  BY <1>8, <1>9, <1>10, <1>11, <1>12, <1>13 DEF DeliveryInv

\* The snapshot after the outcome is read anew.
LEMMA BlockStep ==
    ASSUME DeliveryAssumption, DeliveryInv, Label PROVE DeliveryInv'
<1>1. /\ round.pc = "label" /\ Capture("again")
      /\ UNCHANGED <<kind, pr, head, comments, rounds, pushes, outside, moved, did>>
  BY DEF Label, ghosts
<1> DEFINE s == [NoSnapshot EXCEPT !.pr = IF kind = "pr" THEN 1 ELSE 0]
           t == [s EXCEPT !.comment = round.comment]
<1>2. round' = [round EXCEPT !.pc = First, !.slot = "again", !.after = t]
  BY <1>1 DEF Capture
<1>3. round.comment \in BOOLEAN
  BY DEF DeliveryInv, PhaseInv, RoundRecs
<1>4. /\ t \in Shots /\ t.head = 0 /\ t.comment = round.comment /\ t.complete = TRUE
      /\ (kind = "pr" => t.pr = 1) /\ (kind # "pr" => t.pr = 0)
  BY <1>3, RoundWords DEF NoSnapshot, Shots
<1>5. First = (IF kind = "issue" THEN "pulls" ELSE "view") /\ First \in RoundSteps
  BY DEF First, RoundSteps
<1>6. /\ round' \in RoundRecs /\ round'.pc = First /\ round'.slot = "again"
      /\ round'.reason = round.reason /\ round'.rc = round.rc /\ round'.after = t
      /\ round'.before = round.before /\ round'.comment = round.comment
      /\ round'.delivered = round.delivered /\ round'.exit = round.exit
  BY <1>2, <1>4, <1>5 DEF DeliveryInv, PhaseInv, RoundRecs, Slots
<1>7. round.slot = "after" /\ round.before.complete
  BY <1>1 DEF DeliveryInv, PhaseInv, RoundRecs, Slots
<1>8. TargetTyped'
  <2>1. label' \in BOOLEAN
    BY DEF Label, DeliveryInv, TargetTyped
  <2> QED
    BY <1>1, <2>1 DEF DeliveryInv, TargetTyped
<1>9. SaidMine' = SaidMine /\ OnePull' = OnePull
  BY <1>1 DEF SaidMine, Mine, OnePull
<1>10. PhaseInv'
  BY <1>1, <1>5, <1>6, <1>7 DEF DeliveryInv, PhaseInv
<1>11. NumberInv'
  BY <1>1, <1>4, <1>6, ShotTyped DEF DeliveryInv, NumberInv
<1>12. StillInv'
  <2>1. kind \in {"issue", "pr"} /\ (kind = "pr" => pr = 1 /\ round.before.pr = 1)
    BY <1>1 DEF DeliveryInv, TargetTyped, NumberInv
  <2> QED
    BY <1>1, <1>4, <1>5, <1>6, <1>7, <2>1 DEF DeliveryInv, StillInv, PullsRead, ViewRead
<1>13. DidInv'
  BY <1>1, <1>6, <1>9 DEF DeliveryInv, DidInv
<1>14. SaidInv' /\ ExitIsProviders'
  <2>1. round'.pc \notin {"idle", "comment", "label"}
    BY <1>5, <1>6
  <2> QED
    BY <1>1, <1>4, <1>6, <1>7, <1>9, <2>1 DEF DeliveryInv, SaidInv, ExitIsProviders
<1> QED
  BY <1>8, <1>10, <1>11, <1>12, <1>13, <1>14 DEF DeliveryInv

\* A delivery was seen, and then the target moved; or declared, and then it
\* was said.
LEMMA DeliveredForReal ==
    ASSUME DeliveryInv, round.pc = "classify", Delivered
    PROVE  moved \/ SaidMine
<1>1. round.slot # "before"
  BY DEF DeliveryInv, PhaseInv
<1>2. CASE ObservedTransition \in {"pr_opened", "head_advanced"}
  <2>1. /\ round.before.complete /\ round.after.complete
        /\ Opens(round.before, round.after) \/ Advances(round.before, round.after)
    BY <1>2 DEF ObservedTransition
  <2>2. moved \in BOOLEAN
    BY DEF DeliveryInv, TargetTyped
  <2> QED
    BY <1>1, <2>1, <2>2 DEF DeliveryInv, StillInv, PullsRead, ViewRead, Opens, Advances
<1>3. CASE Validated
  BY <1>3 DEF Validated, DeliveryInv, SaidInv
<1> QED
  BY <1>2, <1>3 DEF Delivered

LEMMA ClassifyStep ==
    ASSUME DeliveryInv, Classify PROVE DeliveryInv'
<1>1. round.pc = "classify" /\ UNCHANGED reads
  BY DEF Classify
<1>2. UNCHANGED <<kind, pr, head, rounds, pushes, moved, did>>
  BY <1>1 DEF reads, target, ghosts
<1>3. round' = [round EXCEPT !.pc = "report", !.delivered = Delivered]
  BY DEF Classify
<1>4. Delivered \in BOOLEAN
  BY DEF Delivered
<1>5. /\ round' \in RoundRecs /\ round'.pc = "report" /\ round'.delivered = Delivered
      /\ round'.slot = round.slot /\ round'.before = round.before /\ round'.after = round.after
      /\ round'.rc = round.rc /\ round'.reason = round.reason /\ round'.comment = round.comment
      /\ round'.exit = round.exit
  BY <1>3, <1>4 DEF DeliveryInv, PhaseInv, RoundRecs, RoundSteps
<1>6. TargetTyped' /\ SaidMine' = SaidMine /\ OnePull' = OnePull
  BY <1>1, NothingSaid
<1>7. PhaseInv'
  BY <1>1, <1>5 DEF DeliveryInv, PhaseInv
<1>8. NumberInv'
  BY <1>1, <1>2, <1>5, NothingSaid DEF DeliveryInv, NumberInv
<1>9. StillInv' /\ DidInv'
  BY <1>1, <1>2, <1>5, SnapshotsKept
<1>10. Delivered => moved \/ SaidMine
  BY <1>1, DeliveredForReal
<1>11. SaidInv' /\ ExitIsProviders'
  <2>1. round'.exit # 0
    BY <1>1, <1>5 DEF DeliveryInv, PhaseInv, NoExit
  <2> QED
    BY <1>1, <1>2, <1>5, <1>6, <1>10, <2>1 DEF DeliveryInv, SaidInv, ExitIsProviders
<1> QED
  BY <1>6, <1>7, <1>8, <1>9, <1>11 DEF DeliveryInv

\* What a report says is not an outcome, and what it exits with is.
LEMMA ReportStep ==
    ASSUME DeliveryAssumption, DeliveryInv, Report PROVE DeliveryInv'
<1>1. round.pc = "report" /\ UNCHANGED <<kind, pr, head, label, rounds, pushes, outside, moved, did>>
  BY DEF Report, ghosts
<1>2. round' = [round EXCEPT !.pc = "idle", !.exit = ExitCode]
  BY DEF Report, Exit
<1>3. rounds \in 1..MaxRounds
  BY <1>1 DEF DeliveryInv, TargetTyped, NumberInv
<1>4. PICK says \in {"undelivered", "capped"} :
         comments' = comments \/ comments' = comments \cup {[run |-> rounds, says |-> says]}
  BY DEF Report, Posted
<1>5. TargetTyped'
  <2>1. [run |-> rounds, says |-> says] \in [run: 1..MaxRounds, says: Says]
    BY <1>3 DEF Says
  <2>2. comments' \subseteq [run: 1..MaxRounds, says: Says]
    BY <1>4, <2>1 DEF DeliveryInv, TargetTyped
  <2> QED
    BY <1>1, <2>2 DEF DeliveryInv, TargetTyped
<1>6. SaidMine' = SaidMine
  BY <1>1, <1>4 DEF SaidMine, Mine, Bounded
<1>7. /\ ExitCode \in {3} \cup Exits
      /\ ExitCode = 0 => round.delivered
      /\ ExitCode \notin {0, 3} => round.reason = "completed" /\ ExitCode = round.rc
  <2>1. round.reason \in Reasons /\ (round.reason = "completed" => round.rc \in Exits)
    BY DEF DeliveryInv, PhaseInv, RoundRecs
  <2>2. Passed => round.reason = "completed" /\ round.rc \in Exits /\ round.rc # 0
    BY <2>1 DEF Passed, Capped, Reasons
  <2> QED
    BY <2>2 DEF ExitCode, Exits
<1>8. /\ round' \in RoundRecs /\ round'.pc = "idle" /\ round'.exit = ExitCode
      /\ round'.slot = round.slot /\ round'.before = round.before /\ round'.after = round.after
      /\ round'.rc = round.rc /\ round'.reason = round.reason /\ round'.comment = round.comment
      /\ round'.delivered = round.delivered
  BY <1>2, <1>7 DEF DeliveryInv, PhaseInv, RoundRecs, RoundSteps
<1>9. PhaseInv'
  BY <1>1, <1>8 DEF DeliveryInv, PhaseInv
<1>10. NumberInv'
  <2>1. \A c \in comments' : c.run <= rounds
    BY <1>3, <1>4 DEF DeliveryInv, NumberInv
  <2> QED
    BY <1>1, <1>8, <2>1 DEF DeliveryInv, NumberInv
<1>11. StillInv' /\ DidInv'
  BY <1>1, <1>8, SnapshotsKept
<1>12. SaidInv' /\ ExitIsProviders'
  BY <1>1, <1>6, <1>7, <1>8 DEF DeliveryInv, SaidInv, ExitIsProviders, OnePull
<1> QED
  BY <1>5, <1>9, <1>10, <1>11, <1>12 DEF DeliveryInv

LEMMA DeliveryInductive ==
    DeliveryAssumption /\ DeliveryInv /\ [DeliveryNext]_deliveryVars => DeliveryInv'
<1> SUFFICES ASSUME DeliveryAssumption, DeliveryInv, [DeliveryNext]_deliveryVars PROVE DeliveryInv'
  OBVIOUS
<1>1. CASE UNCHANGED deliveryVars
  <2>1. UNCHANGED reads /\ UNCHANGED round
    BY <1>1 DEF deliveryVars, reads
  <2>2. UNCHANGED <<kind, pr, head, label, comments, rounds, pushes, outside, moved, did>>
    BY <2>1 DEF reads, target, ghosts
  <2>3. TargetTyped' /\ SaidMine' = SaidMine /\ OnePull' = OnePull
    BY <2>1, NothingSaid
  <2>4. PhaseInv' /\ NumberInv' /\ StillInv' /\ DidInv' /\ ExitIsProviders'
    BY <2>1, <2>2, <2>3 DEF DeliveryInv, PhaseInv, NumberInv, StillInv, PullsRead, ViewRead, DidInv,
       ExitIsProviders
  <2>5. SaidInv'
    <3>1. Declares' = Declares
      BY <2>1 DEF Declares, OwnExit, NothingSeen, ObservedTransition
    <3> QED
      BY <2>1, <2>2, <2>3, <3>1 DEF DeliveryInv, SaidInv, Mine
  <2> QED
    BY <2>3, <2>4, <2>5 DEF DeliveryInv
<1>2. CASE DeliveryNext
  BY <1>2, IntrudesStep, BeginStep, ReadPullsStep, ReadLabelsStep, ReadViewStep, LaunchStep,
     ProviderStep, ProviderEndsStep, TransitionStep, CommentStep, BlockStep, ClassifyStep,
     ReportStep, KilledStep DEF DeliveryNext
<1> QED
  BY <1>1, <1>2

THEOREM DeliveryInductiveInvariant == DeliveryAssumption => (DeliverySpec => []DeliveryInv)
<1> SUFFICES ASSUME DeliveryAssumption PROVE DeliverySpec => []DeliveryInv
  OBVIOUS
<1>1. DeliveryInit => DeliveryInv
  BY DeliveryStarts
<1>2. DeliveryInv /\ [DeliveryNext]_deliveryVars => DeliveryInv'
  BY DeliveryInductive
<1> QED
  BY <1>1, <1>2, PTL DEF DeliverySpec

\* The state of a delivery is of its type.
THEOREM DeliveryTypeCorrect == DeliveryAssumption => (DeliverySpec => []DeliveryTypeOK)
<1> SUFFICES ASSUME DeliveryAssumption PROVE DeliverySpec => []DeliveryTypeOK
  OBVIOUS
<1>1. ASSUME DeliveryInv PROVE DeliveryTypeOK
  <2>1. /\ round.pc \in RoundSteps /\ round.slot \in Slots /\ round.reason \in Reasons
        /\ round.declared \in Bounded \cup {"none"}
        /\ round.exit \in {NoExit, Signal, 2, 3} \cup Exits
    BY <1>1 DEF DeliveryInv, PhaseInv, RoundRecs
  <2>2. round.before.complete \/ round.pc \in {"idle", "labels", "view", "launch"}
    BY <1>1, <2>1 DEF DeliveryInv, PhaseInv
  <2>3. round.pc \in {"comment", "label"} => round.declared # "none"
    BY <1>1 DEF DeliveryInv, SaidInv, Declares, Bounded
  <2> QED
    BY <1>1, <2>1, <2>2, <2>3 DEF DeliveryInv, TargetTyped, DeliveryTypeOK
<1>2. DeliverySpec => []DeliveryInv
  BY DeliveryInductiveInvariant
<1> QED
  BY <1>1, <1>2, PTL

LEMMA RealByInvariant ==
    ASSUME DeliveryInv
    PROVE  /\ MovedOrTold /\ ToldByFinished /\ ExitIsProviders
           /\ OnePull => OutcomeIsInstead
<1>1. MovedOrTold
  BY DEF DeliveryInv, SaidInv, MovedOrTold
<1>2. ToldByFinished
  BY DEF DeliveryInv, SaidInv, PhaseInv, ToldByFinished
<1> QED
  BY <1>1, <1>2 DEF DeliveryInv, SaidInv, OutcomeIsInstead

\* However many pull requests a lane opens for its unit: a round that ends
\* well moved its target or told its owner why not, on the word of a
\* provider that finished, and it exits with the provider's own code; and
\* where there is one pull request to deliver to, what it says is not said
\* of a provider that delivered (run_mac_lane.sh, classify_delivery).
THEOREM DeliveryIsHonest ==
    DeliveryAssumption =>
      (DeliverySpec => [](/\ MovedOrTold /\ ToldByFinished /\ ExitIsProviders
                          /\ OnePull => OutcomeIsInstead))
<1> SUFFICES ASSUME DeliveryAssumption
             PROVE  DeliverySpec => [](/\ MovedOrTold /\ ToldByFinished /\ ExitIsProviders
                                       /\ OnePull => OutcomeIsInstead)
  OBVIOUS
<1>1. DeliverySpec => []DeliveryInv
  BY DeliveryInductiveInvariant
<1> QED
  BY <1>1, RealByInvariant, PTL

\* With one pull request for the unit a delivery is real, whatever the
\* provider, somebody else and GitHub do (DeliveryIsReal).
THEOREM RealDelivery ==
    ASSUME DeliveryAssumption, MaxPulls = 1
    PROVE  DeliverySpec => []DeliveryIsReal
<1>1. ASSUME DeliveryInv PROVE DeliveryIsReal
  BY <1>1, RealByInvariant DEF OnePull, DeliveryIsReal
<1>2. DeliverySpec => []DeliveryInv
  BY DeliveryInductiveInvariant
<1> QED
  BY <1>1, <1>2, PTL

\* A target is blocked only after the comment that explains it
\* (run_mac_lane.sh).
THEOREM ExplainedBlock ==
    DeliveryAssumption => (DeliverySpec => [][BlockIsExplained]_deliveryVars)
<1> SUFFICES ASSUME DeliveryAssumption PROVE DeliverySpec => [][BlockIsExplained]_deliveryVars
  OBVIOUS
<1>1. ASSUME DeliveryInv PROVE BlockIsExplained
  BY <1>1 DEF BlockIsExplained, Label, Blocks, DeliveryInv, SaidInv
<1>2. DeliverySpec => []DeliveryInv
  BY DeliveryInductiveInvariant
<1> QED
  BY <1>1, <1>2, PTL DEF DeliverySpec
==============================================================================
