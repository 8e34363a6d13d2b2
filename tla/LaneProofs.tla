------------------------------ MODULE LaneProofs ------------------------------
(***************************************************************************)
(* Who works on a unit of work: an issue that is handed to a lane          *)
(* (LaneDispatch), and a round of it handed over between lanes             *)
(* (LaneHandoff), for any number of issues, lanes, rounds and commits, and *)
(* whatever fails, is killed or is changed by people in between.           *)
(*                                                                         *)
(* The invariant of the dispatch has two halves.  World is about the       *)
(* issues: what a builder was told or works on is still labelled, or was   *)
(* taken back; only a local lane's own runner opens its pull requests.     *)
(* Position says what the dispatcher knows where it stands: an issue left  *)
(* on its list of ready ones is out to nobody, and a lane that nobody else *)
(* touches has at most what the run has counted and sent.                  *)
(*                                                                         *)
(* In a takeover an intent is written only by the run whose lane it names, *)
(* so what that run did last is what the intent says (Handed); the exit of *)
(* a round is proved by its mailbox alone, and is never taken back         *)
(* (RoundInv).                                                             *)
(***************************************************************************)
EXTENDS LaneDispatch, LaneHandoff, FiniteSetTheorems, WellFoundedInduction, TLAPS

(***************************************************************************)
(* From an issue to a lane                                                 *)
(***************************************************************************)
Pcs == {"idle", "expire", "stale", "vouch", "age", "unlabel", "ask", "pulls", "sent", "count",
        "ready", "gate", "deps", "free", "label", "comment", "undo"}
RunRecs == [pc : Pcs, lane : LaneIds \cup {0}, todo : SUBSET Issues, load : Nat, sent : Nat,
            then : {"gate", "unlabel"}]
RunnerRecs == [pc : {"idle", "pick", "build"}, seen : SUBSET Issues, issue : Issues \cup {0}]
Pulls == Issues \X LaneIds \X (1..2)

Types ==
    /\ labels \in [Issues -> SUBSET Labels] /\ told \in [Issues -> SUBSET LaneIds]
    /\ open \in SUBSET Issues /\ assigned \in SUBSET Issues /\ trusted \in SUBSET Issues
    /\ order \in SUBSET Issues /\ waits \in SUBSET Issues /\ vouched \in SUBSET Issues
    /\ retaken \in SUBSET Issues /\ old \in SUBSET (Issues \X LaneIds)
    /\ asked \in [Issues -> Nat] /\ pulls \in SUBSET Pulls
    /\ walk \in RunRecs /\ runner \in [Local -> RunnerRecs]
    /\ faults \in Nat /\ changes \in Nat /\ quiet \in BOOLEAN /\ before \in [LaneIds -> Nat]

\* The lanes an issue is out to, by its labels and by what a builder knows.
Sents(i) == {l \in LaneIds : Sent(l) \in labels[i]}
Out(i) == told[i] \cup AtWork(i)
SentOnce == \A i \in Issues : \A k, l \in Sents(i) : k = l
AskedOnce == \A i \in Issues : asked[i] <= 1
OutInv == \A i \in Issues \ retaken : Out(i) \subseteq Sents(i)

\* Only its runner opens pull requests of a local lane, and not for an issue
\* that had one when the runner looked.
LocalInv == \A l \in Local :
    /\ \A i \in Issues : <<i, l, 2>> \notin pulls
    /\ runner[l].pc = "pick" => \A i \in Issues \ runner[l].seen : <<i, l, 1>> \notin pulls
    /\ runner[l].pc = "build" => runner[l].issue \in Issues /\ <<runner[l].issue, l, 1>> \notin pulls

VouchedInv == trusted \cup order \subseteq vouched /\ \A i \in Issues : Out(i) # {} => i \in vouched

World == /\ Types /\ SentOnce /\ AskedOnce /\ OutInv /\ LocalInv /\ VouchedInv /\ CapIsKept

\* Where the dispatcher works on an issue of its list, and on a ready one.
Picking == {"stale", "vouch", "age", "unlabel", "ask", "count", "gate", "deps", "free", "label",
            "comment", "undo"}
Choosing == walk.pc \in {"gate", "deps", "free", "label"} \/ (walk.pc = "ask" /\ walk.then = "gate")

PlaceInv == /\ walk.pc # "idle" => walk.lane \in LaneIds
            /\ walk.pc \in Picking => walk.todo # {}
            /\ walk.pc # "ask" => walk.then = "gate"
ItemInv == /\ walk.pc = "ask" => asked[Item] = 0
           /\ walk.pc \in {"deps", "free", "label", "comment", "undo"} => Item \in vouched
           /\ walk.pc \in {"comment", "undo"} => Sents(Item) = {walk.lane}
ReadyInv == /\ Choosing => \A i \in walk.todo : Sents(i) = {}
            /\ walk.pc \in {"comment", "undo"} => \A i \in walk.todo \ {Item} : Sents(i) = {}

\* What is counted as in hand besides the pull requests, and how far the
\* count has come.
Counted(l) == {i \in Active(l) : Allowed(i) /\ ~HasPull(i)}
Load(l) ==
    /\ walk.pc = "sent" => Cardinality(PullsOf(l)) <= walk.load
    /\ walk.pc = "count" => Cardinality(PullsOf(l)) + Cardinality(Counted(l) \ walk.todo) <= walk.load
    /\ walk.pc = "ready" => InHand(l) <= walk.load
    /\ Choosing => InHand(l) <= walk.load + walk.sent
    /\ walk.pc = "comment" => InHand(l) <= walk.load + walk.sent + 1
LoadInv == quiet => \A l \in LaneIds : l = walk.lane => Load(l)
RoomInv == Choosing \/ walk.pc = "comment" => walk.load + walk.sent < MaxWip

Position == PlaceInv /\ ItemInv /\ ReadyInv /\ LoadInv /\ RoomInv

DispatchInv == World /\ Position
-----------------------------------------------------------------------------
(* Numbers and sets.                                                       *)

\* A set of issues has a first one.
LEMMA MinIsIn == ASSUME NEW S \in SUBSET Nat, S # {} PROVE Min(S) \in S
<1> DEFINE R == OpToRel(<, Nat)
<1>1. \E x \in S : \A y \in S : ~ (<<y, x>> \in R)
  BY NatLessThanWellFounded, WFMin
<1>2. PICK x \in S : \A y \in S : ~(y < x)
  BY <1>1 DEF OpToRel
<1>3. \A y \in S : x <= y
  BY <1>2
<1> QED
  BY <1>3 DEF Min

LEMMA ItemIsIn ==
    ASSUME DispatchAssumption, Types, walk.todo # {}
    PROVE  Item \in walk.todo /\ Item \in Issues
<1>1. walk.todo \in SUBSET Issues /\ walk.todo \in SUBSET Nat
  BY DEF DispatchAssumption, Types, RunRecs
<1> QED
  BY <1>1, MinIsIn DEF Item

\* Whatever is counted is finite.
LEMMA AllFinite ==
    ASSUME DispatchAssumption
    PROVE  /\ \A S \in SUBSET Issues : IsFiniteSet(S) /\ Cardinality(S) \in Nat
           /\ \A S \in SUBSET Pulls : IsFiniteSet(S) /\ Cardinality(S) \in Nat
<1>0. IsFiniteSet(1..2)
  <2>1. 1 \in Int /\ 2 \in Int
    OBVIOUS
  <2> QED
    BY <2>1, FS_Interval, Zenon
<1>1. IsFiniteSet(Issues) /\ IsFiniteSet(LaneIds) /\ IsFiniteSet(1..2)
  BY <1>0 DEF DispatchAssumption
<1>2. IsFiniteSet((Issues \X LaneIds) \X (1..2))
  BY <1>1, FS_Product
<1> DEFINE f == [p \in Pulls |-> <<<<p[1], p[2]>>, p[3]>>]
<1>3. f \in Injection(Pulls, (Issues \X LaneIds) \X (1..2))
  <2>1. f \in [Pulls -> (Issues \X LaneIds) \X (1..2)]
    BY DEF Pulls
  <2>2. ASSUME NEW p \in Pulls, NEW q \in Pulls, f[p] = f[q] PROVE p = q
    BY <2>2 DEF Pulls
  <2> QED
    BY <2>1, <2>2 DEF Injection, IsInjective
<1>4. IsFiniteSet(Pulls)
  BY <1>2, <1>3, FS_Injection
<1> QED
  BY <1>1, <1>4, FS_Subset, FS_CardinalityType

\* A smaller set, and one with one more element.
LEMMA Smaller ==
    ASSUME DispatchAssumption, NEW T \in SUBSET Issues, NEW S \in SUBSET T
    PROVE  Cardinality(S) <= Cardinality(T)
BY AllFinite, FS_Subset

LEMMA OneMore ==
    ASSUME DispatchAssumption, NEW T \in SUBSET Issues, NEW i \in Issues,
           NEW S \in SUBSET (T \cup {i})
    PROVE  Cardinality(S) <= Cardinality(T) + 1
<1>1. T \cup {i} \in SUBSET Issues
  OBVIOUS
<1>2. Cardinality(T \cup {i}) <= Cardinality(T) + 1
  BY AllFinite, FS_AddElement
<1> QED
  BY <1>1, <1>2, AllFinite, Smaller

LEMMA AtMostOne ==
    ASSUME NEW S, \A x, y \in S : x = y
    PROVE  Cardinality(S) <= 1
<1>1. CASE S = {}
  BY <1>1, FS_EmptySet
<1>2. CASE S # {}
  <2>1. PICK x \in S : S = {x}
    BY <1>2
  <2> QED
    BY <2>1, FS_Singleton
<1> QED
  BY <1>1, <1>2

\* What a lane has in hand.
LEMMA HandIsNat ==
    ASSUME DispatchAssumption, Types, NEW l \in LaneIds
    PROVE  /\ PullsOf(l) \in SUBSET Pulls /\ Active(l) \in SUBSET Issues
           /\ Counted(l) \in SUBSET Issues /\ InHand(l) \in Nat
           /\ InHand(l) = Cardinality(PullsOf(l)) + Cardinality(Counted(l))
           /\ Cardinality(PullsOf(l)) \in Nat /\ Cardinality(Counted(l)) \in Nat
<1>1. PullsOf(l) \in SUBSET Pulls /\ Active(l) \in SUBSET Issues /\ Counted(l) \in SUBSET Issues
  BY DEF PullsOf, Active, SentTo, Counted, Types
<1>2. InHand(l) = Cardinality(PullsOf(l)) + Cardinality(Counted(l))
  BY DEF InHand, Counted
<1> QED
  BY <1>1, <1>2, AllFinite
-----------------------------------------------------------------------------
(* What follows a loop, and what a run may stand at after it.              *)

LEMMA Lanewards ==
    ASSUME DispatchAssumption, Types
    PROVE  /\ NextLane \in RunRecs /\ NextLane.pc \in {"idle", "expire"} /\ NextLane.then = "gate"
           /\ NextLane.pc = "expire" => NextLane.lane \in LaneIds
<1> DEFINE rest == {k \in LaneIds : k > walk.lane}
<1>1. rest # {} => Min(rest) \in LaneIds
  <2>1. rest \in SUBSET Nat
    BY DEF DispatchAssumption
  <2> QED
    BY <2>1, MinIsIn
<1> QED
  BY <1>1 DEF NextLane, Idle, RunRecs, Pcs

LEMMA StartsAt == DispatchAssumption => Min(LaneIds) \in LaneIds
BY MinIsIn DEF DispatchAssumption

LEMMA ExpiringIs ==
    ASSUME Types, NEW S \in SUBSET Issues
    PROVE  /\ Expiring(S) \in RunRecs /\ Expiring(S).then = walk.then /\ Expiring(S).lane = walk.lane
           /\ Expiring(S).todo = S /\ Expiring(S).pc = IF S = {} THEN "pulls" ELSE "stale"
<1>1. CASE S = {}
  <2>1. Expiring(S) = [walk EXCEPT !.todo = S, !.pc = "pulls"]
    BY <1>1 DEF Expiring
  <2> QED
    BY <1>1, <2>1 DEF Types, RunRecs, Pcs
<1>2. CASE S # {}
  <2>1. Expiring(S) = [walk EXCEPT !.todo = S, !.pc = "stale"]
    BY <1>2 DEF Expiring
  <2> QED
    BY <1>2, <2>1 DEF Types, RunRecs, Pcs
<1> QED
  BY <1>1, <1>2

LEMMA CountingIs ==
    ASSUME Types, NEW S \in SUBSET Issues, NEW n \in Nat
    PROVE  /\ Counting(S, n) \in RunRecs /\ Counting(S, n).then = walk.then
           /\ Counting(S, n).lane = walk.lane /\ Counting(S, n).todo = S /\ Counting(S, n).load = n
           /\ Counting(S, n).pc = IF S = {} THEN "ready" ELSE "count"
<1>1. CASE S = {}
  <2>1. Counting(S, n) = [walk EXCEPT !.todo = S, !.load = n, !.pc = "ready"]
    BY <1>1 DEF Counting
  <2> QED
    BY <1>1, <2>1 DEF Types, RunRecs, Pcs
<1>2. CASE S # {}
  <2>1. Counting(S, n) = [walk EXCEPT !.todo = S, !.load = n, !.pc = "count"]
    BY <1>2 DEF Counting
  <2> QED
    BY <1>2, <2>1 DEF Types, RunRecs, Pcs
<1> QED
  BY <1>1, <1>2

-----------------------------------------------------------------------------
(* What a step of the dispatcher has to show.                              *)

\* Away from a list of issues that are ready or counted nothing is claimed.
LEMMA RestsAt ==
    ASSUME PlaceInv', walk'.pc \in {"idle", "expire", "stale", "vouch", "age", "unlabel", "pulls"}
    PROVE  Position'
BY DEF Position, ItemInv, ReadyInv, LoadInv, RoomInv, Load, Choosing

LEMMA SendingTyped ==
    ASSUME DispatchAssumption, Types, NEW S \in SUBSET Issues, NEW n \in Nat
    PROVE  Sending(S, n) \in RunRecs
<1>1. CASE S = {} \/ n >= Slots
  BY <1>1, Lanewards DEF Sending
<1>2. CASE ~(S = {} \/ n >= Slots)
  <2>1. Sending(S, n) = [walk EXCEPT !.todo = S, !.sent = n, !.pc = "gate"]
    BY <1>2 DEF Sending
  <2> QED
    BY <2>1 DEF Types, RunRecs, Pcs
<1> QED
  BY <1>1, <1>2

\* The next issue to send, or the next lane.
LEMMA SendsOn ==
    ASSUME DispatchAssumption, Types, NEW S \in SUBSET Issues, NEW n \in Nat, NEW k \in LaneIds,
           walk' = Sending(S, n), walk.lane = k, walk.then = "gate",
           \A i \in S : Sents(i)' = {}, quiet' => InHand(k)' <= walk.load + n
    PROVE  Position'
<1>1. CASE S = {} \/ n >= Slots
  <2>1. walk' = NextLane
    BY <1>1 DEF Sending
  <2> QED
    BY <2>1, Lanewards, RestsAt DEF PlaceInv, Picking
<1>2. CASE ~(S = {} \/ n >= Slots)
  <2>1. walk' = [walk EXCEPT !.todo = S, !.sent = n, !.pc = "gate"]
    BY <1>2 DEF Sending
  <2>2. /\ walk'.pc = "gate" /\ walk'.todo = S /\ walk'.sent = n
        /\ walk'.lane = k /\ walk'.load = walk.load /\ walk'.then = "gate"
    BY <2>1 DEF Types, RunRecs, Pcs
  <2>3. walk.load + n < MaxWip
    BY <1>2 DEF Slots, Types, RunRecs, DispatchAssumption
  <2>4. PlaceInv' /\ ItemInv' /\ ReadyInv' /\ RoomInv'
    BY <1>2, <2>2, <2>3 DEF PlaceInv, ItemInv, ReadyInv, RoomInv, Picking, Choosing
  <2>5. LoadInv'
    BY <2>2 DEF LoadInv, Load, Choosing
  <2> QED
    BY <2>2, <2>4, <2>5 DEF Position
<1> QED
  BY <1>1, <1>2

\* Reading changes nothing but what the run knows.
Watches == UNCHANGED <<issue, asked, told, pulls, runner, changes, ghosts>>

LEMMA HandKept ==
    ASSUME UNCHANGED <<labels, open, trusted, order, pulls>>, NEW l \in LaneIds
    PROVE  /\ InHand(l)' = InHand(l) /\ Counted(l)' = Counted(l) /\ PullsOf(l)' = PullsOf(l)
           /\ Active(l)' = Active(l)
BY DEF InHand, Counted, PullsOf, Active, SentTo, Allowed, HasPull

LEMMA WatchesKeeps ==
    ASSUME World, Watches, faults' \in Nat, walk' \in RunRecs
    PROVE  /\ World' /\ quiet' = quiet /\ \A i : Sents(i)' = Sents(i)
           /\ \A l \in LaneIds : InHand(l)' = InHand(l) /\ Counted(l)' = Counted(l)
                                 /\ PullsOf(l)' = PullsOf(l)
<1>1. Types'
  BY DEF World, Types, Watches, issue, ghosts
<1>2. \A i : Sents(i)' = Sents(i) /\ Out(i)' = Out(i)
  BY DEF Sents, Out, AtWork, Watches, issue
<1>3. SentOnce' /\ AskedOnce' /\ OutInv' /\ VouchedInv'
  BY <1>2 DEF World, SentOnce, AskedOnce, OutInv, VouchedInv, Watches, issue, ghosts
<1>4. LocalInv'
  BY DEF World, LocalInv, Watches
<1>5. \A l \in LaneIds : InHand(l)' = InHand(l) /\ Counted(l)' = Counted(l)
                         /\ PullsOf(l)' = PullsOf(l)
  BY HandKept DEF Watches, issue
<1>6. CapIsKept'
  BY <1>5 DEF World, CapIsKept, Watches, ghosts
<1> QED
  BY <1>1, <1>2, <1>3, <1>4, <1>5, <1>6 DEF World, Watches, ghosts

\* A step that only reads, and leaves its list or goes on to one.
LEMMA WatchRests ==
    ASSUME World, Watches, faults' \in Nat, walk' \in RunRecs, PlaceInv',
           walk'.pc \in {"idle", "expire", "stale", "vouch", "age", "unlabel", "pulls"}
    PROVE  DispatchInv'
BY WatchesKeeps, RestsAt DEF DispatchInv

LEMMA ReadsWatches ==
    ASSUME NEW p, Reads(p), DispatchInv
    PROVE  Watches /\ faults' \in Nat /\ walk' = p
BY DEF Reads, Goes, Watches, bounds, DispatchInv, World, Types

LEMMA WatchSends ==
    ASSUME DispatchAssumption, World, Watches, faults' \in Nat, NEW S \in SUBSET Issues,
           NEW n \in Nat, NEW k \in LaneIds,
           walk' = Sending(S, n), walk.lane = k, walk.then = "gate",
           \A i \in S : Sents(i) = {}, quiet => InHand(k) <= walk.load + n
    PROVE  DispatchInv'
<1>0. walk' \in RunRecs
  BY SendingTyped DEF World
<1>1. /\ World' /\ \A i \in S : Sents(i)' = {}
      /\ quiet' => InHand(k)' <= walk.load + n
  BY <1>0, WatchesKeeps
<1>2. Position'
  BY <1>1, SendsOn DEF World
<1> QED
  BY <1>1, <1>2 DEF DispatchInv
-----------------------------------------------------------------------------
(* The dispatcher's steps.                                                 *)

LEMMA StartStep == ASSUME DispatchAssumption, DispatchInv, StartRun PROVE DispatchInv'
<1> DEFINE r == [Idle EXCEPT !.pc = "expire", !.lane = Min(LaneIds)]
<1>1. /\ r \in RunRecs /\ r.pc = "expire" /\ r.lane \in LaneIds /\ r.then = "gate"
  BY StartsAt DEF Idle, RunRecs, Pcs
<1>2. walk' = r /\ quiet' = TRUE /\ before' = [l \in LaneIds |-> InHand(l)]
  BY DEF StartRun, Goes
<1> HIDE DEF r
<1>3. Types'
  <2>1. before' \in [LaneIds -> Nat]
    BY <1>2, HandIsNat DEF DispatchInv, World
  <2> QED
    BY <1>1, <1>2, <2>1 DEF StartRun, DispatchInv, World, Types, issue, bounds
<1>4. \A i : Sents(i)' = Sents(i) /\ Out(i)' = Out(i)
  BY DEF StartRun, Sents, Out, AtWork, issue
<1>5. SentOnce' /\ AskedOnce' /\ OutInv' /\ VouchedInv' /\ LocalInv'
  BY <1>4 DEF StartRun, DispatchInv, World, SentOnce, AskedOnce, OutInv, VouchedInv, LocalInv, issue
<1>6. CapIsKept'
  <2> SUFFICES ASSUME NEW l \in LaneIds
               PROVE  InHand(l)' <= (IF before'[l] > MaxWip THEN before'[l] ELSE MaxWip)
    BY DEF CapIsKept
  <2>1. InHand(l)' = InHand(l) /\ before'[l] = InHand(l) /\ InHand(l) \in Nat /\ MaxWip \in Nat
    BY <1>2, HandKept, HandIsNat DEF StartRun, DispatchInv, World, issue, DispatchAssumption
  <2> QED
    BY <2>1
<1>7. Position'
  BY <1>1, <1>2, RestsAt DEF PlaceInv, Picking
<1> QED
  BY <1>3, <1>5, <1>6, <1>7 DEF DispatchInv, World

\* The walk over the dispatches that may have led nowhere.
LEMMA Expires ==
    ASSUME DispatchInv, Watches, faults' \in Nat, NEW S \in SUBSET Issues, walk' = Expiring(S),
           walk.pc \in {"expire", "stale", "vouch", "age"}
    PROVE  DispatchInv'
<1>1. /\ walk' \in RunRecs /\ walk'.then = "gate" /\ walk'.lane \in LaneIds
      /\ walk'.todo = S /\ walk'.pc = IF S = {} THEN "pulls" ELSE "stale"
  BY ExpiringIs DEF DispatchInv, World, Position, PlaceInv
<1>2. PlaceInv'
  BY <1>1 DEF PlaceInv, Picking
<1> QED
  BY <1>1, <1>2, WatchRests DEF DispatchInv

\* A step to another request about the same dispatch.
LEMMA Examines ==
    ASSUME DispatchInv, Watches, faults' \in Nat, NEW c \in {"vouch", "age", "unlabel"},
           walk' = [walk EXCEPT !.pc = c], walk.pc \in {"stale", "vouch", "age"}
    PROVE  DispatchInv'
<1>1. /\ walk' \in RunRecs /\ walk'.pc = c /\ walk'.lane = walk.lane /\ walk'.todo = walk.todo
      /\ walk'.then = walk.then
  BY DEF DispatchInv, World, Types, RunRecs, Pcs
<1>2. PlaceInv'
  BY <1>1 DEF DispatchInv, Position, PlaceInv, Picking
<1> QED
  BY <1>1, <1>2, WatchRests DEF DispatchInv

LEMMA ExpireSteps ==
    ASSUME DispatchAssumption, DispatchInv, ListSent \/ StillOpen \/ StillAllowed \/ Dispatched
    PROVE  DispatchInv'
<1>0. /\ SentTo(walk.lane) \in SUBSET Issues /\ walk.todo \in SUBSET Issues
      /\ walk \in RunRecs /\ Types
  BY DEF SentTo, DispatchInv, World, Types, RunRecs
<1>1. CASE ListSent
  BY <1>0, <1>1, ReadsWatches, Expires DEF ListSent
<1>2. CASE StillOpen
  <2>1. CASE HasPull(Item)
    BY <1>0, <1>2, <2>1, ReadsWatches, Expires DEF StillOpen
  <2>2. CASE ~HasPull(Item)
    BY <1>2, <2>2, ReadsWatches, Examines DEF StillOpen
  <2> QED
    BY <2>1, <2>2
<1>3. CASE StillAllowed
  <2>1. CASE Allowed(Item)
    BY <1>3, <2>1, ReadsWatches, Examines DEF StillAllowed
  <2>2. CASE ~Allowed(Item) /\ asked[Item] > 0
    BY <1>3, <2>2, ReadsWatches, Examines DEF StillAllowed
  <2>3. CASE ~Allowed(Item) /\ ~(asked[Item] > 0)
    <3>1. Watches /\ faults' \in Nat /\ walk' = [walk EXCEPT !.pc = "ask", !.then = "unlabel"]
      BY <1>3, <2>3, ReadsWatches DEF StillAllowed
    <3>2. /\ walk' \in RunRecs /\ walk'.pc = "ask" /\ walk'.then = "unlabel"
          /\ walk'.todo = walk.todo /\ walk'.lane = walk.lane
      BY <1>0, <3>1 DEF RunRecs, Pcs
    <3>3. walk.pc = "vouch" /\ walk.todo # {} /\ walk.lane \in LaneIds
      BY <1>3 DEF StillAllowed, DispatchInv, Position, PlaceInv, Picking
    <3>4. asked[Item] = 0 /\ Item' = Item /\ asked' = asked
      <4>1. Item \in Issues
        BY <3>3, <1>0, ItemIsIn
      <4>2. asked[Item] \in Nat
        BY <4>1 DEF DispatchInv, World, Types
      <4> QED
        BY <2>3, <3>1, <3>2, <4>2 DEF Item, Watches
    <3>5. Position'
      BY <3>2, <3>3, <3>4 DEF Position, PlaceInv, ItemInv, ReadyInv, LoadInv, RoomInv, Load,
                              Choosing, Picking
    <3> QED
      BY <3>1, <3>2, <3>5, WatchesKeeps DEF DispatchInv
  <2> QED
    BY <2>1, <2>2, <2>3
<1>4. CASE Dispatched
  <2>1. CASE faults < MaxFaults /\ faults' = faults + 1 /\ Goes(Expiring(walk.todo \ {Item}))
             /\ UNCHANGED <<issue, asked, told, pulls, runner, changes, ghosts>>
    <3>1. Watches /\ faults' \in Nat
      BY <2>1 DEF Watches, DispatchInv, World, Types
    <3> QED
      BY <1>0, <1>4, <2>1, <3>1, Expires DEF Dispatched, Goes
  <2>2. CASE Reads([walk EXCEPT !.pc = "unlabel"])
    BY <1>4, <2>2, ReadsWatches, Examines DEF Dispatched
  <2>3. CASE Reads(Expiring(walk.todo \ {Item}))
    BY <1>0, <1>4, <2>3, ReadsWatches, Expires DEF Dispatched
  <2> QED
    BY <1>4, <2>1, <2>2, <2>3 DEF Dispatched
<1> QED
  BY <1>1, <1>2, <1>3, <1>4

\* What a lane has in hand is counted at least once.
LEMMA CountSteps ==
    ASSUME DispatchAssumption, DispatchInv, CountPulls \/ ListActive \/ CountActive
    PROVE  DispatchInv'
<1> USE DEF Picking, Choosing
<1>0. /\ walk.todo \in SUBSET Issues /\ walk \in RunRecs /\ Types /\ walk.load \in Nat
  BY DEF DispatchInv, World, Types, RunRecs
<1>1. walk.pc \in {"pulls", "sent", "count"} /\ walk.then = "gate" /\ walk.lane \in LaneIds
  BY DEF CountPulls, ListActive, CountActive, DispatchInv, Position, PlaceInv
<1>2. PICK k \in LaneIds : k = walk.lane
  BY <1>1
<1>3. /\ Cardinality(PullsOf(k)) \in Nat /\ Active(k) \in SUBSET Issues
      /\ Counted(k) \in SUBSET Issues
      /\ InHand(k) = Cardinality(PullsOf(k)) + Cardinality(Counted(k))
  BY <1>0, HandIsNat
<1>4. Watches /\ faults' \in Nat
  BY ReadsWatches DEF CountPulls, ListActive, CountActive
<1>5. CASE CountPulls
  <2>1. walk' = [walk EXCEPT !.load = Cardinality(PullsOf(k)), !.pc = "sent"]
    BY <1>2, <1>5, ReadsWatches DEF CountPulls
  <2>2. /\ walk' \in RunRecs /\ walk'.pc = "sent" /\ walk'.load = Cardinality(PullsOf(k))
        /\ walk'.lane = k /\ walk'.then = "gate"
    BY <1>0, <1>1, <1>2, <1>3, <2>1 DEF RunRecs, Pcs
  <2>3. PullsOf(k)' = PullsOf(k)
    BY <1>4, <2>2, WatchesKeeps DEF DispatchInv
  <2>4. Load(k)'
    BY <1>3, <2>2, <2>3 DEF Load
  <2>5. Position'
    BY <2>2, <2>4 DEF Position, PlaceInv, ItemInv, ReadyInv, LoadInv, RoomInv
  <2> QED
    BY <1>4, <2>2, <2>5, WatchesKeeps DEF DispatchInv
<1>6. ASSUME NEW S \in SUBSET Issues, NEW n \in Nat, walk' = Counting(S, n),
             quiet => Cardinality(PullsOf(k)) + Cardinality(Counted(k) \ S) <= n
      PROVE  DispatchInv'
  <2>1. /\ walk' \in RunRecs /\ walk'.then = "gate" /\ walk'.lane = k /\ walk'.todo = S
        /\ walk'.load = n /\ walk'.pc = IF S = {} THEN "ready" ELSE "count"
    BY <1>0, <1>1, <1>2, <1>6, CountingIs
  <2>2. /\ PullsOf(k)' = PullsOf(k) /\ Counted(k)' = Counted(k) /\ InHand(k)' = InHand(k)
        /\ quiet' = quiet
    BY <1>4, <2>1, WatchesKeeps DEF DispatchInv
  <2>3. quiet => Load(k)'
    <3>1. CASE S = {}
      <4>1. Counted(k) \ S = Counted(k)
        BY <3>1
      <4> QED
        BY <1>3, <1>6, <2>1, <2>2, <3>1, <4>1 DEF Load
    <3>2. CASE S # {}
      BY <1>6, <2>1, <2>2, <3>2 DEF Load
    <3> QED
      BY <3>1, <3>2
  <2>4. Position'
    BY <2>1, <2>2, <2>3 DEF Position, PlaceInv, ItemInv, ReadyInv, LoadInv, RoomInv
  <2> QED
    BY <1>4, <2>1, <2>4, WatchesKeeps DEF DispatchInv
<1>7. CASE ListActive
  <2>1. walk' = Counting(Active(k), walk.load) /\ walk.pc = "sent"
    BY <1>2, <1>7, ReadsWatches DEF ListActive
  <2>2. Counted(k) \ Active(k) = {} /\ Cardinality({}) = 0
    BY FS_EmptySet DEF Counted
  <2>3. quiet => Cardinality(PullsOf(k)) <= walk.load
    BY <1>2, <2>1 DEF DispatchInv, Position, LoadInv, Load
  <2> QED
    <3>1. Cardinality(Counted(k) \ Active(k)) = 0
      BY <2>2
    <3>2. quiet => Cardinality(PullsOf(k)) + Cardinality(Counted(k) \ Active(k)) <= walk.load
      BY <1>0, <1>3, <2>3, <3>1
    <3> QED
      BY <1>0, <1>3, <1>6, <2>1, <3>2
<1>8. CASE CountActive
  <2> DEFINE more == IF Allowed(Item) /\ ~HasPull(Item) THEN 1 ELSE 0
             S == walk.todo \ {Item}
  <2>1. walk' = Counting(S, walk.load + more) /\ walk.pc = "count"
    BY <1>8, ReadsWatches DEF CountActive
  <2>2. quiet => Cardinality(PullsOf(k)) + Cardinality(Counted(k) \ walk.todo) <= walk.load
    BY <1>2, <2>1 DEF DispatchInv, Position, LoadInv, Load
  <2>3. Item \in walk.todo /\ Item \in Issues
    BY <1>0, <2>1, ItemIsIn DEF DispatchInv, Position, PlaceInv
  <2>4. Cardinality(Counted(k) \ S) <= Cardinality(Counted(k) \ walk.todo) + more
    <3>1. CASE Allowed(Item) /\ ~HasPull(Item)
      BY <1>3, <2>3, <3>1, OneMore
    <3>2. CASE ~(Allowed(Item) /\ ~HasPull(Item))
      <4>1. Counted(k) \ S = Counted(k) \ walk.todo
        BY <3>2 DEF Counted
      <4>2. Cardinality(Counted(k) \ S) \in Nat
        BY <1>3, AllFinite
      <4> QED
        BY <3>2, <4>1, <4>2
    <3> QED
      BY <3>1, <3>2
  <2>5. Cardinality(Counted(k) \ S) \in Nat /\ Cardinality(Counted(k) \ walk.todo) \in Nat
    BY <1>3, AllFinite
  <2>6. quiet => Cardinality(PullsOf(k)) + Cardinality(Counted(k) \ S) <= walk.load + more
    BY <1>0, <1>3, <2>2, <2>4, <2>5
  <2>7. S \in SUBSET Issues /\ walk.load + more \in Nat
    BY <1>0
  <2> HIDE DEF S, more
  <2> QED
    BY <1>6, <2>1, <2>6, <2>7
<1> QED
  BY <1>5, <1>7, <1>8

\* An issue on the list of ready ones goes on to its next check, or is left.
LEMMA ChecksOn ==
    ASSUME DispatchAssumption, DispatchInv, Watches, faults' \in Nat, Choosing,
           NEW c \in {"ask", "deps", "free", "label"}, walk' = [walk EXCEPT !.pc = c],
           c = "ask" => asked[Item] = 0, c # "ask" => Item \in vouched
    PROVE  DispatchInv'
<1>1. /\ walk \in RunRecs /\ walk.pc \in Picking /\ walk.then = "gate" /\ walk.lane \in LaneIds
      /\ walk.todo # {}
  BY DEF DispatchInv, World, Types, Choosing, Picking, Position, PlaceInv
<1>2. /\ walk' \in RunRecs /\ walk'.pc = c /\ walk'.todo = walk.todo /\ walk'.lane = walk.lane
      /\ walk'.load = walk.load /\ walk'.sent = walk.sent /\ walk'.then = "gate"
  BY <1>1 DEF RunRecs, Pcs
<1>3. /\ World' /\ quiet' = quiet /\ \A i : Sents(i)' = Sents(i)
      /\ \A l \in LaneIds : InHand(l)' = InHand(l)
  BY <1>2, WatchesKeeps DEF DispatchInv
<1>4. Item' = Item /\ asked' = asked /\ vouched' = vouched
  BY <1>2 DEF Item, Watches, ghosts
<1>5. PlaceInv' /\ ItemInv' /\ ReadyInv' /\ RoomInv'
  BY <1>1, <1>2, <1>3, <1>4
     DEF DispatchInv, Position, PlaceInv, ItemInv, ReadyInv, RoomInv, Choosing, Picking
<1>6. LoadInv'
  BY <1>1, <1>2, <1>3 DEF DispatchInv, Position, LoadInv, Load, Choosing
<1> QED
  BY <1>3, <1>5, <1>6 DEF DispatchInv, Position

LEMMA LeavesIssue ==
    ASSUME DispatchAssumption, DispatchInv, Watches, faults' \in Nat, Choosing,
           walk' = Sending(walk.todo \ {Item}, walk.sent)
    PROVE  DispatchInv'
<1>1. /\ walk.lane \in LaneIds /\ walk.todo \ {Item} \in SUBSET Issues /\ walk.sent \in Nat
      /\ walk.then = "gate" /\ World
  BY DEF DispatchInv, World, Types, RunRecs, Choosing, Position, PlaceInv
<1>2. PICK k \in LaneIds : k = walk.lane
  BY <1>1
<1>3. /\ \A i \in walk.todo \ {Item} : Sents(i) = {}
      /\ quiet => InHand(k) <= walk.load + walk.sent
  BY <1>2 DEF DispatchInv, Position, ReadyInv, LoadInv, Load
<1> QED
  BY <1>1, <1>2, <1>3, WatchSends

LEMMA ChooseSteps ==
    ASSUME DispatchAssumption, DispatchInv, PassesGate \/ DependsOnNothing \/ HasNoPull
    PROVE  DispatchInv'
<1>1. /\ Choosing /\ Watches /\ faults' \in Nat
  BY ReadsWatches DEF PassesGate, DependsOnNothing, HasNoPull, Choosing
<1>2. Item \in Issues /\ Types
  BY <1>1, ItemIsIn DEF DispatchInv, World, Position, PlaceInv, Choosing, Picking
<1>3. CASE PassesGate
  <2>1. CASE Allowed(Item)
    <3>1. Item \in vouched
      BY <2>1 DEF Allowed, DispatchInv, World, VouchedInv
    <3> QED
      BY <1>1, <1>3, <2>1, <3>1, ReadsWatches, ChecksOn DEF PassesGate
  <2>2. CASE ~Allowed(Item) /\ asked[Item] > 0
    BY <1>1, <1>3, <2>2, ReadsWatches, LeavesIssue DEF PassesGate
  <2>3. CASE ~Allowed(Item) /\ ~(asked[Item] > 0)
    <3>1. asked[Item] = 0
      BY <1>2, <2>3 DEF Types
    <3> QED
      BY <1>1, <1>3, <2>3, <3>1, ReadsWatches, ChecksOn DEF PassesGate
  <2> QED
    BY <2>1, <2>2, <2>3
<1>4. CASE DependsOnNothing
  <2>1. Item \in vouched
    BY <1>4 DEF DependsOnNothing, DispatchInv, Position, ItemInv
  <2>2. CASE Item \in waits
    BY <1>1, <1>4, <2>2, ReadsWatches, LeavesIssue DEF DependsOnNothing
  <2>3. CASE Item \notin waits
    BY <1>1, <1>4, <2>1, <2>3, ReadsWatches, ChecksOn DEF DependsOnNothing
  <2> QED
    BY <2>2, <2>3
<1>5. CASE HasNoPull
  <2>1. Item \in vouched
    BY <1>5 DEF HasNoPull, DispatchInv, Position, ItemInv
  <2>2. CASE HasPull(Item)
    BY <1>1, <1>5, <2>2, ReadsWatches, LeavesIssue DEF HasNoPull
  <2>3. CASE ~HasPull(Item)
    BY <1>1, <1>5, <2>1, <2>3, ReadsWatches, ChecksOn DEF HasNoPull
  <2> QED
    BY <2>2, <2>3
<1> QED
  BY <1>3, <1>4, <1>5

LEMMA ReadyStep == ASSUME DispatchAssumption, DispatchInv, ListReady PROVE DispatchInv'
<1>1. Watches /\ faults' \in Nat /\ walk.pc = "ready"
  BY ReadsWatches DEF ListReady
<1>2. walk.lane \in LaneIds /\ walk.then = "gate" /\ World /\ walk.load \in Nat
  BY <1>1 DEF DispatchInv, World, Types, RunRecs, Position, PlaceInv
<1>3. PICK k \in LaneIds : k = walk.lane
  BY <1>2
<1>4. CASE walk.load >= MaxWip
  <2>1. walk' = NextLane
    BY <1>4, ReadsWatches DEF ListReady
  <2>2. PlaceInv'
    BY <1>2, <2>1, Lanewards DEF PlaceInv, Picking, World
  <2> QED
    BY <1>1, <1>2, <2>1, <2>2, Lanewards, WatchRests DEF World
<1>5. CASE ~(walk.load >= MaxWip)
  <2>1. walk' = Sending(Ready(k), 0)
    BY <1>3, <1>5, ReadsWatches DEF ListReady
  <2>2. Ready(k) \in SUBSET Issues /\ \A i \in Ready(k) : Sents(i) = {}
    BY <1>2 DEF Ready, Sents, World, Types
  <2>3. quiet => InHand(k) <= walk.load + 0
    BY <1>1, <1>2, <1>3 DEF DispatchInv, Position, LoadInv, Load
  <2> QED
    BY <1>1, <1>2, <1>3, <2>1, <2>2, <2>3, WatchSends
<1> QED
  BY <1>4, <1>5

LEMMA LabelsApart ==
    \A k, l : /\ Sent(k) # OwnerLabel /\ Sent(k) # ReadyLabel /\ Sent(k) # Builder(l)
              /\ Builder(k) # OwnerLabel /\ (Sent(k) = Sent(l) => k = l)
BY DEF Sent, Builder, OwnerLabel, ReadyLabel

\* Taking the label off an issue takes back its dispatch.
LEMMA UnlabelledKeeps ==
    ASSUME DispatchAssumption, World, NEW i \in Issues, NEW k \in LaneIds, Unlabelled(i, k),
           UNCHANGED <<open, assigned, trusted, order, waits, asked, told, pulls, runner, bounds,
                       vouched, quiet, before>>, walk' \in RunRecs
    PROVE  World'
<1>1. /\ labels' \in [Issues -> SUBSET Labels] /\ retaken' = retaken \cup {i}
      /\ \A j \in Issues : labels'[j] = IF j = i THEN labels[j] \ {Sent(k)} ELSE labels[j]
      /\ \A j \in Issues : labels'[j] \subseteq labels[j]
  BY DEF Unlabelled, World, Types
<1>2. Types'
  BY <1>1 DEF Unlabelled, World, Types, bounds
<1>3. /\ \A j \in Issues : Sents(j)' \subseteq Sents(j)
      /\ \A j \in Issues \ {i} : Sents(j)' = Sents(j)
      /\ \A j \in Issues : Out(j)' = Out(j)
  BY <1>1 DEF Sents, Out, AtWork
<1>4. SentOnce' /\ AskedOnce' /\ OutInv' /\ VouchedInv' /\ LocalInv'
  BY <1>1, <1>3 DEF World, SentOnce, AskedOnce, OutInv, VouchedInv, LocalInv
<1>5. \A l \in LaneIds : InHand(l)' <= InHand(l) /\ InHand(l)' \in Nat /\ InHand(l) \in Nat
  <2> SUFFICES ASSUME NEW l \in LaneIds
               PROVE  InHand(l)' <= InHand(l) /\ InHand(l)' \in Nat /\ InHand(l) \in Nat
    OBVIOUS
  <2>1. /\ InHand(l) = Cardinality(PullsOf(l)) + Cardinality(Counted(l))
        /\ InHand(l) \in Nat /\ Counted(l) \in SUBSET Issues
        /\ Cardinality(PullsOf(l)) \in Nat /\ Cardinality(Counted(l)) \in Nat
    BY HandIsNat DEF World
  <2>2. /\ PullsOf(l)' = PullsOf(l) /\ Counted(l)' \subseteq Counted(l)
        /\ InHand(l)' = Cardinality(PullsOf(l)') + Cardinality(Counted(l)')
    <3>1. PullsOf(l)' = PullsOf(l) /\ \A j : Allowed(j)' = Allowed(j) /\ HasPull(j)' = HasPull(j)
      BY DEF PullsOf, Allowed, HasPull
    <3>2. Active(l)' \subseteq Active(l)
      <4> SUFFICES ASSUME NEW j \in Active(l)' PROVE j \in Active(l)
        OBVIOUS
      <4>1. j \in Issues /\ j \in open /\ {Builder(l), Sent(l)} \subseteq labels'[j]
            /\ OwnerLabel \notin labels'[j]
        BY DEF Active, SentTo, World, Types
      <4>2. labels'[j] \subseteq labels[j] /\ (OwnerLabel \in labels[j] => OwnerLabel \in labels'[j])
        BY <1>1, <4>1, LabelsApart
      <4> QED
        BY <4>1, <4>2 DEF Active, SentTo
    <3>3. Counted(l)' \subseteq Counted(l)
      BY <3>1, <3>2 DEF Counted
    <3>4. InHand(l)' = Cardinality(PullsOf(l)') + Cardinality(Counted(l)')
      BY DEF InHand, Counted
    <3> QED
      BY <3>1, <3>3, <3>4
  <2>3. Cardinality(Counted(l)') <= Cardinality(Counted(l)) /\ Cardinality(Counted(l)') \in Nat
    BY <2>1, <2>2, Smaller, AllFinite
  <2> QED
    BY <2>1, <2>2, <2>3
<1>6. CapIsKept'
  <2> SUFFICES ASSUME quiet, NEW l \in LaneIds
               PROVE  InHand(l)' <= (IF before[l] > MaxWip THEN before[l] ELSE MaxWip)
    BY DEF CapIsKept
  <2>1. InHand(l) <= (IF before[l] > MaxWip THEN before[l] ELSE MaxWip)
    BY DEF World, CapIsKept
  <2>2. before[l] \in Nat /\ MaxWip \in Nat
    BY DEF World, Types, DispatchAssumption
  <2> QED
    BY <1>5, <2>1, <2>2
<1> QED
  BY <1>2, <1>4, <1>6 DEF World

LEMMA TakeBackStep == ASSUME DispatchAssumption, DispatchInv, TakeBack \/ Undo PROVE DispatchInv'
<1>1. /\ walk.pc \in {"unlabel", "undo"} /\ walk.lane \in LaneIds /\ walk.then = "gate"
      /\ walk.todo # {} /\ Types /\ World /\ walk.todo \in SUBSET Issues
  BY DEF TakeBack, Undo, DispatchInv, World, Types, RunRecs, Position, PlaceInv, Picking
<1>2. Item \in Issues
  BY <1>1, ItemIsIn
<1>3. walk' = Idle \/ walk' = Expiring(walk.todo \ {Item})
  BY DEF TakeBack, Undo, Goes
<1>4. walk' \in RunRecs /\ walk'.pc \in {"idle", "pulls", "stale"} /\ PlaceInv'
  <2>1. CASE walk' = Idle
    BY <2>1 DEF Idle, RunRecs, Pcs, PlaceInv, Picking
  <2>2. CASE walk' = Expiring(walk.todo \ {Item})
    <3>1. /\ walk' \in RunRecs /\ walk'.then = "gate" /\ walk'.lane = walk.lane
          /\ walk'.todo = walk.todo \ {Item}
          /\ walk'.pc = IF walk.todo \ {Item} = {} THEN "pulls" ELSE "stale"
      BY <1>1, <2>2, ExpiringIs
    <3> QED
      BY <1>1, <3>1 DEF PlaceInv, Picking
  <2> QED
    BY <1>3, <2>1, <2>2
<1>5. World'
  BY <1>1, <1>2, <1>4, UnlabelledKeeps DEF TakeBack, Undo
<1> QED
  BY <1>4, <1>5, RestsAt DEF DispatchInv

\* A dispatch that is not written down fails, and so does a run at any step.
LEMMA FailSteps == ASSUME DispatchAssumption, DispatchInv, Dies PROVE DispatchInv'
<1>1. Watches /\ faults' \in Nat /\ walk' = Idle
  BY DEF Dies, Goes, Watches, DispatchInv, World, Types
<1>2. walk' \in RunRecs /\ PlaceInv' /\ walk'.pc = "idle"
  BY <1>1 DEF Idle, RunRecs, Pcs, PlaceInv, Picking
<1> QED
  BY <1>1, <1>2, WatchRests DEF DispatchInv

LEMMA RequestStep == ASSUME DispatchAssumption, DispatchInv, RequestOrder PROVE DispatchInv'
<1>1. /\ walk.pc = "ask" /\ walk.lane \in LaneIds /\ walk.todo # {} /\ Types
      /\ walk.todo \in SUBSET Issues /\ walk.sent \in Nat /\ walk.load \in Nat
      /\ walk.then \in {"gate", "unlabel"} /\ walk \in RunRecs
  BY DEF RequestOrder, DispatchInv, World, Types, RunRecs, Position, PlaceInv, Picking
<1>2. Item \in Issues /\ Item \in walk.todo /\ asked[Item] = 0
  BY <1>1, ItemIsIn DEF DispatchInv, Position, ItemInv
<1>3. PICK k \in LaneIds : k = walk.lane
  BY <1>1
<1>4. /\ asked' \in [Issues -> Nat] /\ AskedOnce'
  BY <1>2 DEF RequestOrder, DispatchInv, World, Types, AskedOnce
<1>5. ASSUME walk' \in RunRecs PROVE World'
  <2>1. Types'
    BY <1>4, <1>5 DEF RequestOrder, DispatchInv, World, Types, issue, bounds, ghosts
  <2>2. \A i : Sents(i)' = Sents(i) /\ Out(i)' = Out(i)
    BY DEF RequestOrder, Sents, Out, AtWork, issue
  <2>3. SentOnce' /\ OutInv' /\ VouchedInv' /\ LocalInv'
    BY <2>2 DEF RequestOrder, DispatchInv, World, SentOnce, OutInv, VouchedInv, LocalInv, issue, ghosts
  <2>4. CapIsKept'
    BY HandKept DEF RequestOrder, DispatchInv, World, CapIsKept, issue, ghosts
  <2> QED
    BY <1>4, <2>1, <2>3, <2>4 DEF World
<1>6. CASE walk.then = "gate"
  <2>1. walk' = Sending(walk.todo \ {Item}, walk.sent)
    BY <1>6 DEF RequestOrder, Goes
  <2>2. walk' \in RunRecs
    BY <1>1, <2>1, SendingTyped
  <2>3. \A i \in walk.todo \ {Item} : Sents(i)' = {}
    BY <1>1, <1>6 DEF RequestOrder, DispatchInv, Position, ReadyInv, Choosing, Sents, issue
  <2>4. quiet' => InHand(k)' <= walk.load + walk.sent
    BY <1>1, <1>3, <1>6, HandKept
       DEF RequestOrder, DispatchInv, Position, LoadInv, Load, Choosing, issue, ghosts
  <2>5. Position'
    BY <1>1, <1>3, <1>6, <2>1, <2>3, <2>4, SendsOn
  <2> QED
    BY <1>5, <2>2, <2>5 DEF DispatchInv
<1>7. CASE walk.then # "gate"
  <2>1. walk' = [walk EXCEPT !.pc = "unlabel", !.then = "gate"]
    BY <1>7 DEF RequestOrder, Goes
  <2>2. /\ walk' \in RunRecs /\ walk'.pc = "unlabel" /\ walk'.then = "gate"
        /\ walk'.lane = walk.lane /\ walk'.todo = walk.todo
    BY <1>1, <2>1 DEF RunRecs, Pcs
  <2>3. PlaceInv'
    BY <1>1, <2>2 DEF PlaceInv
  <2> QED
    BY <1>5, <2>2, <2>3, RestsAt DEF DispatchInv
<1> QED
  BY <1>6, <1>7

\* The label that says an issue is out: nobody has it yet, somebody vouched
\* for it, and the lane has room.
LEMMA LabelStep == ASSUME DispatchAssumption, DispatchInv, Label PROVE DispatchInv'
<1>1. /\ walk.pc = "label" /\ walk.lane \in LaneIds /\ walk.todo # {} /\ Types /\ World
      /\ walk.todo \in SUBSET Issues /\ walk.sent \in Nat /\ walk.load \in Nat
      /\ walk.then = "gate" /\ walk \in RunRecs /\ Choosing
  BY DEF Label, DispatchInv, World, Types, RunRecs, Position, PlaceInv, Picking, Choosing
<1>2. /\ Item \in Issues /\ Item \in walk.todo /\ Item \in vouched
      /\ \A i \in walk.todo : Sents(i) = {}
  BY <1>1, ItemIsIn DEF DispatchInv, Position, ItemInv, ReadyInv
<1>3. PICK k \in LaneIds : k = walk.lane
  BY <1>1
<1>4. PICK t \in Issues : t = Item
  BY <1>2
<1>5. walk' = [walk EXCEPT !.pc = "comment"] /\ labels' = [labels EXCEPT ![t] = @ \cup {Sent(k)}]
  BY <1>3, <1>4 DEF Label, Goes
<1>6. /\ walk' \in RunRecs /\ walk'.pc = "comment" /\ walk'.todo = walk.todo /\ walk'.lane = k
      /\ walk'.load = walk.load /\ walk'.sent = walk.sent /\ walk'.then = "gate"
  BY <1>1, <1>3, <1>5 DEF RunRecs, Pcs
<1>7. Item' = t
  BY <1>4, <1>6 DEF Item
<1>8. /\ labels' \in [Issues -> SUBSET Labels]
      /\ \A i \in Issues : labels'[i] = IF i = t THEN labels[i] \cup {Sent(k)} ELSE labels[i]
  BY <1>1, <1>5 DEF Types, Labels
<1>9. \A i \in Issues : Sents(i)' = IF i = t THEN {k} ELSE Sents(i)
  <2>1. \A i \in Issues : Sents(i)' = IF i = t THEN Sents(i) \cup {k} ELSE Sents(i)
    BY <1>8 DEF Sents, Sent
  <2> QED
    BY <1>2, <1>4, <2>1
<1>10. \A i \in Issues : Out(i)' = Out(i)
  BY DEF Label, Out, AtWork
<1>11. Types'
  BY <1>6, <1>8 DEF Label, DispatchInv, World, Types, bounds, ghosts
<1>12. SentOnce' /\ AskedOnce' /\ OutInv' /\ VouchedInv' /\ LocalInv'
  <2>1. SentOnce'
    BY <1>1, <1>9 DEF SentOnce, World
  <2>2. OutInv'
    BY <1>1, <1>2, <1>4, <1>9, <1>10 DEF Label, OutInv, World, ghosts
  <2>3. AskedOnce' /\ VouchedInv' /\ LocalInv'
    BY <1>1, <1>10 DEF Label, World, AskedOnce, VouchedInv, LocalInv, ghosts
  <2> QED
    BY <2>1, <2>2, <2>3
<1>13. ASSUME NEW l \in LaneIds
       PROVE  /\ InHand(l)' \in Nat /\ InHand(l) \in Nat
              /\ InHand(l)' <= InHand(l) + (IF l = k THEN 1 ELSE 0)
  <2>1. /\ InHand(l) = Cardinality(PullsOf(l)) + Cardinality(Counted(l))
        /\ InHand(l) \in Nat /\ Counted(l) \in SUBSET Issues
        /\ Cardinality(PullsOf(l)) \in Nat /\ Cardinality(Counted(l)) \in Nat
    BY <1>1, HandIsNat
  <2>2. PullsOf(l)' = PullsOf(l) /\ \A j : Allowed(j)' = Allowed(j) /\ HasPull(j)' = HasPull(j)
    BY DEF Label, PullsOf, Allowed, HasPull
  <2>3. \A j \in Issues : j \in Active(l)' => j \in Active(l) \/ (j = t /\ l = k)
    <3> SUFFICES ASSUME NEW j \in Issues, j \in Active(l)', ~(j = t /\ l = k) PROVE j \in Active(l)
      OBVIOUS
    <3>1. j \in open /\ Builder(l) \in labels'[j] /\ Sent(l) \in labels'[j]
          /\ OwnerLabel \notin labels'[j]
      BY DEF Label, Active, SentTo
    <3>2. Builder(l) \in labels[j] /\ Sent(l) \in labels[j] /\ OwnerLabel \notin labels[j]
      BY <1>8, <3>1, LabelsApart
    <3> QED
      BY <3>1, <3>2 DEF Active, SentTo
  <2>4. Active(l)' \subseteq Issues
    BY <1>11 DEF Active, SentTo, Types
  <2>5. Counted(l)' \subseteq (IF l = k THEN Counted(l) \cup {t} ELSE Counted(l))
    BY <2>2, <2>3, <2>4 DEF Counted
  <2>6. InHand(l)' = Cardinality(PullsOf(l)) + Cardinality(Counted(l)')
    BY <2>2 DEF InHand, Counted
  <2>7. /\ Cardinality(Counted(l)') \in Nat
        /\ Cardinality(Counted(l)') <= Cardinality(Counted(l)) + (IF l = k THEN 1 ELSE 0)
    <3>1. Counted(l)' \in SUBSET Issues
      BY <2>1, <2>5
    <3>2. CASE l = k
      BY <2>1, <2>5, <3>1, <3>2, OneMore, AllFinite
    <3>3. CASE l # k
      BY <2>1, <2>5, <3>1, <3>3, Smaller, AllFinite
    <3> QED
      BY <3>2, <3>3
  <2> QED
    BY <2>1, <2>6, <2>7
<1>14. /\ walk.load + walk.sent < MaxWip
       /\ quiet => InHand(k) <= walk.load + walk.sent
  BY <1>1, <1>3 DEF DispatchInv, Position, RoomInv, LoadInv, Load
<1>15. CapIsKept'
  <2> SUFFICES ASSUME quiet, NEW l \in LaneIds
               PROVE  InHand(l)' <= (IF before[l] > MaxWip THEN before[l] ELSE MaxWip)
    BY DEF Label, CapIsKept, ghosts
  <2>1. before[l] \in Nat /\ MaxWip \in Nat
    BY <1>1 DEF Types, DispatchAssumption
  <2>2. InHand(l) <= (IF before[l] > MaxWip THEN before[l] ELSE MaxWip)
    BY <1>1 DEF World, CapIsKept
  <2>3. CASE l = k
    <3>1. InHand(k)' <= MaxWip
      BY <1>1, <1>13, <1>14, <2>1
    <3>2. InHand(k)' \in Nat
      BY <1>13
    <3> QED
      BY <2>1, <2>3, <3>1, <3>2
  <2>4. CASE l # k
    BY <1>13, <2>1, <2>2, <2>4
  <2> QED
    BY <2>3, <2>4
<1>16. PlaceInv' /\ RoomInv' /\ ItemInv' /\ ReadyInv'
  <2>1. vouched' = vouched
    BY DEF Label, ghosts
  <2>2. PlaceInv' /\ RoomInv'
    BY <1>1, <1>6, <1>14 DEF PlaceInv, RoomInv, Picking
  <2>3. Sents(Item)' = {walk.lane}'
    BY <1>6, <1>7, <1>9 DEF Sents
  <2>4. ItemInv'
    BY <1>2, <1>4, <1>6, <1>7, <2>1, <2>3 DEF ItemInv
  <2>5. \A i \in walk'.todo \ {t} : Sents(i)' = {}
    BY <1>1, <1>2, <1>6, <1>9
  <2>6. ReadyInv'
    BY <1>6, <1>7, <2>5 DEF ReadyInv, Choosing
  <2> QED
    BY <2>2, <2>4, <2>6
<1>17. LoadInv'
  <2>1. quiet' = quiet
    BY DEF Label, ghosts
  <2>2. quiet => InHand(k)' <= walk.load + walk.sent + 1
    BY <1>1, <1>13, <1>14
  <2> QED
    BY <1>6, <2>1, <2>2 DEF LoadInv, Load, Choosing
<1> QED
  BY <1>1, <1>11, <1>12, <1>15, <1>16, <1>17 DEF Label, DispatchInv, World, Position

\* The comment calls the lane whose label the issue carries.
LEMMA CallKeeps ==
    ASSUME DispatchAssumption, DispatchInv, walk.pc = "comment", Called \/ UNCHANGED told,
           UNCHANGED <<issue, asked, pulls, runner, changes, ghosts>>, faults' \in Nat,
           walk' \in RunRecs
    PROVE  World'
<1>1. /\ walk.lane \in LaneIds /\ walk.todo # {} /\ Types /\ World
  BY DEF DispatchInv, World, Types, RunRecs, Position, PlaceInv, Picking
<1>2. /\ Item \in Issues /\ Item \in vouched /\ Sents(Item) = {walk.lane}
  BY <1>1, ItemIsIn DEF DispatchInv, Position, ItemInv
<1>3. /\ told' \in [Issues -> SUBSET LaneIds]
      /\ \A i \in Issues : told'[i] \subseteq told[i] \cup (IF i = Item THEN {walk.lane} ELSE {})
  BY <1>1, <1>2 DEF Called, Types
<1>4. Types'
  BY <1>1, <1>3 DEF Types, issue, ghosts
<1>5. /\ \A i : Sents(i)' = Sents(i)
      /\ \A i \in Issues : Out(i)' \subseteq Out(i) \cup (IF i = Item THEN {walk.lane} ELSE {})
  BY <1>3 DEF Sents, Out, AtWork, issue
<1>6. SentOnce' /\ AskedOnce' /\ LocalInv'
  BY <1>1, <1>5 DEF World, SentOnce, AskedOnce, LocalInv, issue
<1>7. OutInv'
  BY <1>1, <1>2, <1>5 DEF World, OutInv, ghosts
<1>8. VouchedInv'
  BY <1>1, <1>2, <1>5 DEF World, VouchedInv, issue, ghosts
<1>9. CapIsKept'
  BY <1>1, HandKept DEF World, CapIsKept, issue, ghosts
<1> QED
  BY <1>4, <1>6, <1>7, <1>8, <1>9 DEF World

LEMMA CommentStep == ASSUME DispatchAssumption, DispatchInv, Comment PROVE DispatchInv'
<1>1. /\ walk.pc = "comment" /\ walk.lane \in LaneIds /\ walk.todo # {} /\ Types
      /\ walk.todo \in SUBSET Issues /\ walk.sent \in Nat /\ walk.load \in Nat
      /\ walk.then = "gate"
  BY DEF Comment, DispatchInv, World, Types, RunRecs, Position, PlaceInv, Picking
<1>2. walk' = Sending(walk.todo \ {Item}, walk.sent + 1)
  BY DEF Comment, Goes
<1>3. walk' \in RunRecs
  BY <1>1, <1>2, SendingTyped
<1>4. World'
  BY <1>1, <1>3, CallKeeps DEF Comment, bounds, Types
<1>5. PICK k \in LaneIds : k = walk.lane
  BY <1>1
<1>6. \A i \in walk.todo \ {Item} : Sents(i)' = {}
  BY <1>1 DEF Comment, DispatchInv, Position, ReadyInv, Sents, issue
<1>7. quiet' => InHand(k)' <= walk.load + (walk.sent + 1)
  <2>1. quiet => InHand(k) <= walk.load + walk.sent + 1
    BY <1>1, <1>5 DEF DispatchInv, Position, LoadInv, Load
  <2>2. InHand(k)' = InHand(k) /\ quiet' = quiet /\ InHand(k) \in Nat
    BY <1>1, HandKept, HandIsNat DEF Comment, issue, ghosts
  <2> QED
    BY <1>1, <2>1, <2>2
<1>8. Position'
  BY <1>1, <1>2, <1>5, <1>6, <1>7, SendsOn
<1> QED
  BY <1>4, <1>8 DEF DispatchInv

LEMMA CommentFailsStep == ASSUME DispatchAssumption, DispatchInv, CommentFails PROVE DispatchInv'
<1>1. /\ walk.pc = "comment" /\ walk.lane \in LaneIds /\ walk.todo # {} /\ Types /\ walk.then = "gate"
      /\ walk \in RunRecs
  BY DEF CommentFails, DispatchInv, World, Types, Position, PlaceInv, Picking
<1>2. walk' = [walk EXCEPT !.pc = "undo"]
  BY DEF CommentFails, Goes
<1>3. /\ walk' \in RunRecs /\ walk'.pc = "undo" /\ walk'.todo = walk.todo /\ walk'.lane = walk.lane
      /\ walk'.then = "gate"
  BY <1>1, <1>2 DEF RunRecs, Pcs
<1>4. World'
  BY <1>1, <1>3, CallKeeps DEF CommentFails, Types
<1>5. Item' = Item /\ vouched' = vouched /\ \A i : Sents(i)' = Sents(i)
  BY <1>3 DEF CommentFails, Item, Sents, issue, ghosts
<1>6. Sents(Item)' = Sents(Item)
  BY <1>5 DEF CommentFails, Sents, issue
<1>7. Position'
  BY <1>1, <1>3, <1>5, <1>6
     DEF DispatchInv, Position, PlaceInv, ItemInv, ReadyInv, LoadInv, Load, RoomInv, Choosing, Picking
<1> QED
  BY <1>4, <1>7 DEF DispatchInv
-----------------------------------------------------------------------------
(* Everybody else.  Their steps leave the dispatcher where it is, and what *)
(* it counted counts no longer.                                            *)

\* The dispatcher's knowledge survives while the labels that say an issue is
\* out stay, and nobody's word is lost.
LEMMA PositionKept ==
    ASSUME DispatchInv, walk' = walk, asked' = asked, vouched \subseteq vouched', quiet' = FALSE,
           \A i \in Issues : Sents(i)' = Sents(i), DispatchAssumption
    PROVE  Position'
<1>1. Item' = Item /\ walk.todo \in SUBSET Issues
  BY DEF Item, DispatchInv, World, Types, RunRecs
<1>2. walk.todo # {} => Item \in Issues
  BY ItemIsIn DEF DispatchInv, World
<1>3. PlaceInv' /\ RoomInv' /\ LoadInv'
  BY DEF DispatchInv, Position, PlaceInv, RoomInv, LoadInv, Choosing
<1>4. ReadyInv'
  BY <1>1 DEF DispatchInv, Position, ReadyInv, Choosing
<1>5. ItemInv'
  <2>1. walk.pc \in {"comment", "undo"} => Sents(Item)' = {walk.lane}
    BY <1>1, <1>2 DEF DispatchInv, Position, ItemInv, PlaceInv, Picking, Sents
  <2> QED
    BY <1>1, <2>1 DEF DispatchInv, Position, ItemInv
<1> QED
  BY <1>3, <1>4, <1>5 DEF Position

\* A runner turns to something, or opens the first pull request for its issue.
LEMMA RunnerSteps ==
    ASSUME DispatchAssumption, DispatchInv, NEW l \in Local, ListPulls(l) \/ PickIssue(l) \/ Deliver(l)
    PROVE  DispatchInv'
<1>0. /\ World /\ Types /\ runner \in [Local -> RunnerRecs] /\ l \in LaneIds
      /\ UNCHANGED <<issue, asked, told, walk, bounds, vouched, retaken>>
      /\ quiet' = FALSE /\ before' = Nothing
  BY DEF DispatchInv, World, Types, ListPulls, PickIssue, Deliver, RunnerGoes, Disturbs, DispatchAssumption
<1>1. \A i \in Issues : Sents(i)' = Sents(i)
  BY <1>0 DEF Sents, issue
<1>2. Position'
  BY <1>0, <1>1, PositionKept
<1>3. /\ SentOnce' /\ AskedOnce' /\ CapIsKept'
  BY <1>0, <1>1 DEF World, SentOnce, AskedOnce, CapIsKept
<1>4. before' \in [LaneIds -> Nat]
  BY <1>0 DEF Nothing
<1>5. ASSUME Types', LocalInv',
             \A i \in Issues :
                 Out(i)' \subseteq Out(i) \cup (Sents(i) \cap {j \in LaneIds : i \in vouched})
      PROVE  DispatchInv'
  <2>1. OutInv' /\ VouchedInv'
    BY <1>0, <1>1, <1>5 DEF World, OutInv, VouchedInv, issue
  <2> QED
    BY <1>2, <1>3, <1>5, <2>1 DEF DispatchInv, World
<1>6. CASE ListPulls(l)
  <2> DEFINE p == [RunnerIdle EXCEPT !.pc = "pick", !.seen = {i \in Issues : HasPull(i)}]
  <2>1. /\ p \in RunnerRecs /\ p.pc = "pick" /\ p.seen = {i \in Issues : HasPull(i)}
    BY DEF RunnerIdle, RunnerRecs
  <2>2. runner' = [runner EXCEPT ![l] = p] /\ pulls' = pulls
    BY <1>6 DEF ListPulls, RunnerGoes
  <2> HIDE DEF p
  <2>3. /\ runner' \in [Local -> RunnerRecs]
        /\ \A k \in Local : runner'[k] = IF k = l THEN p ELSE runner[k]
    BY <1>0, <2>1, <2>2
  <2>4. Types'
    BY <1>0, <1>4, <2>2, <2>3 DEF Types, issue, bounds
  <2>5. LocalInv'
    BY <1>0, <2>1, <2>2, <2>3 DEF World, LocalInv, HasPull
  <2>6. \A i \in Issues : Out(i)' \subseteq Out(i)
    BY <1>0, <2>1, <2>2, <2>3 DEF Out, AtWork
  <2> QED
    BY <1>5, <2>4, <2>5, <2>6
<1>7. CASE PickIssue(l)
  <2>1. pulls' = pulls /\ runner[l].pc = "pick"
    BY <1>7 DEF PickIssue
  <2>2. CASE Candidates(l) = {}
    <3>1. runner' = [runner EXCEPT ![l] = RunnerIdle] /\ RunnerIdle \in RunnerRecs /\ RunnerIdle.pc = "idle"
      BY <1>7, <2>2 DEF PickIssue, RunnerGoes, RunnerIdle, RunnerRecs
    <3>2. /\ runner' \in [Local -> RunnerRecs]
          /\ \A k \in Local : runner'[k] = IF k = l THEN RunnerIdle ELSE runner[k]
      BY <1>0, <3>1
    <3>3. Types'
      BY <1>0, <1>4, <2>1, <3>2 DEF Types, issue, bounds
    <3>4. LocalInv'
      BY <1>0, <2>1, <3>1, <3>2 DEF World, LocalInv
    <3>5. \A i \in Issues : Out(i)' \subseteq Out(i)
      BY <1>0, <2>1, <3>1, <3>2 DEF Out, AtWork
    <3> QED
      BY <1>5, <3>3, <3>4, <3>5
  <2>3. CASE Candidates(l) # {}
    <3> DEFINE t == Min(Candidates(l))
               p == [RunnerIdle EXCEPT !.pc = "build", !.issue = t]
    <3>1. t \in Candidates(l) /\ t \in Issues
      <4>1. Candidates(l) \in SUBSET Issues /\ Candidates(l) \in SUBSET Nat
        BY <1>0 DEF Candidates, Types, DispatchAssumption
      <4> QED
        BY <2>3, <4>1, MinIsIn
    <3>2. /\ t \notin runner[l].seen /\ l \in Sents(t) /\ t \in vouched
      BY <1>0, <3>1 DEF Candidates, Sents, Allowed, World, VouchedInv
    <3>3. runner' = [runner EXCEPT ![l] = p]
      BY <1>7, <2>3 DEF PickIssue, RunnerGoes
    <3> HIDE DEF t
    <3>4. p \in RunnerRecs /\ p.pc = "build" /\ p.issue = t
      BY <3>1 DEF RunnerIdle, RunnerRecs
    <3> HIDE DEF p
    <3>5. /\ runner' \in [Local -> RunnerRecs]
          /\ \A k \in Local : runner'[k] = IF k = l THEN p ELSE runner[k]
      BY <1>0, <3>3, <3>4
    <3>6. Types'
      BY <1>0, <1>4, <2>1, <3>5 DEF Types, issue, bounds
    <3>7. LocalInv'
      BY <1>0, <2>1, <3>1, <3>2, <3>4, <3>5 DEF World, LocalInv
    <3>8. \A i \in Issues : Out(i)' \subseteq Out(i) \cup (IF i = t THEN {l} ELSE {})
      BY <1>0, <2>1, <3>4, <3>5 DEF Out, AtWork
    <3>9. \A i \in Issues :
              Out(i)' \subseteq Out(i) \cup (Sents(i) \cap {j \in LaneIds : i \in vouched})
      BY <1>0, <3>2, <3>8
    <3> QED
      BY <1>5, <3>6, <3>7, <3>9
  <2> QED
    BY <2>2, <2>3
<1>8. CASE Deliver(l)
  <2>1. PICK t \in Issues :
            t = runner[l].issue /\ <<t, l, 1>> \notin pulls /\ <<t, l, 2>> \notin pulls
    BY <1>8, <1>0 DEF Deliver, World, LocalInv
  <2>2. pulls' = pulls \/ pulls' = pulls \cup {<<t, l, 1>>}
    BY <1>8, <2>1 DEF Deliver, OpenPull
  <2>3. runner' = [runner EXCEPT ![l] = RunnerIdle] /\ RunnerIdle \in RunnerRecs /\ RunnerIdle.pc = "idle"
    BY <1>8 DEF Deliver, RunnerGoes, RunnerIdle, RunnerRecs
  <2>4. /\ runner' \in [Local -> RunnerRecs]
        /\ \A k \in Local : runner'[k] = IF k = l THEN RunnerIdle ELSE runner[k]
    BY <1>0, <2>3
  <2>5. pulls' \in SUBSET Pulls
    BY <1>0, <2>1, <2>2 DEF Types, Pulls
  <2>6. Types'
    BY <1>0, <1>4, <2>4, <2>5 DEF Types, issue, bounds
  <2>7. LocalInv'
    BY <1>0, <2>1, <2>2, <2>3, <2>4 DEF World, LocalInv
  <2>8. \A i \in Issues : Out(i)' \subseteq Out(i)
    BY <1>0, <1>8, <2>1, <2>2, <2>3, <2>4 DEF Out, AtWork, Deliver
  <2> QED
    BY <1>5, <2>6, <2>7, <2>8
<1> QED
  BY <1>6, <1>7, <1>8

\* A hosted builder works on what it was told; a pull request ends.
LEMMA HostedStep ==
    ASSUME DispatchAssumption, DispatchInv, NEW i \in Issues, NEW l \in LaneIds, HostedOpens(i, l)
    PROVE  DispatchInv'
<1>0. /\ World /\ Types /\ l \in told[i] /\ l \notin Local /\ pulls' = pulls \cup {<<i, l, 1>>}
      /\ UNCHANGED <<issue, asked, told, walk, runner, bounds, vouched, retaken>>
      /\ quiet' = FALSE /\ before' = Nothing
  BY DEF DispatchInv, World, HostedOpens, Disturbs
<1>1. \A j \in Issues : Sents(j)' = Sents(j)
  BY <1>0 DEF Sents, issue
<1>2. Position'
  BY <1>0, <1>1, PositionKept
<1>3. before' \in [LaneIds -> Nat] /\ pulls' \in SUBSET Pulls
  BY <1>0 DEF Nothing, Types, Pulls
<1>4. Types'
  BY <1>0, <1>3 DEF Types, issue, bounds
<1>5. \A j \in Issues : Out(j)' \subseteq Out(j)
  BY <1>0 DEF Out, AtWork
<1>6. SentOnce' /\ AskedOnce' /\ OutInv' /\ VouchedInv' /\ LocalInv' /\ CapIsKept'
  BY <1>0, <1>1, <1>5
     DEF World, SentOnce, AskedOnce, OutInv, VouchedInv, LocalInv, CapIsKept, issue
<1> QED
  BY <1>2, <1>4, <1>6 DEF DispatchInv, World

LEMMA PullEndsStep == ASSUME DispatchAssumption, DispatchInv, NEW p \in pulls, PullEnds(p) PROVE DispatchInv'
<1>0. /\ World /\ Types /\ pulls' \subseteq pulls /\ open' \subseteq open
      /\ UNCHANGED <<labels, assigned, trusted, order, waits, old, asked, told, walk, runner, bounds,
                     vouched, retaken>>
      /\ quiet' = FALSE /\ before' = Nothing
  BY DEF DispatchInv, World, PullEnds, Disturbs
<1>1. \A j \in Issues : Sents(j)' = Sents(j)
  BY <1>0 DEF Sents
<1>2. Position'
  BY <1>0, <1>1, PositionKept
<1>3. before' \in [LaneIds -> Nat] /\ pulls' \in SUBSET Pulls
  BY <1>0 DEF Nothing, Types
<1>4. Types'
  BY <1>0, <1>3 DEF Types, bounds
<1>5. \A j \in Issues : Out(j)' \subseteq Out(j)
  BY <1>0 DEF Out, AtWork
<1>6. SentOnce' /\ AskedOnce' /\ OutInv' /\ VouchedInv' /\ LocalInv' /\ CapIsKept'
  BY <1>0, <1>1, <1>5
     DEF World, SentOnce, AskedOnce, OutInv, VouchedInv, LocalInv, CapIsKept
<1> QED
  BY <1>2, <1>4, <1>6 DEF DispatchInv, World

LEMMA DayStep ==
    ASSUME DispatchAssumption, DispatchInv, NEW i \in Issues, NEW l \in LaneIds, Ages(i, l)
    PROVE  DispatchInv'
<1>0. /\ World /\ Types /\ old' = old \cup {<<i, l>>} /\ walk.pc = "idle" /\ walk.then = "gate"
      /\ UNCHANGED <<labels, open, assigned, trusted, order, waits, asked, told, pulls, walk, runner,
                     bounds, ghosts>>
  BY DEF DispatchInv, World, Ages, Position, PlaceInv
<1>1. Types'
  BY <1>0 DEF Types, bounds, ghosts
<1>2. \A j : Sents(j)' = Sents(j) /\ Out(j)' = Out(j)
  BY <1>0 DEF Sents, Out, AtWork
<1>3. SentOnce' /\ AskedOnce' /\ OutInv' /\ VouchedInv' /\ LocalInv'
  BY <1>0, <1>2 DEF World, SentOnce, AskedOnce, OutInv, VouchedInv, LocalInv, ghosts
<1>4. CapIsKept'
  BY <1>0, HandKept DEF World, CapIsKept, ghosts
<1>5. Position'
  BY <1>0, RestsAt DEF PlaceInv, Picking
<1> QED
  BY <1>1, <1>3, <1>4, <1>5 DEF DispatchInv, World

\* People label, order, hold and assign, and never say that an issue is out.
LEMMA PeopleSteps ==
    ASSUME DispatchAssumption, DispatchInv, NEW i \in Issues,
           Order(i) \/ Hold(i) \/ Assign(i) \/ Depend(i) \/ Move(i)
    PROVE  DispatchInv'
<1>0. /\ World /\ Types /\ quiet' = FALSE /\ before' = Nothing /\ changes' \in Nat
      /\ UNCHANGED <<open, trusted, old, asked, told, pulls, walk, runner, faults, retaken>>
  BY DEF DispatchInv, World, Types, Order, Hold, Assign, Depend, Move, Changes
<1>1. /\ labels' \in [Issues -> SUBSET Labels]
      /\ \A j \in Issues : Sents(j)' = Sents(j)
  <2>1. CASE UNCHANGED labels
    BY <1>0, <2>1 DEF Types, Sents
  <2>2. CASE Hold(i)
    <3>1. labels' = [labels EXCEPT ![i] = Toggled(@, OwnerLabel)]
      BY <2>2 DEF Hold
    <3>2. /\ Toggled(labels[i], OwnerLabel) \in SUBSET Labels
          /\ \A l \in LaneIds : Sent(l) \in Toggled(labels[i], OwnerLabel) <=> Sent(l) \in labels[i]
      BY <1>0, LabelsApart DEF Toggled, Types, Labels
    <3> QED
      BY <1>0, <3>1, <3>2 DEF Types, Sents
  <2>3. CASE Move(i)
    <3>1. PICK k \in LaneIds, l \in LaneIds :
              labels' = [labels EXCEPT ![i] = (@ \ {Builder(k)}) \cup {Builder(l)}]
      BY <2>3 DEF Move
    <3> DEFINE s == (labels[i] \ {Builder(k)}) \cup {Builder(l)}
    <3>2. s \in SUBSET Labels /\ \A j \in LaneIds : Sent(j) \in s <=> Sent(j) \in labels[i]
      BY <1>0, LabelsApart DEF Types, Labels
    <3>3. labels' = [labels EXCEPT ![i] = s]
      BY <3>1
    <3> HIDE DEF s
    <3> QED
      BY <1>0, <3>2, <3>3 DEF Types, Sents
  <2> QED
    BY <2>1, <2>2, <2>3 DEF Order, Assign, Depend
<1>2. /\ vouched \subseteq vouched' /\ order' \subseteq vouched' /\ trusted' \subseteq vouched'
      /\ order' \in SUBSET Issues /\ vouched' \in SUBSET Issues
      /\ assigned' \in SUBSET Issues /\ waits' \in SUBSET Issues
  BY <1>0 DEF World, Types, VouchedInv, Order, Hold, Assign, Depend, Move, Toggled
<1>3. before' \in [LaneIds -> Nat]
  BY <1>0 DEF Nothing
<1>4. Types'
  BY <1>0, <1>1, <1>2, <1>3 DEF Types
<1>5. \A j : Out(j)' = Out(j)
  BY <1>0 DEF Out, AtWork
<1>6. SentOnce' /\ AskedOnce' /\ OutInv' /\ VouchedInv' /\ LocalInv' /\ CapIsKept'
  BY <1>0, <1>1, <1>2, <1>5
     DEF World, SentOnce, AskedOnce, OutInv, VouchedInv, LocalInv, CapIsKept
<1>7. Position'
  BY <1>0, <1>1, <1>2, PositionKept
<1> QED
  BY <1>4, <1>6, <1>7 DEF DispatchInv, World
-----------------------------------------------------------------------------
LEMMA DispatchInitInv == ASSUME DispatchAssumption, DispatchInit PROVE DispatchInv
<1>1. /\ \A i \in Issues : labels[i] \in Starts /\ Sents(i) = {}
      /\ labels \in [Issues -> SUBSET Labels]
  BY DEF DispatchInit, DispatchAssumption, Sents
<1>2. Types
  <2>1. Idle \in RunRecs /\ RunnerIdle \in RunnerRecs
    BY DEF Idle, RunnerIdle, RunRecs, RunnerRecs, Pcs
  <2>2. walk \in RunRecs /\ runner \in [Local -> RunnerRecs] /\ before \in [LaneIds -> Nat]
    BY <2>1 DEF DispatchInit, Nothing
  <2> QED
    BY <1>1, <2>2 DEF DispatchInit, Types
<1>3. \A i \in Issues : Out(i) = {}
  BY DEF DispatchInit, Out, AtWork, RunnerIdle
<1>4. World
  BY <1>1, <1>2, <1>3
     DEF DispatchInit, World, SentOnce, AskedOnce, OutInv, VouchedInv, LocalInv, CapIsKept, RunnerIdle
<1>5. Position
  BY DEF DispatchInit, Idle, Position, PlaceInv, ItemInv, ReadyInv, LoadInv, RoomInv, Choosing, Picking
<1> QED
  BY <1>4, <1>5 DEF DispatchInv

LEMMA StutterKeeps == ASSUME DispatchInv, UNCHANGED dispatchVars PROVE DispatchInv'
<1>1. Types'
  BY DEF DispatchInv, World, Types, dispatchVars, issue, bounds, ghosts
<1>2. /\ \A j : Sents(j)' = Sents(j) /\ Out(j)' = Out(j) /\ Allowed(j)' = Allowed(j)
                /\ HasPull(j)' = HasPull(j)
      /\ \A l : Active(l)' = Active(l) /\ PullsOf(l)' = PullsOf(l)
      /\ Item' = Item
  BY DEF Sents, Out, AtWork, Active, SentTo, PullsOf, Allowed, HasPull, Item, dispatchVars, issue
<1>3. \A l : Counted(l)' = Counted(l) /\ InHand(l)' = InHand(l)
  BY <1>2 DEF Counted, InHand
<1>4. SentOnce' /\ AskedOnce' /\ OutInv' /\ VouchedInv' /\ LocalInv' /\ CapIsKept'
  BY <1>2, <1>3 DEF DispatchInv, World, SentOnce, AskedOnce, OutInv, VouchedInv, LocalInv, CapIsKept,
                    dispatchVars, issue, ghosts
<1>5. Sents(Item)' = Sents(Item)
  BY <1>2 DEF Sents, dispatchVars, issue
<1>6. Position'
  BY <1>2, <1>3, <1>5 DEF DispatchInv, Position, PlaceInv, ItemInv, ReadyInv, LoadInv, Load, RoomInv,
                     Choosing, dispatchVars, ghosts
<1> QED
  BY <1>1, <1>4, <1>6 DEF DispatchInv, World

LEMMA InvNext == ASSUME DispatchAssumption, DispatchInv, [DispatchNext]_dispatchVars PROVE DispatchInv'
<1>1. CASE Dispatcher
  BY <1>1, StartStep, ExpireSteps, TakeBackStep, RequestStep, CountSteps, ReadyStep, ChooseSteps,
     LabelStep, CommentStep DEF Dispatcher
<1>2. CASE Failure
  BY <1>2, CommentFailsStep, FailSteps DEF Failure
<1>3. CASE Builders
  BY <1>3, RunnerSteps, HostedStep, PullEndsStep DEF Builders
<1>4. CASE Day
  BY <1>4, DayStep DEF Day
<1>5. CASE People
  BY <1>5, PeopleSteps DEF People
<1>6. CASE UNCHANGED dispatchVars
  BY <1>6, StutterKeeps
<1> QED
  BY <1>1, <1>2, <1>3, <1>4, <1>5, <1>6 DEF DispatchNext
-----------------------------------------------------------------------------
(* What the invariant means.                                               *)

LEMMA DispatchInvariant == ASSUME DispatchAssumption PROVE DispatchSpec => []DispatchInv
<1>1. DispatchInit => DispatchInv
  BY DispatchInitInv
<1>2. DispatchInv /\ [DispatchNext]_dispatchVars => DispatchInv'
  BY InvNext
<1> QED
  BY <1>1, <1>2, PTL DEF DispatchSpec

LEMMA InvIsOneLane == DispatchInv => OneLane
<1> SUFFICES ASSUME DispatchInv, NEW i \in Issues
             PROVE  /\ Cardinality({l \in LaneIds : Sent(l) \in labels[i]}) <= 1
                    /\ Cardinality(AtWork(i)) <= 1 \/ i \in retaken
                    /\ \A l \in Local : <<i, l, 2>> \notin pulls
  BY DEF OneLane
<1>1. \A k, l \in Sents(i) : k = l
  BY DEF DispatchInv, World, SentOnce
<1>2. Cardinality({l \in LaneIds : Sent(l) \in labels[i]}) <= 1
  <2>1. Cardinality(Sents(i)) <= 1
    BY <1>1, AtMostOne
  <2> QED
    BY <2>1 DEF Sents
<1>3. Cardinality(AtWork(i)) <= 1 \/ i \in retaken
  <2>1. SUFFICES ASSUME i \notin retaken PROVE Cardinality(AtWork(i)) <= 1
    OBVIOUS
  <2>2. \A k, l \in AtWork(i) : k = l
    BY <1>1, <2>1 DEF DispatchInv, World, OutInv, Out
  <2> QED
    BY <2>2, AtMostOne
<1> QED
  BY <1>2, <1>3 DEF DispatchInv, World, LocalInv

(***************************************************************************)
(* Every reachable state has its types: the dispatcher stays in its lanes, *)
(* its lists among the issues, and runners and pull requests among both.   *)
(***************************************************************************)
THEOREM DispatchTypeCorrect == ASSUME DispatchAssumption PROVE DispatchSpec => []DispatchTypeOK
<1>1. DispatchInv => DispatchTypeOK
  BY DEF DispatchInv, World, Types, DispatchTypeOK, RunRecs, RunnerRecs, Pulls
<1> QED
  BY <1>1, DispatchInvariant, PTL

(***************************************************************************)
(* An issue is out to one lane at a time, two lanes work on it only when a *)
(* dispatch of it was taken back, and a lane's own runner opens no second  *)
(* pull request beside an open one (dispatch_issue and                     *)
(* expire_stale_dispatches of dispatch-lanes.yml, run_mac_lane.sh).        *)
(***************************************************************************)
THEOREM OneLaneAtWork == ASSUME DispatchAssumption PROVE DispatchSpec => []OneLane
BY InvIsOneLane, DispatchInvariant, PTL

(***************************************************************************)
(* No lane is handed or works on an issue nobody trusted vouched for, and  *)
(* an authority is asked once (issue_work_order_gate, request_work_order). *)
(***************************************************************************)
THEOREM OnlyTheTrusted == ASSUME DispatchAssumption PROVE DispatchSpec => []TrustedOnly
<1>1. DispatchInv => TrustedOnly
  BY DEF DispatchInv, World, VouchedInv, AskedOnce, TrustedOnly, Out
<1> QED
  BY <1>1, DispatchInvariant, PTL

(***************************************************************************)
(* A run nobody interferes with brings no lane over its cap, however its   *)
(* requests fail (active_dispatch_count, open_pr_count, dispatch_issue).   *)
(***************************************************************************)
THEOREM CapKept == ASSUME DispatchAssumption PROVE DispatchSpec => []CapIsKept
<1>1. DispatchInv => CapIsKept
  BY DEF DispatchInv, World
<1> QED
  BY <1>1, DispatchInvariant, PTL

(***************************************************************************)
(* From lane to lane                                                       *)
(***************************************************************************)
Stopping    == {"stop", "await", "verify", "head", "write"}
Supervising == {"check", "popen", "watch", "reap", "finish", "attribute"}

\* Where a run stands, and what it knows there.
Placed(l) ==
    LET r == run[l] IN
    /\ r.pc = "idle" => r.source = None
    /\ r.pc = "prepare" => r.phase = "accept"
    /\ r.source = None => r.pc \in {"idle", "setup", "register"} \cup Supervising
    /\ r.source # None => r.source # l /\ r.bound # None /\ mailbox[r.bound] # None
    /\ r.source # None /\ chain = None => r.source = Owner
    /\ r.pc \in {"verify", "head", "write"} => Exited(r.bound)
    /\ r.round # None <=> r.pc \in Supervising

\* The round it supervises is its own, and unfinished until it says so.
Supervises(l) ==
    LET r == run[l] IN
    r.round # None =>
        /\ mailbox[r.round] # None /\ mailbox[r.round].lane = l
        /\ r.pc # "attribute" => ~mailbox[r.round].finished
        /\ r.pc \in {"check", "popen"} => procs[r.round] = {}

\* The intent of a takeover says how far its run has come.
HasAccepted(l) == run[l].pc \notin Stopping \/ run[l].phase = "reserve"
HasReserved(l) == run[l].pc \in {"register"} \cup Supervising
Handed(l) ==
    LET r == run[l] IN
    IsTakeover(l) /\ r.pc # "prepare" =>
        /\ intent[r.head] = [source |-> r.source, to |-> l, round |-> r.bound,
                             accepted |-> HasAccepted(l), reserved |-> HasReserved(l)]
        /\ r.pc = "register" => launched[r.head] = {}

RunInv == \A l \in Lanes : Placed(l) /\ Supervises(l) /\ Handed(l)

\* A round that has not begun or has proved its exit has no process.
RoundInv == \A r \in Rounds : mailbox[r] = None \/ Exited(r) => procs[r] = {}

IntentInv == \A h \in Heads : intent[h] # None =>
    /\ mailbox[intent[h].round] # None
    /\ intent[h].accepted => Exited(intent[h].round)

LaunchInv == \A h \in Heads :
    /\ launched[h] # {} => intent[h] # None /\ intent[h].accepted /\ intent[h].reserved
    /\ \A r \in launched[h] : mailbox[r] # None /\ mailbox[r].lane = intent[h].to
    /\ \A p, q \in launched[h] : p = q

Inv == TypeOK /\ RunInv /\ RoundInv /\ IntentInv /\ LaunchInv
-----------------------------------------------------------------------------
(* Runs and rounds.                                                        *)

LEMMA Going ==
    ASSUME run \in [Lanes -> Runs], NEW l \in Lanes, NEW p \in Steps, Goto(l, p)
    PROVE  /\ run' \in [Lanes -> Runs]
           /\ run'[l] = [run[l] EXCEPT !.pc = p] /\ run'[l].round = run[l].round
           /\ \A k \in Lanes \ {l} : run'[k] = run[k]
BY DEF Goto, Runs

LEMMA ReservingRun ==
    ASSUME run \in [Lanes -> Runs], NEW l \in Lanes,
           run' = [run EXCEPT ![l].pc = "stop", ![l].phase = "reserve"]
    PROVE  /\ run' \in [Lanes -> Runs]
           /\ run'[l] = [run[l] EXCEPT !.pc = "stop", !.phase = "reserve"]
           /\ \A k \in Lanes \ {l} : run'[k] = run[k]
<1> DEFINE r == [run[l] EXCEPT !.pc = "stop", !.phase = "reserve"]
<1>1. run[l] \in Runs /\ "stop" \in Steps
  BY DEF Steps
<1>2. r \in Runs
  BY <1>1 DEF Runs
<1>3. run' = [run EXCEPT ![l] = r]
  BY <1>1
<1> QED
  BY <1>2, <1>3

LEMMA WatchedRun ==
    ASSUME run \in [Lanes -> Runs], NEW l \in Lanes, NEW how \in {"completed", "stopped"},
           Watched(l, how)
    PROVE  /\ run' \in [Lanes -> Runs]
           /\ run'[l] = [run[l] EXCEPT !.pc = "reap", !.ended = how]
           /\ \A k \in Lanes \ {l} : run'[k] = run[k]
<1> DEFINE r == [run[l] EXCEPT !.pc = "reap", !.ended = how]
<1>1. run[l] \in Runs /\ "reap" \in Steps
  BY DEF Steps
<1>2. r \in Runs
  BY <1>1 DEF Runs
<1>3. run' = [run EXCEPT ![l] = r]
  BY <1>1 DEF Watched
<1> QED
  BY <1>2, <1>3

LEMMA RegisteredRun ==
    ASSUME run \in [Lanes -> Runs], NEW l \in Lanes, NEW n \in Rounds,
           run' = [run EXCEPT ![l].pc = "check", ![l].round = n]
    PROVE  /\ run' \in [Lanes -> Runs]
           /\ run'[l] = [run[l] EXCEPT !.pc = "check", !.round = n]
           /\ \A k \in Lanes \ {l} : run'[k] = run[k]
<1> DEFINE r == [run[l] EXCEPT !.pc = "check", !.round = n]
<1>1. run[l] \in Runs /\ "check" \in Steps
  BY DEF Steps
<1>2. r \in Runs
  BY <1>1 DEF Runs
<1>3. run' = [run EXCEPT ![l] = r]
  BY <1>1
<1> QED
  BY <1>2, <1>3

LEMMA Halting ==
    ASSUME HandoffAssumption, run \in [Lanes -> Runs], NEW l \in Lanes, Halt(l)
    PROVE  /\ run' \in [Lanes -> Runs]
           /\ run'[l] = IdleRun
           /\ \A k \in Lanes \ {l} : run'[k] = run[k]
<1>1. IdleRun \in Runs
  BY DEF IdleRun, Runs, Steps, Heads, HandoffAssumption
<1> QED
  BY <1>1 DEF Halt

LEMMA RunFields ==
    ASSUME NEW r \in Runs
    PROVE  /\ r.pc \in Steps /\ r.phase \in {"accept", "reserve"} /\ r.head \in Heads
           /\ r.source \in Lanes \cup {None} /\ r.bound \in Rounds \cup {None}
           /\ r.round \in Rounds \cup {None} /\ r.ended \in {"no", "completed", "stopped"}
BY DEF Runs

LEMMA Idling ==
    /\ IdleRun.pc = "idle" /\ IdleRun.phase = "accept" /\ IdleRun.head = 0
    /\ IdleRun.source = None /\ IdleRun.bound = None /\ IdleRun.round = None
BY DEF IdleRun

\* The next round is an unused one.
LEMMA NextIsUnused ==
    ASSUME HandoffAssumption, Unused # {}
    PROVE  NextRound \in Unused /\ NextRound \in Rounds
<1> DEFINE R == OpToRel(<, Nat)
<1>1. Unused \in SUBSET Nat
  BY DEF Unused, Rounds, HandoffAssumption
<1>2. \E r \in Unused : \A q \in Unused : ~ (<<q, r>> \in R)
  BY <1>1, NatLessThanWellFounded, WFMin
<1>3. PICK r \in Unused : \A q \in Unused : ~ (q < r)
  BY <1>1, <1>2 DEF OpToRel
<1>4. \A q \in Unused : r <= q
  BY <1>1, <1>3
<1>5. NextRound \in Unused
  BY <1>4 DEF NextRound
<1> QED
  BY <1>5 DEF Unused

\* What another lane's run may rely on while a step is taken: its own record
\* and intent, that rounds stay what they are, and that an exit is for good.
Steady(l) ==
    /\ run'[l] = run[l]
    /\ \A r \in Rounds : mailbox[r] # None =>
          /\ mailbox'[r] # None /\ mailbox'[r].lane = mailbox[r].lane
          /\ Exited(r) => Exited(r)'
    /\ run[l].round # None =>
          /\ mailbox'[run[l].round].finished = mailbox[run[l].round].finished
          /\ procs[run[l].round] = {} => procs'[run[l].round] = {}
    /\ IsTakeover(l) /\ run[l].pc # "prepare" =>
          /\ intent'[run[l].head] = intent[run[l].head]
          /\ launched'[run[l].head] = launched[run[l].head]
    /\ chain' = None => chain = None

LEMMA SteadyKeeps ==
    ASSUME TypeOK, RunInv, NEW l \in Lanes, Steady(l)
    PROVE  Placed(l)' /\ Supervises(l)' /\ Handed(l)'
<1>1. run[l] \in Runs
  BY DEF TypeOK
<1>2. /\ run[l].bound \in Rounds \cup {None} /\ run[l].round \in Rounds \cup {None}
      /\ run'[l] = run[l]
  BY <1>1, RunFields DEF Steady
<1>3. Placed(l)'
  BY <1>2 DEF RunInv, Placed, Steady, Exited, Supervising
<1>4. Supervises(l)'
  BY <1>2 DEF RunInv, Supervises, Steady
<1>5. Handed(l)'
  BY <1>2 DEF RunInv, Handed, Steady, IsTakeover, HasAccepted, HasReserved
<1> QED
  BY <1>3, <1>4, <1>5

\* The parts of the invariant that are not about runs, when rounds stay what
\* they are and no intent or launch changes.
LEMMA QuietKeeps ==
    ASSUME TypeOK, IntentInv, LaunchInv, UNCHANGED <<intent, launched>>,
           \A r \in Rounds : mailbox[r] # None =>
              /\ mailbox'[r] # None /\ mailbox'[r].lane = mailbox[r].lane
              /\ Exited(r) => Exited(r)'
    PROVE  IntentInv' /\ LaunchInv'
<1>1. \A h \in Heads : intent[h] # None => intent[h].round \in Rounds
  BY DEF TypeOK, Intents
<1>2. \A h \in Heads : launched[h] \subseteq Rounds
  BY DEF TypeOK
<1>3. IntentInv'
  BY <1>1 DEF IntentInv, Exited
<1>4. LaunchInv'
  BY <1>2 DEF LaunchInv
<1> QED
  BY <1>3, <1>4

LEMMA InitInv == ASSUME HandoffAssumption PROVE Init => Inv
<1> SUFFICES ASSUME Init PROVE Inv
  OBVIOUS
<1> USE DEF Init, Quiet
<1>1. IdleRun \in Runs
  BY DEF IdleRun, Runs, Steps, Heads, HandoffAssumption
<1>2. TypeOK
  BY <1>1 DEF TypeOK, Heads, HandoffAssumption
<1>3. RunInv
  BY Idling DEF RunInv, Placed, Supervises, Handed, IsTakeover, Supervising
<1>4. RoundInv /\ IntentInv /\ LaunchInv
  BY DEF RoundInv, IntentInv, LaunchInv
<1> QED
  BY <1>2, <1>3, <1>4 DEF Inv
-----------------------------------------------------------------------------
(* Steps of one run that change no round, intent or launch.                *)

shared == <<mailbox, procs, intent, chain, launched>>

LEMMA Moves ==
    ASSUME Inv, TypeOK', NEW l \in Lanes, UNCHANGED shared,
           \A k \in Lanes \ {l} : run'[k] = run[k],
           Placed(l)', Supervises(l)', Handed(l)'
    PROVE  Inv'
<1>1. ASSUME NEW k \in Lanes \ {l} PROVE Placed(k)' /\ Supervises(k)' /\ Handed(k)'
  <2>1. Steady(k)
    BY DEF Steady, shared, Exited
  <2> QED
    BY <2>1, SteadyKeeps DEF Inv
<1>2. RunInv'
  BY <1>1 DEF RunInv
<1>3. IntentInv' /\ LaunchInv'
  BY QuietKeeps DEF Inv, shared, Exited
<1>4. RoundInv'
  BY DEF Inv, RoundInv, shared, Exited
<1> QED
  BY <1>2, <1>3, <1>4 DEF Inv

LEMMA Resting ==
    ASSUME NEW l, run'[l] = IdleRun
    PROVE  Placed(l)' /\ Supervises(l)' /\ Handed(l)'
BY Idling DEF Placed, Supervises, Handed, IsTakeover, Supervising

LEMMA HaltStep ==
    ASSUME HandoffAssumption, Inv, NEW l \in Lanes, Halt(l),
           UNCHANGED <<github, copies, shared>>, UNCHANGED locked \/ Unlock(l)
    PROVE  Inv'
<1>1. /\ run' \in [Lanes -> Runs] /\ run'[l] = IdleRun
      /\ \A k \in Lanes \ {l} : run'[k] = run[k]
  BY Halting DEF Inv, TypeOK
<1>2. locked' \in [Heads -> Lanes \cup {None}]
  BY DEF Inv, TypeOK, Unlock
<1>3. TypeOK'
  BY <1>1, <1>2 DEF Inv, TypeOK, github, copies, shared
<1> QED
  BY <1>1, <1>3, Resting, Moves DEF shared

LEMMA HaltActions ==
    ASSUME HandoffAssumption, Inv, NEW l \in Lanes,
           PrepareRepeats(l) \/ Refuse(l) \/ ReserveRepeats(l) \/ RegisterFails(l) \/ Crash(l)
    PROVE  Inv'
<1>1. /\ Halt(l) /\ UNCHANGED <<github, copies, shared>>
      /\ UNCHANGED locked \/ Unlock(l)
  BY DEF PrepareRepeats, Refuse, ReserveRepeats, RegisterFails, Crash, shared, github
<1> QED
  BY <1>1, HaltStep

LEMMA BeginStep ==
    ASSUME HandoffAssumption, Inv, NEW l \in Lanes, Begin(l)
    PROVE  Inv'
<1> DEFINE r == [IdleRun EXCEPT !.pc = "setup", !.head = remote]
<1>1. r \in Runs
  BY DEF Inv, TypeOK, IdleRun, Runs, Steps, Heads, HandoffAssumption
<1>2. /\ r.pc = "setup" /\ r.source = None /\ r.round = None
  BY DEF IdleRun
<1>3. /\ run' \in [Lanes -> Runs] /\ run'[l] = r
      /\ \A k \in Lanes \ {l} : run'[k] = run[k]
  BY <1>1 DEF Begin, Inv, TypeOK
<1>4. TypeOK'
  BY <1>3 DEF Begin, Inv, TypeOK, github, copies
<1>5. Placed(l)' /\ Supervises(l)' /\ Handed(l)'
  BY <1>2, <1>3 DEF Placed, Supervises, Handed, IsTakeover, Supervising
<1>6. UNCHANGED shared
  BY DEF Begin, shared, github
<1> QED
  BY <1>3, <1>4, <1>5, <1>6, Moves

LEMMA BeginTakeoverStep ==
    ASSUME HandoffAssumption, Inv, NEW l \in Lanes, BeginTakeover(l)
    PROVE  Inv'
<1>1. PICK s \in Lanes \ {l}, b \in Rounds \ Unused :
          /\ Owns(s)
          /\ run' = [run EXCEPT ![l] = [IdleRun EXCEPT !.pc = "prepare",
                        !.head = remote, !.source = s, !.bound = b]]
  BY DEF BeginTakeover
<1> DEFINE r == [IdleRun EXCEPT !.pc = "prepare", !.head = remote, !.source = s, !.bound = b]
<1>2. r \in Runs
  BY DEF Inv, TypeOK, IdleRun, Runs, Steps, Heads, HandoffAssumption
<1>3. /\ r.pc = "prepare" /\ r.source = s /\ r.bound = b /\ r.round = None
      /\ r.phase = "accept"
  BY DEF IdleRun
<1>4. /\ run' \in [Lanes -> Runs] /\ run'[l] = r
      /\ \A k \in Lanes \ {l} : run'[k] = run[k]
  BY <1>1, <1>2 DEF Inv, TypeOK
<1>5. TypeOK'
  BY <1>4 DEF BeginTakeover, Inv, TypeOK, github, copies
<1>6. s # None /\ b # None /\ mailbox[b] # None
  BY DEF HandoffAssumption, Rounds, Unused
<1>7. chain = None => s = Owner
  BY <1>1 DEF Owns, Decision
<1>8. UNCHANGED shared
  BY DEF BeginTakeover, shared, github
<1>9. Placed(l)' /\ Supervises(l)' /\ Handed(l)'
  BY <1>3, <1>4, <1>6, <1>7, <1>8
     DEF Placed, Supervises, Handed, IsTakeover, Supervising, shared
<1> QED
  BY <1>4, <1>5, <1>8, <1>9, Moves

\* A run goes on with the same takeover.
LEMMA GoesOn ==
    ASSUME Inv, TypeOK', NEW l \in Lanes, NEW p \in Steps,
           run'[l].pc = p, run'[l].head = run[l].head, run'[l].source = run[l].source,
           run'[l].bound = run[l].bound, run'[l].round = run[l].round,
           \A k \in Lanes \ {l} : run'[k] = run[k],
           UNCHANGED shared,
           p \notin {"idle", "prepare", "register", "check", "popen"},
           run[l].pc \notin {"idle", "prepare"},
           HasAccepted(l)' = HasAccepted(l), HasReserved(l)' = HasReserved(l),
           p \in Supervising <=> run[l].pc \in Supervising,
           p \in Stopping \cup {"reserve"} => IsTakeover(l),
           p \in {"verify", "head", "write"} =>
              run[l].pc \in {"verify", "head", "write"} \/ Exited(run[l].bound),
           run[l].pc # "attribute"
    PROVE  Inv'
<1>1. Placed(l) /\ Supervises(l) /\ Handed(l)
  BY DEF Inv, RunInv
<1>2. Placed(l)'
  BY <1>1 DEF Placed, shared, Exited, IsTakeover, Supervising, Stopping, Steps
<1>3. Supervises(l)'
  BY <1>1 DEF Supervises, shared
<1>4. Handed(l)'
  BY <1>1 DEF Handed, shared, IsTakeover
<1> QED
  BY <1>2, <1>3, <1>4, Moves

LEMMA StopSteps ==
    ASSUME HandoffAssumption, Inv, NEW l \in Lanes,
           AwaitExit(l) \/ VerifyCheckout(l) \/ ReadHead(l)
    PROVE  Inv'
<1>1. ASSUME NEW p \in {"verify", "head", "write"}, NEW q \in Stopping,
             At(l, q), Goto(l, p), q = "await" => Exited(run[l].bound),
             q # "stop", UNCHANGED <<github, copies, shared, locked>>
      PROVE  Inv'
  <2>1. p \in Steps
    BY DEF Steps
  <2>2. /\ run' \in [Lanes -> Runs] /\ run'[l] = [run[l] EXCEPT !.pc = p]
        /\ \A k \in Lanes \ {l} : run'[k] = run[k]
    BY <1>1, <2>1, Going DEF Inv, TypeOK
  <2>3. /\ run'[l].pc = p /\ run'[l].head = run[l].head /\ run'[l].source = run[l].source
        /\ run'[l].bound = run[l].bound /\ run'[l].round = run[l].round
        /\ run'[l].phase = run[l].phase
    BY <2>2 DEF Inv, TypeOK, Runs
  <2>4. TypeOK'
    BY <1>1, <2>2 DEF Inv, TypeOK, github, copies, shared
  <2>5. HasAccepted(l)' = HasAccepted(l) /\ HasReserved(l)' = HasReserved(l)
    BY <1>1, <2>3 DEF HasAccepted, HasReserved, Stopping, Supervising, At
  <2>6. IsTakeover(l)
    BY <1>1 DEF Inv, RunInv, Placed, At, IsTakeover, Stopping, Supervising
  <2>7. p \notin Supervising /\ run[l].pc \notin Supervising
    BY <1>1 DEF At, Stopping, Supervising
  <2>8. run[l].pc \in {"verify", "head", "write"} \/ Exited(run[l].bound)
    BY <1>1 DEF At, Stopping
  <2>9. run[l].pc \notin {"idle", "prepare", "attribute"}
    BY <1>1 DEF At, Stopping
  <2> QED
    BY <1>1, <2>1, <2>2, <2>3, <2>4, <2>5, <2>6, <2>7, <2>8, <2>9, GoesOn
<1>2. CASE AwaitExit(l)
  BY <1>2, <1>1 DEF AwaitExit, Stopping, shared, github
<1>3. CASE VerifyCheckout(l)
  BY <1>3, <1>1 DEF VerifyCheckout, Stopping, shared, github
<1>4. CASE ReadHead(l)
  BY <1>4, <1>1 DEF ReadHead, Stopping, shared, github
<1> QED
  BY <1>2, <1>3, <1>4

\* The workspace is made between the acceptance and the reservation.
LEMMA SetupStep ==
    ASSUME HandoffAssumption, Inv, NEW l \in Lanes, Setup(l)
    PROVE  Inv'
<1> DEFINE p == IF IsTakeover(l) THEN "reserve" ELSE "register"
<1>1. p \in Steps
  BY DEF Steps
<1>2. /\ run' \in [Lanes -> Runs] /\ run'[l] = [run[l] EXCEPT !.pc = p]
      /\ \A k \in Lanes \ {l} : run'[k] = run[k]
  BY <1>1, Going DEF Setup, Inv, TypeOK
<1>3. /\ run'[l].pc = p /\ run'[l].head = run[l].head /\ run'[l].source = run[l].source
      /\ run'[l].bound = run[l].bound /\ run'[l].round = run[l].round
      /\ run'[l].phase = run[l].phase
  BY <1>2 DEF Inv, TypeOK, Runs
<1>4. TypeOK'
  BY <1>2, RunFields DEF Setup, Inv, TypeOK, github, copies
<1>5. UNCHANGED shared /\ run[l].pc = "setup"
  BY DEF Setup, shared, github, At
<1>6. Placed(l) /\ Supervises(l) /\ Handed(l)
  BY DEF Inv, RunInv
<1>7. Placed(l)'
  BY <1>3, <1>5, <1>6 DEF Placed, shared, Supervising, IsTakeover
<1>8. Supervises(l)'
  BY <1>3, <1>5, <1>6 DEF Placed, Supervises, Supervising
<1>9. Handed(l)'
  <2>1. CASE IsTakeover(l)
    BY <2>1, <1>3, <1>5, <1>6
       DEF Handed, IsTakeover, HasAccepted, HasReserved, Stopping, Supervising, shared
  <2>2. CASE ~IsTakeover(l)
    BY <2>2, <1>3 DEF Handed, IsTakeover
  <2> QED
    BY <2>1, <2>2
<1> QED
  BY <1>2, <1>4, <1>5, <1>7, <1>8, <1>9, Moves

LEMMA ReserveLaunchStep ==
    ASSUME HandoffAssumption, Inv, NEW l \in Lanes, ReserveLaunch(l)
    PROVE  Inv'
<1>1. /\ run' \in [Lanes -> Runs]
      /\ run'[l] = [run[l] EXCEPT !.pc = "stop", !.phase = "reserve"]
      /\ \A k \in Lanes \ {l} : run'[k] = run[k]
  BY ReservingRun DEF ReserveLaunch, Inv, TypeOK
<1>2. /\ run'[l].pc = "stop" /\ run'[l].head = run[l].head /\ run'[l].source = run[l].source
      /\ run'[l].bound = run[l].bound /\ run'[l].round = run[l].round
      /\ run'[l].phase = "reserve"
  BY <1>1 DEF Inv, TypeOK, Runs
<1>3. locked' \in [Heads -> Lanes \cup {None}]
  BY DEF ReserveLaunch, Lock, Inv, TypeOK
<1>4. TypeOK'
  BY <1>1, <1>3 DEF ReserveLaunch, Inv, TypeOK, github, copies
<1>5. run[l].pc = "reserve" /\ UNCHANGED shared
  BY DEF ReserveLaunch, At, shared, github
<1>6. IsTakeover(l)
  BY <1>5 DEF Inv, RunInv, Placed, IsTakeover, Supervising
<1>7. HasAccepted(l)' = HasAccepted(l) /\ HasReserved(l)' = HasReserved(l)
  BY <1>2, <1>5 DEF HasAccepted, HasReserved, Stopping, Supervising
<1>8. "stop" \in Steps /\ "stop" \notin Supervising /\ run[l].pc \notin Supervising
  BY <1>5 DEF Steps, Supervising
<1> QED
  BY <1>1, <1>2, <1>4, <1>5, <1>6, <1>7, <1>8, GoesOn

\* The supervisor sees an end, and signals the group.
LEMMA WatchSteps ==
    ASSUME HandoffAssumption, Inv, NEW l \in Lanes,
           WatchStop(l) \/ WatchCut(l) \/ WatchExit(l)
    PROVE  Inv'
<1>1. PICK how \in {"completed", "stopped"} : Watched(l, how)
  BY DEF WatchStop, WatchCut, WatchExit
<1>2. run[l].pc = "watch" /\ UNCHANGED <<github, copies, shared, locked>>
  BY DEF WatchStop, WatchCut, WatchExit, At, shared, github
<1>3. /\ run' \in [Lanes -> Runs]
      /\ run'[l] = [run[l] EXCEPT !.pc = "reap", !.ended = how]
      /\ \A k \in Lanes \ {l} : run'[k] = run[k]
  BY <1>1, WatchedRun DEF Inv, TypeOK
<1>4. /\ run'[l].pc = "reap" /\ run'[l].head = run[l].head /\ run'[l].source = run[l].source
      /\ run'[l].bound = run[l].bound /\ run'[l].round = run[l].round
      /\ run'[l].phase = run[l].phase
  BY <1>3 DEF Inv, TypeOK, Runs
<1>5. TypeOK'
  BY <1>2, <1>3 DEF Inv, TypeOK, github, copies, shared
<1>6. HasAccepted(l)' = HasAccepted(l) /\ HasReserved(l)' = HasReserved(l)
  BY <1>2, <1>4 DEF HasAccepted, HasReserved, Stopping, Supervising
<1>7. /\ "reap" \in Steps /\ "reap" \in Supervising /\ run[l].pc \in Supervising
      /\ "reap" \notin Stopping \cup {"reserve"}
  BY <1>2 DEF Steps, Supervising, Stopping
<1> QED
  BY <1>2, <1>3, <1>4, <1>5, <1>6, <1>7, GoesOn
-----------------------------------------------------------------------------
(* Steps that write an intent: only the lane it names takes them.          *)

LEMMA HandedIntent ==
    ASSUME HandoffAssumption, Inv, NEW k \in Lanes, IsTakeover(k), run[k].pc # "prepare"
    PROVE  /\ run[k].head \in Heads /\ intent[run[k].head] \in Intents
           /\ intent[run[k].head] # None /\ intent[run[k].head].to = k
           /\ intent[run[k].head].round = run[k].bound /\ run[k].bound \in Rounds
<1>1. run[k] \in Runs /\ Placed(k) /\ Handed(k)
  BY DEF Inv, TypeOK, RunInv
<1>2. /\ run[k].head \in Heads /\ run[k].source \in Lanes /\ run[k].bound \in Rounds
  BY <1>1, RunFields DEF Placed, IsTakeover
<1>3. HasAccepted(k) \in BOOLEAN /\ HasReserved(k) \in BOOLEAN
  BY DEF HasAccepted, HasReserved
<1>4. intent[run[k].head] \in Intents
  BY <1>1, <1>2, <1>3 DEF Handed, Intents
<1> QED
  BY <1>1, <1>2, <1>4 DEF Handed, HandoffAssumption

\* The run that writes the intent of its head leaves everybody else's alone.
LEMMA IntentMoves ==
    ASSUME HandoffAssumption, Inv, TypeOK', NEW l \in Lanes, NEW i \in Intents,
           UNCHANGED <<mailbox, procs, chain, launched>>,
           intent' = [intent EXCEPT ![run[l].head] = i],
           intent[run[l].head] = None \/ intent[run[l].head].to = l,
           \A k \in Lanes \ {l} : run'[k] = run[k],
           Placed(l)', Supervises(l)', Handed(l)',
           mailbox[i.round] # None, i.accepted => Exited(i.round),
           intent[run[l].head] # None /\ intent[run[l].head].accepted => i.accepted,
           intent[run[l].head] # None /\ intent[run[l].head].reserved => i.reserved,
           intent[run[l].head] # None => i.to = intent[run[l].head].to
    PROVE  Inv'
<1>1. run[l].head \in Heads /\ intent \in [Heads -> Intents \cup {None}]
  BY RunFields DEF Inv, TypeOK
<1>2. ASSUME NEW k \in Lanes \ {l} PROVE Placed(k)' /\ Supervises(k)' /\ Handed(k)'
  <2>1. IsTakeover(k) /\ run[k].pc # "prepare" => intent'[run[k].head] = intent[run[k].head]
    <3> SUFFICES ASSUME IsTakeover(k), run[k].pc # "prepare"
                 PROVE  run[k].head \in Heads /\ run[k].head # run[l].head
      BY <1>1
    <3> QED
      BY HandedIntent
  <2>2. Steady(k)
    BY <2>1 DEF Steady, Exited
  <2> QED
    BY <2>2, SteadyKeeps DEF Inv
<1>3. RunInv'
  BY <1>2 DEF RunInv
<1>4. RoundInv'
  BY DEF Inv, RoundInv, Exited
<1>5. IntentInv'
  <2> SUFFICES ASSUME NEW h \in Heads, intent'[h] # None
               PROVE  /\ mailbox[intent'[h].round] # None
                      /\ intent'[h].accepted => Exited(intent'[h].round)
    BY DEF IntentInv, Exited
  <2>1. CASE h = run[l].head
    BY <1>1, <2>1
  <2>2. CASE h # run[l].head
    BY <1>1, <2>2 DEF Inv, IntentInv
  <2> QED
    BY <2>1, <2>2
<1>6. LaunchInv'
  <2> SUFFICES ASSUME NEW h \in Heads
               PROVE  /\ launched[h] # {} => intent'[h] # None /\ intent'[h].accepted
                                               /\ intent'[h].reserved
                      /\ \A r \in launched[h] : /\ mailbox[r] # None
                                                /\ mailbox[r].lane = intent'[h].to
                      /\ \A p, q \in launched[h] : p = q
    BY DEF LaunchInv
  <2>1. CASE h = run[l].head
    BY <1>1, <2>1 DEF Inv, LaunchInv, HandoffAssumption
  <2>2. CASE h # run[l].head
    BY <1>1, <2>2 DEF Inv, LaunchInv
  <2> QED
    BY <2>1, <2>2
<1> QED
  BY <1>3, <1>4, <1>5, <1>6 DEF Inv

LEMMA PrepareStep ==
    ASSUME HandoffAssumption, Inv, NEW l \in Lanes, Prepare(l)
    PROVE  Inv'
<1> DEFINE i == [source |-> run[l].source, to |-> l, round |-> run[l].bound,
                 accepted |-> FALSE, reserved |-> FALSE]
<1>1. run[l] \in Runs /\ Placed(l) /\ Supervises(l) /\ run[l].pc = "prepare"
  BY DEF Inv, TypeOK, RunInv, Prepare, At
<1>2. /\ IsTakeover(l) /\ run[l].source \in Lanes /\ run[l].bound \in Rounds
      /\ mailbox[run[l].bound] # None /\ run[l].head \in Heads
  BY <1>1, RunFields DEF Placed, IsTakeover, Supervising
<1>3. i \in Intents /\ i.round = run[l].bound /\ i.accepted = FALSE
  BY <1>2 DEF Intents
<1>4. intent' = [intent EXCEPT ![run[l].head] = i]
  BY DEF Prepare
<1>5. intent[run[l].head] = None
  BY DEF Prepare, Recorded
<1>6. /\ run' \in [Lanes -> Runs] /\ run'[l] = [run[l] EXCEPT !.pc = "stop"]
      /\ \A k \in Lanes \ {l} : run'[k] = run[k]
  BY Going DEF Prepare, Inv, TypeOK, Steps
<1>7. /\ run'[l].pc = "stop" /\ run'[l].head = run[l].head /\ run'[l].source = run[l].source
      /\ run'[l].bound = run[l].bound /\ run'[l].round = run[l].round
      /\ run'[l].phase = "accept"
  BY <1>1, <1>6 DEF Runs, Placed
<1>8. TypeOK'
  <2>1. locked' \in [Heads -> Lanes \cup {None}]
    BY DEF Prepare, Lock, Inv, TypeOK
  <2>2. intent' \in [Heads -> Intents \cup {None}]
    BY <1>3, <1>4 DEF Inv, TypeOK
  <2> QED
    BY <1>6, <2>1, <2>2 DEF Prepare, Inv, TypeOK, github, copies
<1>9. Placed(l)'
  BY <1>1, <1>2, <1>7 DEF Placed, Supervising, IsTakeover, Prepare, github
<1>10. Supervises(l)'
  BY <1>1, <1>7 DEF Placed, Supervises, Supervising
<1>11. Handed(l)'
  <2>1. intent'[run[l].head] = i
    BY <1>2, <1>4 DEF Inv, TypeOK
  <2>2. ~HasAccepted(l)' /\ ~HasReserved(l)'
    BY <1>7 DEF HasAccepted, HasReserved, Stopping, Supervising
  <2>3. HasAccepted(l)' = FALSE /\ HasReserved(l)' = FALSE
    BY <2>2 DEF HasAccepted, HasReserved
  <2> QED
    BY <1>7, <2>1, <2>3 DEF Handed
<1>12. UNCHANGED <<mailbox, procs, chain, launched>>
  BY DEF Prepare, github
<1> QED
  BY <1>2, <1>3, <1>4, <1>5, <1>6, <1>8, <1>9, <1>10, <1>11, <1>12, IntentMoves

\* The last write of prepare, and that of reserve_launch.
LEMMA WriteStep ==
    ASSUME HandoffAssumption, Inv, NEW l \in Lanes, Accept(l) \/ Reserve(l)
    PROVE  Inv'
<1> DEFINE a == run[l].phase = "accept"
           h == run[l].head
           i == IF a THEN [intent[h] EXCEPT !.accepted = TRUE]
                     ELSE [intent[h] EXCEPT !.reserved = TRUE]
           p == IF a THEN "setup" ELSE "register"
<1>1. /\ run[l] \in Runs /\ Placed(l) /\ Supervises(l) /\ Handed(l) /\ run[l].pc = "write"
  BY DEF Inv, TypeOK, RunInv, Accept, Reserve, At
<1>2. /\ IsTakeover(l) /\ h \in Heads /\ intent[h] \in Intents /\ intent[h] # None
      /\ intent[h].to = l /\ intent[h].round = run[l].bound /\ run[l].bound \in Rounds
      /\ mailbox[run[l].bound] # None /\ Exited(run[l].bound)
  <2>1. IsTakeover(l)
    BY <1>1 DEF Placed, IsTakeover, Supervising
  <2> QED
    BY <1>1, <2>1, HandedIntent DEF Placed, IsTakeover
<1>3. intent[h].reserved = FALSE /\ (~a => intent[h].accepted)
  <2>1. ~HasReserved(l) /\ (HasAccepted(l) <=> ~a)
    BY <1>1, RunFields DEF HasAccepted, HasReserved, Stopping, Supervising
  <2>2. HasReserved(l) = FALSE
    BY <2>1 DEF HasReserved
  <2>3. /\ intent[h].accepted = HasAccepted(l) /\ intent[h].reserved = HasReserved(l)
    BY <1>1, <1>2 DEF Handed
  <2> QED
    BY <2>1, <2>2, <2>3
<1>4. /\ i \in Intents /\ i.round = run[l].bound /\ i.to = l /\ i.accepted
      /\ i.source = intent[h].source /\ i.accepted \in BOOLEAN /\ i.reserved = ~a
  <2>1. CASE a
    BY <1>2, <1>3, <2>1 DEF Intents
  <2>2. CASE ~a
    BY <1>2, <1>3, <2>2 DEF Intents
  <2> QED
    BY <2>1, <2>2
<1>5. intent' = [intent EXCEPT ![h] = i]
  BY DEF Accept, Reserve
<1>6. /\ p \in Steps /\ Goto(l, p)
  BY DEF Accept, Reserve, Steps
<1>7. /\ run' \in [Lanes -> Runs] /\ run'[l] = [run[l] EXCEPT !.pc = p]
      /\ \A k \in Lanes \ {l} : run'[k] = run[k]
  BY <1>6, Going DEF Inv, TypeOK
<1>8. /\ run'[l].pc = p /\ run'[l].head = run[l].head /\ run'[l].source = run[l].source
      /\ run'[l].bound = run[l].bound /\ run'[l].round = run[l].round
      /\ run'[l].phase = run[l].phase
  BY <1>1, <1>7 DEF Runs
<1>9. UNCHANGED <<mailbox, procs, chain, launched>>
  BY DEF Accept, Reserve, github
<1>10. TypeOK'
  <2>1. locked' \in [Heads -> Lanes \cup {None}]
    BY DEF Accept, Reserve, Unlock, Inv, TypeOK
  <2>2. intent' \in [Heads -> Intents \cup {None}]
    BY <1>4, <1>5 DEF Inv, TypeOK
  <2> QED
    BY <1>7, <2>1, <2>2 DEF Accept, Reserve, Inv, TypeOK, github, copies
<1>11. Placed(l)'
  BY <1>1, <1>2, <1>8, <1>9 DEF Placed, Supervising, IsTakeover
<1>12. Supervises(l)'
  BY <1>1, <1>8 DEF Placed, Supervises, Supervising
<1>13. Handed(l)'
  <2>1. intent'[h] = i
    BY <1>2, <1>5 DEF Inv, TypeOK
  <2>2. HasAccepted(l)' /\ (HasReserved(l)' <=> ~a)
    BY <1>8 DEF HasAccepted, HasReserved, Stopping, Supervising
  <2>3. HasAccepted(l)' = TRUE /\ HasReserved(l)' = ~a
    BY <2>2 DEF HasAccepted, HasReserved
  <2>4. i.accepted = TRUE /\ i.reserved = ~a
    BY <1>4
  <2>5. i.source = run[l].source
    BY <1>1, <1>2, <1>4 DEF Handed
  <2>6. i = [source |-> run[l].source, to |-> l, round |-> run[l].bound,
             accepted |-> TRUE, reserved |-> ~a]
    BY <1>4, <2>4, <2>5 DEF Intents
  <2>7. launched[h] = {}
    BY <1>2, <1>3 DEF Inv, LaunchInv
  <2> QED
    BY <1>8, <1>9, <2>1, <2>3, <2>6, <2>7 DEF Handed
<1>14. /\ mailbox[i.round] # None /\ Exited(i.round)
  BY <1>2, <1>4
<1> QED
  <2> HIDE DEF i, a, p
  <2> QED
    BY <1>2, <1>3, <1>4, <1>5, <1>7, <1>9, <1>10, <1>11, <1>12, <1>13, <1>14, IntentMoves
-----------------------------------------------------------------------------
(* Steps about a round: two runs never supervise the same one.             *)

LEMMA RoundMoves ==
    ASSUME HandoffAssumption, Inv, TypeOK', NEW l \in Lanes,
           UNCHANGED <<intent, chain, launched>>,
           \A k \in Lanes \ {l} : run'[k] = run[k],
           \A r \in Rounds : mailbox[r] # None =>
              /\ mailbox'[r] # None /\ mailbox'[r].lane = mailbox[r].lane
              /\ Exited(r) => Exited(r)'
              /\ r # run[l].round => /\ mailbox'[r].finished = mailbox[r].finished
                                     /\ procs[r] = {} => procs'[r] = {},
           Placed(l)', Supervises(l)', Handed(l)', RoundInv'
    PROVE  Inv'
<1>1. ASSUME NEW k \in Lanes \ {l} PROVE Placed(k)' /\ Supervises(k)' /\ Handed(k)'
  <2>1. run[k].round # None =>
           run[k].round \in Rounds /\ run[k].round # run[l].round /\ mailbox[run[k].round] # None
    <3> SUFFICES ASSUME run[k].round # None
                 PROVE  /\ run[k].round \in Rounds /\ run[k].round # run[l].round
                        /\ mailbox[run[k].round] # None
      OBVIOUS
    <3>1. run[k] \in Runs /\ Supervises(k) /\ Supervises(l)
      BY DEF Inv, TypeOK, RunInv
    <3> QED
      BY <3>1, RunFields DEF Supervises
  <2>2. Steady(k)
    BY <2>1 DEF Steady
  <2> QED
    BY <2>2, SteadyKeeps DEF Inv
<1>2. RunInv'
  BY <1>1 DEF RunInv
<1>3. IntentInv' /\ LaunchInv'
  BY QuietKeeps DEF Inv
<1> QED
  BY <1>2, <1>3 DEF Inv

LEMMA RequestStopStep ==
    ASSUME HandoffAssumption, Inv, NEW l \in Lanes, RequestStop(l)
    PROVE  Inv'
<1> DEFINE b == run[l].bound
           m == [mailbox[b] EXCEPT !.stop = TRUE]
<1>1. run[l] \in Runs /\ Placed(l) /\ Supervises(l) /\ Handed(l) /\ run[l].pc = "stop"
  BY DEF Inv, TypeOK, RunInv, RequestStop, At
<1>2. IsTakeover(l) /\ b \in Rounds /\ mailbox[b] \in Mailboxes
  BY <1>1, RunFields DEF Placed, IsTakeover, Supervising, Inv, TypeOK
<1>3. /\ m \in Mailboxes /\ m.lane = mailbox[b].lane /\ m.finished = mailbox[b].finished
      /\ m.quiescent = mailbox[b].quiescent /\ m # None
  BY <1>2 DEF Mailboxes, HandoffAssumption
<1>4. mailbox' = [mailbox EXCEPT ![b] = m]
  BY DEF RequestStop
<1>5. /\ run' \in [Lanes -> Runs] /\ run'[l] = [run[l] EXCEPT !.pc = "await"]
      /\ \A k \in Lanes \ {l} : run'[k] = run[k]
  BY Going DEF RequestStop, Inv, TypeOK, Steps
<1>6. /\ run'[l].pc = "await" /\ run'[l].head = run[l].head /\ run'[l].source = run[l].source
      /\ run'[l].bound = run[l].bound /\ run'[l].round = run[l].round
      /\ run'[l].phase = run[l].phase
  BY <1>1, <1>5 DEF Runs
<1> HIDE DEF m
<1>7. \A r \in Rounds :
         /\ mailbox[r] # None => mailbox'[r] # None /\ mailbox'[r].lane = mailbox[r].lane
         /\ mailbox[r] = None => mailbox'[r] = None
         /\ mailbox'[r].finished = mailbox[r].finished
         /\ mailbox'[r].quiescent = mailbox[r].quiescent
  BY <1>2, <1>3, <1>4 DEF Inv, TypeOK, Mailboxes, HandoffAssumption
<1>8. UNCHANGED <<intent, chain, launched, procs>>
  BY DEF RequestStop, github
<1>9. TypeOK'
  <2>1. mailbox' \in [Rounds -> Mailboxes \cup {None}]
    BY <1>3, <1>4 DEF Inv, TypeOK
  <2> QED
    BY <1>5, <2>1 DEF RequestStop, Inv, TypeOK, github, copies
<1>10. Placed(l)'
  BY <1>1, <1>2, <1>6, <1>7, <1>8 DEF Placed, Supervising, IsTakeover
<1>11. Supervises(l)'
  BY <1>1, <1>6 DEF Placed, Supervises, Supervising
<1>12. Handed(l)'
  <2>1. HasAccepted(l)' = HasAccepted(l) /\ HasReserved(l)' = HasReserved(l)
    BY <1>1, <1>6 DEF HasAccepted, HasReserved, Stopping, Supervising
  <2> QED
    BY <1>1, <1>6, <1>8, <2>1 DEF Handed, IsTakeover
<1>13. RoundInv'
  BY <1>7, <1>8 DEF Inv, RoundInv, Exited
<1> QED
  BY <1>5, <1>7, <1>8, <1>9, <1>10, <1>11, <1>12, <1>13, RoundMoves DEF Exited

\* What a run does to the round it supervises, from one step of the
\* supervision to the next.
LEMMA OwnRound ==
    ASSUME HandoffAssumption, Inv, NEW l \in Lanes, run[l].pc \in Supervising
    PROVE  /\ run[l].round \in Rounds /\ mailbox[run[l].round] \in Mailboxes
           /\ mailbox[run[l].round].lane = l
           /\ run[l].pc # "attribute" => ~mailbox[run[l].round].finished
           /\ run[l].pc \in {"check", "popen"} => procs[run[l].round] = {}
<1>1. run[l] \in Runs /\ Placed(l) /\ Supervises(l)
  BY DEF Inv, TypeOK, RunInv
<1> QED
  BY <1>1, RunFields DEF Placed, Supervises, Inv, TypeOK

LEMMA SuperviseGoesOn ==
    ASSUME HandoffAssumption, Inv, TypeOK', NEW l \in Lanes, NEW p \in Supervising,
           run[l].pc \in Supervising \ {"attribute"}, Goto(l, p),
           UNCHANGED <<intent, chain, launched>>,
           \A r \in Rounds \ {run[l].round} : mailbox'[r] = mailbox[r] /\ procs'[r] = procs[r],
           mailbox'[run[l].round] \in Mailboxes, mailbox'[run[l].round].lane = l,
           p = "attribute" \/ ~mailbox'[run[l].round].finished,
           p \in {"check", "popen"} => procs'[run[l].round] = {},
           Exited(run[l].round)' => procs'[run[l].round] = {}
    PROVE  Inv'
<1>1. Placed(l) /\ Handed(l) /\ run[l] \in Runs
  BY DEF Inv, RunInv, TypeOK
<1>2. /\ run[l].round \in Rounds /\ mailbox[run[l].round].lane = l
      /\ ~mailbox[run[l].round].finished /\ mailbox[run[l].round] # None
  BY OwnRound DEF HandoffAssumption
<1>3. p \in Steps /\ p \notin {"idle", "prepare", "register"}
  BY DEF Supervising, Steps
<1>4. /\ run' \in [Lanes -> Runs] /\ run'[l] = [run[l] EXCEPT !.pc = p]
      /\ \A k \in Lanes \ {l} : run'[k] = run[k]
  BY <1>3, Going DEF Inv, TypeOK
<1>5. /\ run'[l].pc = p /\ run'[l].head = run[l].head /\ run'[l].source = run[l].source
      /\ run'[l].bound = run[l].bound /\ run'[l].round = run[l].round
      /\ run'[l].phase = run[l].phase
  BY <1>1, <1>4 DEF Runs
<1>6. mailbox'[run[l].round] # None
  BY DEF HandoffAssumption
<1>7. \A r \in Rounds : mailbox[r] # None =>
         /\ mailbox'[r] # None /\ mailbox'[r].lane = mailbox[r].lane
         /\ Exited(r) => Exited(r)'
         /\ r # run[l].round => /\ mailbox'[r].finished = mailbox[r].finished
                                /\ procs[r] = {} => procs'[r] = {}
  <2> SUFFICES ASSUME NEW r \in Rounds, mailbox[r] # None
               PROVE  /\ mailbox'[r] # None /\ mailbox'[r].lane = mailbox[r].lane
                      /\ Exited(r) => Exited(r)'
                      /\ r # run[l].round => /\ mailbox'[r].finished = mailbox[r].finished
                                             /\ procs[r] = {} => procs'[r] = {}
    OBVIOUS
  <2>1. CASE r = run[l].round
    BY <1>2, <1>6, <2>1 DEF Exited
  <2>2. CASE r # run[l].round
    BY <2>2 DEF Exited
  <2> QED
    BY <2>1, <2>2
<1>8. Placed(l)'
  <2>1. p \notin {"verify", "head", "write"} /\ run'[l].round # None
    BY <1>1, <1>5 DEF Placed, Supervising
  <2>2. run[l].source # None => run[l].bound \in Rounds
    BY <1>1, RunFields DEF Placed
  <2> QED
    BY <1>1, <1>3, <1>5, <1>7, <2>1, <2>2 DEF Placed
<1>9. Supervises(l)'
  BY <1>5, <1>6 DEF Supervises
<1>10. Handed(l)'
  <2>1. HasAccepted(l)' = HasAccepted(l) /\ HasReserved(l)' = HasReserved(l)
    BY <1>5 DEF HasAccepted, HasReserved, Stopping, Supervising
  <2>2. run[l].pc # "prepare"
    BY DEF Supervising
  <2> QED
    BY <1>1, <1>3, <1>5, <2>1, <2>2 DEF Handed, IsTakeover
<1>11. RoundInv'
  <2> SUFFICES ASSUME NEW r \in Rounds, mailbox'[r] = None \/ Exited(r)' PROVE procs'[r] = {}
    BY DEF RoundInv, Exited
  <2>1. CASE r = run[l].round
    BY <1>5, <1>6, <2>1 DEF Exited
  <2>2. CASE r # run[l].round
    BY <2>2 DEF Inv, RoundInv, Exited
  <2> QED
    BY <2>1, <2>2
<1> QED
  BY <1>4, <1>7, <1>8, <1>9, <1>10, <1>11, RoundMoves

LEMMA FinishedRound ==
    ASSUME HandoffAssumption, Inv, NEW l \in Lanes, run[l].pc \in Supervising, NEW gone \in BOOLEAN,
           mailbox' = Finished(run[l].round, gone)
    PROVE  /\ mailbox' \in [Rounds -> Mailboxes \cup {None}]
           /\ mailbox'[run[l].round] \in Mailboxes /\ mailbox'[run[l].round].lane = l
           /\ mailbox'[run[l].round].finished /\ mailbox'[run[l].round].quiescent = gone
           /\ \A r \in Rounds \ {run[l].round} : mailbox'[r] = mailbox[r]
<1> DEFINE q == run[l].round
           m == [mailbox[q] EXCEPT !.finished = TRUE, !.quiescent = gone]
<1>1. q \in Rounds /\ mailbox[q] \in Mailboxes /\ mailbox[q].lane = l
  BY OwnRound
<1>2. /\ m \in Mailboxes /\ m.lane = l /\ m.finished /\ m.quiescent = gone
  BY <1>1 DEF Mailboxes
<1>3. mailbox \in [Rounds -> Mailboxes \cup {None}]
  BY DEF Inv, TypeOK
<1>4. mailbox' = [mailbox EXCEPT ![q] = m]
  BY <1>1, <1>3 DEF Finished
<1> HIDE DEF m
<1> QED
  BY <1>1, <1>2, <1>3, <1>4

LEMMA CheckStopStep ==
    ASSUME HandoffAssumption, Inv, NEW l \in Lanes, CheckStop(l)
    PROVE  Inv'
<1>1. run[l].pc = "check" /\ run[l].pc \in Supervising
  BY DEF CheckStop, At, Supervising
<1>2. /\ run[l].round \in Rounds /\ mailbox[run[l].round] \in Mailboxes
      /\ mailbox[run[l].round].lane = l /\ ~mailbox[run[l].round].finished
      /\ procs[run[l].round] = {}
  BY <1>1, OwnRound
<1>3. CASE StopSeen(run[l].round)
  <2>1. mailbox' = Finished(run[l].round, TRUE) /\ Halt(l)
    BY <1>3 DEF CheckStop
  <2>2. /\ mailbox' \in [Rounds -> Mailboxes \cup {None}]
        /\ mailbox'[run[l].round] \in Mailboxes /\ mailbox'[run[l].round].lane = l
        /\ \A r \in Rounds \ {run[l].round} : mailbox'[r] = mailbox[r]
    BY <1>1, <2>1, FinishedRound
  <2>3. /\ run' \in [Lanes -> Runs] /\ run'[l] = IdleRun
        /\ \A k \in Lanes \ {l} : run'[k] = run[k]
    BY <2>1, Halting DEF Inv, TypeOK
  <2>4. TypeOK'
    BY <2>2, <2>3 DEF CheckStop, Inv, TypeOK, github, copies
  <2>5. UNCHANGED <<intent, chain, launched, procs>>
    BY DEF CheckStop, github
  <2>6. \A r \in Rounds : mailbox[r] # None =>
         /\ mailbox'[r] # None /\ mailbox'[r].lane = mailbox[r].lane
         /\ Exited(r) => Exited(r)'
         /\ r # run[l].round => /\ mailbox'[r].finished = mailbox[r].finished
                                /\ procs[r] = {} => procs'[r] = {}
    BY <1>2, <2>2, <2>5 DEF Exited, HandoffAssumption
  <2>7. RoundInv'
    BY <1>2, <2>2, <2>5 DEF Inv, RoundInv, Exited
  <2> QED
    BY <2>3, <2>4, <2>5, <2>6, <2>7, Resting, RoundMoves
<1>4. CASE ~StopSeen(run[l].round)
  <2>1. /\ Goto(l, "popen") /\ UNCHANGED mailbox
    BY <1>4 DEF CheckStop
  <2>2. UNCHANGED <<intent, chain, launched, procs>>
    BY DEF CheckStop, github
  <2>3. "popen" \in Steps /\ "popen" \in Supervising
    BY DEF Steps, Supervising
  <2>4. run' \in [Lanes -> Runs] /\ run'[l].round = run[l].round
    BY <2>1, <2>3, Going DEF Inv, TypeOK
  <2>5. TypeOK'
    BY <2>1, <2>4 DEF CheckStop, Inv, TypeOK, github, copies
  <2>6. Exited(run[l].round)' => procs'[run[l].round] = {}
    BY <1>2, <2>2
  <2> QED
    BY <1>1, <1>2, <2>1, <2>2, <2>3, <2>5, <2>6, SuperviseGoesOn
<1> QED
  BY <1>3, <1>4

LEMMA PopenStep ==
    ASSUME HandoffAssumption, Inv, NEW l \in Lanes, Popen(l)
    PROVE  Inv'
<1> DEFINE q == run[l].round
           m == [mailbox[q] EXCEPT !.started = TRUE]
<1>1. run[l].pc = "popen" /\ run[l].pc \in Supervising
  BY DEF Popen, At, Supervising
<1>2. q \in Rounds /\ mailbox[q] \in Mailboxes /\ mailbox[q].lane = l /\ ~mailbox[q].finished
  BY <1>1, OwnRound
<1>3. m \in Mailboxes /\ m.lane = l /\ ~m.finished
  BY <1>2 DEF Mailboxes
<1>4. mailbox \in [Rounds -> Mailboxes \cup {None}]
  BY DEF Inv, TypeOK
<1>5. mailbox' = [mailbox EXCEPT ![q] = m] /\ procs' = [procs EXCEPT ![q] = {"provider"}]
  BY DEF Popen
<1>6. Goto(l, "watch") /\ "watch" \in Steps /\ "watch" \in Supervising
  BY DEF Popen, Steps, Supervising
<1>7. run' \in [Lanes -> Runs] /\ run'[l].round = q
  BY <1>6, Going DEF Inv, TypeOK
<1>8. TypeOK'
  <2>1. mailbox' \in [Rounds -> Mailboxes \cup {None}]
    BY <1>3, <1>4, <1>5
  <2>2. procs' \in [Rounds -> SUBSET {"provider", "descendant"}]
    BY <1>5 DEF Inv, TypeOK
  <2> QED
    BY <1>7, <2>1, <2>2 DEF Popen, Inv, TypeOK, github, copies
<1> HIDE DEF m
<1>9. /\ mailbox'[q] = m
      /\ \A r \in Rounds \ {q} : mailbox'[r] = mailbox[r] /\ procs'[r] = procs[r]
  BY <1>2, <1>4, <1>5 DEF Inv, TypeOK
<1>10. ~Exited(q)'
  BY <1>3, <1>7, <1>9 DEF Exited
<1>11. UNCHANGED <<intent, chain, launched>>
  BY DEF Popen, github
<1> QED
  BY <1>1, <1>3, <1>6, <1>8, <1>9, <1>10, <1>11, SuperviseGoesOn

LEMMA ReapStep ==
    ASSUME HandoffAssumption, Inv, NEW l \in Lanes, Reap(l)
    PROVE  Inv'
<1> DEFINE q == run[l].round
<1>1. run[l].pc = "reap" /\ run[l].pc \in Supervising
  BY DEF Reap, At, Supervising
<1>2. q \in Rounds /\ mailbox[q] \in Mailboxes /\ mailbox[q].lane = l /\ ~mailbox[q].finished
  BY <1>1, OwnRound
<1>3. PICK left \in {{}, procs[q]} : procs' = [procs EXCEPT ![q] = left]
  BY DEF Reap
<1>4. Goto(l, "finish") /\ "finish" \in Steps /\ "finish" \in Supervising
  BY DEF Reap, Steps, Supervising
<1>5. run' \in [Lanes -> Runs] /\ run'[l].round = q
  BY <1>4, Going DEF Inv, TypeOK
<1>6. UNCHANGED <<intent, chain, launched, mailbox>>
  BY DEF Reap, github
<1>7. TypeOK'
  <2>1. procs' \in [Rounds -> SUBSET {"provider", "descendant"}]
    BY <1>2, <1>3 DEF Inv, TypeOK
  <2> QED
    BY <1>5, <2>1 DEF Reap, Inv, TypeOK, github, copies
<1>8. \A r \in Rounds \ {q} : mailbox'[r] = mailbox[r] /\ procs'[r] = procs[r]
  BY <1>3, <1>6 DEF Inv, TypeOK
<1>9. ~Exited(q)'
  BY <1>2, <1>5, <1>6 DEF Exited
<1> QED
  BY <1>1, <1>2, <1>4, <1>6, <1>7, <1>8, <1>9, SuperviseGoesOn

\* What the supervisor reports is what it saw of the group.
LEMMA FinishStep ==
    ASSUME HandoffAssumption, Inv, NEW l \in Lanes, Finish(l)
    PROVE  Inv'
<1> DEFINE q == run[l].round
<1>1. run[l].pc = "finish" /\ run[l].pc \in Supervising
  BY DEF Finish, At, Supervising
<1>2. q \in Rounds /\ mailbox[q] \in Mailboxes /\ mailbox[q].lane = l
  BY <1>1, OwnRound
<1>3. /\ mailbox' = Finished(q, GroupGone(q)) /\ Goto(l, "attribute")
      /\ UNCHANGED <<intent, chain, launched, procs>>
  BY DEF Finish, github
<1>4. PICK gone \in BOOLEAN : gone = GroupGone(q)
  BY DEF GroupGone
<1>5. /\ mailbox' \in [Rounds -> Mailboxes \cup {None}]
      /\ mailbox'[q] \in Mailboxes /\ mailbox'[q].lane = l /\ mailbox'[q].quiescent = gone
      /\ \A r \in Rounds \ {q} : mailbox'[r] = mailbox[r]
  BY <1>1, <1>3, <1>4, FinishedRound
<1>6. "attribute" \in Steps /\ "attribute" \in Supervising
  BY DEF Steps, Supervising
<1>7. run' \in [Lanes -> Runs] /\ run'[l].round = q
  BY <1>3, <1>6, Going DEF Inv, TypeOK
<1>8. TypeOK'
  BY <1>5, <1>7 DEF Finish, Inv, TypeOK, github, copies
<1>9. Exited(q)' => procs'[q] = {}
  BY <1>3, <1>4, <1>5, <1>7 DEF Exited, GroupGone
<1> QED
  BY <1>1, <1>3, <1>5, <1>6, <1>8, <1>9, SuperviseGoesOn

\* A takeover's round is the first one launched for its head.
LEMMA RegisterStep ==
    ASSUME HandoffAssumption, Inv, NEW l \in Lanes, Register(l)
    PROVE  Inv'
<1> DEFINE h == run[l].head
<1>1. run[l] \in Runs /\ Placed(l) /\ Handed(l) /\ run[l].pc = "register" /\ h \in Heads
  BY RunFields DEF Inv, TypeOK, RunInv, Register, At
<1>2. PICK n \in Rounds : n = NextRound /\ mailbox[n] = None /\ n # None
  BY NextIsUnused DEF Register, Registrable, Unused, Rounds, HandoffAssumption
<1> DEFINE m == [lane |-> l, stop |-> FALSE, started |-> FALSE, finished |-> FALSE,
                 quiescent |-> FALSE]
<1>3. m \in Mailboxes /\ m # None /\ m.lane = l /\ ~m.finished
  <2>1. m \in Mailboxes /\ m.lane = l /\ ~m.finished
    BY DEF Mailboxes
  <2> HIDE DEF m
  <2> QED
    BY <2>1 DEF HandoffAssumption
<1>4. mailbox' = [mailbox EXCEPT ![n] = m]
  BY <1>2 DEF Register
<1> HIDE DEF m
<1>5. /\ mailbox' \in [Rounds -> Mailboxes \cup {None}] /\ mailbox'[n] = m
      /\ \A r \in Rounds \ {n} : mailbox'[r] = mailbox[r]
  BY <1>3, <1>4 DEF Inv, TypeOK
<1>6. /\ run' \in [Lanes -> Runs] /\ run'[l] = [run[l] EXCEPT !.pc = "check", !.round = n]
      /\ \A k \in Lanes \ {l} : run'[k] = run[k]
  <2>1. run' = [run EXCEPT ![l].pc = "check", ![l].round = n]
    BY <1>2 DEF Register
  <2> QED
    BY <2>1, RegisteredRun DEF Inv, TypeOK
<1>7. /\ run'[l].pc = "check" /\ run'[l].head = run[l].head /\ run'[l].source = run[l].source
      /\ run'[l].bound = run[l].bound /\ run'[l].round = n
      /\ run'[l].phase = run[l].phase
  BY <1>1, <1>6 DEF Runs
<1>8. UNCHANGED <<intent, chain, procs>>
  BY DEF Register, github
<1>9. /\ IsTakeover(l) => launched' = [launched EXCEPT ![h] = @ \cup {n}]
      /\ ~IsTakeover(l) => launched' = launched
  BY <1>2 DEF Register
<1>10. launched \in [Heads -> SUBSET Rounds] /\ launched' \in [Heads -> SUBSET Rounds]
  BY <1>9 DEF Inv, TypeOK
<1>11. TypeOK'
  BY <1>5, <1>6, <1>10 DEF Register, Inv, TypeOK, github, copies
<1>12. \A r \in Rounds : mailbox[r] # None => r # n /\ mailbox'[r] = mailbox[r]
  BY <1>2, <1>5
<1>13. ASSUME NEW k \in Lanes \ {l} PROVE Placed(k)' /\ Supervises(k)' /\ Handed(k)'
  <2>1. IsTakeover(k) /\ run[k].pc # "prepare" => launched'[run[k].head] = launched[run[k].head]
    <3> SUFFICES ASSUME IsTakeover(k), run[k].pc # "prepare", IsTakeover(l)
                 PROVE  launched'[run[k].head] = launched[run[k].head]
      BY <1>9
    <3>1. run[k].head \in Heads /\ run[k].head # h
      BY <1>1, HandedIntent
    <3> QED
      BY <1>9, <1>10, <3>1
  <2>2. run[k].round # None => run[k].round \in Rounds /\ mailbox[run[k].round] # None
    <3>1. run[k] \in Runs /\ Supervises(k)
      BY DEF Inv, TypeOK, RunInv
    <3> QED
      BY <3>1, RunFields DEF Supervises
  <2>3. Steady(k)
    BY <1>6, <1>8, <1>12, <2>1, <2>2 DEF Steady, Exited
  <2> QED
    BY <2>3, SteadyKeeps DEF Inv
<1>14. Placed(l)'
  <2>1. run[l].source # None => run[l].bound \in Rounds
    BY <1>1, RunFields DEF Placed
  <2> QED
    BY <1>1, <1>2, <1>7, <1>8, <1>12, <2>1 DEF Placed, Supervising
<1>15. Supervises(l)'
  BY <1>2, <1>3, <1>5, <1>7, <1>8 DEF Supervises, Inv, RoundInv
<1>16. Handed(l)'
  <2>1. HasAccepted(l)' = HasAccepted(l) /\ HasReserved(l)' = HasReserved(l)
    BY <1>1, <1>7 DEF HasAccepted, HasReserved, Stopping, Supervising
  <2> QED
    BY <1>1, <1>7, <1>8, <2>1 DEF Handed, IsTakeover
<1>17. RunInv'
  BY <1>13, <1>14, <1>15, <1>16 DEF RunInv
<1>18. RoundInv'
  BY <1>2, <1>3, <1>5, <1>8 DEF Inv, RoundInv, Exited
<1>19. IntentInv'
  <2>1. \A g \in Heads : intent[g] # None => intent[g].round \in Rounds
    BY DEF Inv, TypeOK, Intents
  <2> QED
    BY <1>8, <1>12, <2>1 DEF Inv, IntentInv, Exited
<1>20. LaunchInv'
  <2>1. CASE ~IsTakeover(l)
    <3>1. launched' = launched
      BY <1>9, <2>1
    <3> QED
      BY <1>8, <1>10, <1>12, <3>1 DEF Inv, LaunchInv
  <2>2. CASE IsTakeover(l)
    <3>1. launched[h] = {} /\ launched'[h] = {n}
      BY <1>1, <1>9, <1>10, <2>2 DEF Handed
    <3>2. HasAccepted(l) /\ HasReserved(l)
      BY <1>1 DEF HasAccepted, HasReserved, Stopping
    <3>3. intent[h] # None /\ intent[h].accepted /\ intent[h].reserved /\ intent[h].to = l
      BY <1>1, <2>2, <3>2, HandedIntent DEF Handed
    <3>4. \A g \in Heads \ {h} : launched'[g] = launched[g]
      BY <1>9, <1>10, <2>2
    <3> QED
      BY <1>3, <1>5, <1>8, <1>10, <1>12, <3>1, <3>3, <3>4 DEF Inv, LaunchInv
  <2> QED
    BY <2>1, <2>2
<1> QED
  BY <1>11, <1>17, <1>18, <1>19, <1>20 DEF Inv
-----------------------------------------------------------------------------
(* The end of a run, and the processes of a round.                         *)

LEMMA Episodic ==
    ASSUME HandoffAssumption, Inv, NEW l \in Lanes
    PROVE  Episode(l) \in Chains /\ Episode(l) # None
<1>1. run[l].source \in Lanes \cup {None} /\ remote \in Heads /\ chain \in Chains \cup {None}
  BY RunFields DEF Inv, TypeOK
<1>2. (IF chain = None THEN {} ELSE chain.named) \in SUBSET Lanes
  BY <1>1 DEF Chains
<1>3. (IF IsTakeover(l) THEN {run[l].source} ELSE {}) \in SUBSET Lanes
  BY <1>1 DEF IsTakeover
<1>4. Episode(l) \in Chains
  BY <1>1, <1>2, <1>3 DEF Episode, Chains
<1> QED
  BY <1>4 DEF HandoffAssumption

LEMMA AttributeStep ==
    ASSUME HandoffAssumption, Inv, NEW l \in Lanes, Attribute(l)
    PROVE  Inv'
<1>1. /\ run' \in [Lanes -> Runs] /\ run'[l] = IdleRun
      /\ \A k \in Lanes \ {l} : run'[k] = run[k]
  BY Halting DEF Attribute, Inv, TypeOK
<1>2. chain' \in Chains \cup {None} /\ (chain' = None => chain = None)
  BY Episodic DEF Attribute, Inv, TypeOK
<1>3. TypeOK'
  BY <1>1, <1>2 DEF Attribute, Inv, TypeOK, copies
<1>4. UNCHANGED <<mailbox, procs, intent, launched>>
  BY DEF Attribute
<1>5. ASSUME NEW k \in Lanes \ {l} PROVE Placed(k)' /\ Supervises(k)' /\ Handed(k)'
  <2>1. Steady(k)
    BY <1>1, <1>2, <1>4 DEF Steady, Exited
  <2> QED
    BY <2>1, SteadyKeeps DEF Inv
<1>6. RunInv'
  BY <1>1, <1>5, Resting DEF RunInv
<1>7. IntentInv' /\ LaunchInv'
  BY <1>4, QuietKeeps DEF Inv, Exited
<1>8. RoundInv'
  BY <1>4 DEF Inv, RoundInv, Exited
<1> QED
  BY <1>3, <1>6, <1>7, <1>8 DEF Inv

LEMMA NobodyMoves ==
    ASSUME Inv, TypeOK', UNCHANGED <<run, mailbox, intent, chain, launched>>,
           \A r \in Rounds : procs[r] = {} => procs'[r] = {}
    PROVE  Inv'
<1>1. ASSUME NEW k \in Lanes PROVE Placed(k)' /\ Supervises(k)' /\ Handed(k)'
  <2>1. run[k].round \in Rounds \cup {None}
    BY RunFields DEF Inv, TypeOK
  <2>2. Steady(k)
    BY <2>1 DEF Steady, Exited
  <2> QED
    BY <2>2, SteadyKeeps DEF Inv
<1>2. RunInv'
  BY <1>1 DEF RunInv
<1>3. IntentInv' /\ LaunchInv'
  BY QuietKeeps DEF Inv, Exited
<1>4. RoundInv'
  BY DEF Inv, RoundInv, Exited
<1> QED
  BY <1>2, <1>3, <1>4 DEF Inv

LEMMA WorkStep ==
    ASSUME HandoffAssumption, Inv, NEW r \in Rounds, Working(r)
    PROVE  Inv'
<1>1. Works(r) => mailbox[r].lane \in Lanes
  BY DEF Works, Inv, TypeOK, Mailboxes
<1>2. CASE Commit(r)
  <2> DEFINE l == mailbox[r].lane
             new == commits + 1
  <2>1. l \in Lanes /\ new \in Heads /\ checkout[l] \in Heads
    BY <1>1, <1>2 DEF Commit, Inv, TypeOK, Heads, HandoffAssumption
  <2>2. PICK kept \in {past[checkout[l]], past[checkout[l]] \ {checkout[l]}} :
           past' = [past EXCEPT ![new] = kept \cup {new}]
    BY <1>2 DEF Commit
  <2>3. kept \in SUBSET Heads
    BY <2>1 DEF Inv, TypeOK
  <2>4. past' \in [Heads -> SUBSET Heads]
    BY <2>1, <2>2, <2>3 DEF Inv, TypeOK
  <2>5. /\ author' \in [Heads -> Lanes] /\ checkout' \in [Lanes -> Heads] /\ commits' \in Heads
    BY <1>2, <2>1 DEF Commit, Inv, TypeOK
  <2>6. TypeOK'
    BY <1>2, <2>4, <2>5 DEF Commit, Inv, TypeOK
  <2> QED
    BY <1>2, <2>6, NobodyMoves DEF Commit
<1>3. CASE Sync(r)
  <2>1. checkout' \in [Lanes -> Heads]
    BY <1>1, <1>3 DEF Sync, Inv, TypeOK
  <2>2. TypeOK'
    BY <1>3, <2>1 DEF Sync, Inv, TypeOK, github
  <2> QED
    BY <1>3, <2>2, NobodyMoves DEF Sync, github
<1>4. CASE Push(r)
  <2>1. ledger' \in [Lanes -> SUBSET Heads] /\ remote' \in Heads
    BY <1>1, <1>4 DEF Push, Inv, TypeOK
  <2>2. TypeOK'
    BY <1>4, <2>1 DEF Push, Inv, TypeOK
  <2> QED
    BY <1>4, <2>2, NobodyMoves DEF Push
<1>5. CASE Spawn(r)
  <2>1. procs' \in [Rounds -> SUBSET {"provider", "descendant"}]
    BY <1>5 DEF Spawn, Inv, TypeOK
  <2>2. TypeOK'
    BY <1>5, <2>1 DEF Spawn, Inv, TypeOK, github, copies
  <2>3. \A q \in Rounds : procs[q] = {} => procs'[q] = {}
    BY <1>5 DEF Spawn, Works, Inv, TypeOK
  <2> QED
    BY <1>5, <2>2, <2>3, NobodyMoves DEF Spawn, github
<1>6. CASE Exit(r)
  <2>1. procs' \in [Rounds -> SUBSET {"provider", "descendant"}]
    BY <1>6 DEF Exit, Inv, TypeOK
  <2>2. TypeOK'
    BY <1>6, <2>1 DEF Exit, Inv, TypeOK, github, copies
  <2>3. \A q \in Rounds : procs[q] = {} => procs'[q] = {}
    BY <1>6 DEF Exit, Inv, TypeOK
  <2> QED
    BY <1>6, <2>2, <2>3, NobodyMoves DEF Exit, github
<1> QED
  BY <1>2, <1>3, <1>4, <1>5, <1>6 DEF Working
-----------------------------------------------------------------------------
LEMMA NextInv ==
    ASSUME HandoffAssumption, Inv, [Next]_vars
    PROVE  Inv'
<1>1. CASE UNCHANGED vars
  <2>1. TypeOK'
    BY <1>1 DEF Inv, TypeOK, vars
  <2> QED
    BY <1>1, <2>1, NobodyMoves DEF vars
<1>2. ASSUME NEW l \in Lanes, Choose(l) PROVE Inv'
  BY <1>2, BeginStep, BeginTakeoverStep DEF Choose
<1>3. ASSUME NEW l \in Lanes, Handing(l) PROVE Inv'
  BY <1>3, PrepareStep, HaltActions, RequestStopStep, StopSteps, WriteStep, SetupStep,
     ReserveLaunchStep DEF Handing
<1>4. ASSUME NEW l \in Lanes, Launching(l) PROVE Inv'
  BY <1>4, RegisterStep, HaltActions, CheckStopStep, PopenStep DEF Launching
<1>5. ASSUME NEW l \in Lanes, Ending(l) PROVE Inv'
  BY <1>5, WatchSteps, ReapStep, FinishStep, AttributeStep DEF Ending
<1>6. ASSUME NEW l \in Lanes, WatchCut(l) \/ Crash(l) PROVE Inv'
  BY <1>6, WatchSteps, HaltActions
<1>7. ASSUME NEW r \in Rounds, Working(r) PROVE Inv'
  BY <1>7, WorkStep
<1> QED
  BY <1>1, <1>2, <1>3, <1>4, <1>5, <1>6, <1>7 DEF Next

LEMMA InductiveInvariant == ASSUME HandoffAssumption PROVE Spec => []Inv
<1>1. Inv /\ [Next]_vars => Inv'
  BY NextInv
<1> QED
  BY <1>1, InitInv, PTL DEF Spec

\* Only the end of a run publishes an episode.
LEMMA OnlyAttributePublishes ==
    ASSUME [Next]_vars, chain' # chain
    PROVE  \E l \in Lanes : Attribute(l)
<1>1. ~ UNCHANGED vars
  BY DEF vars
<1>2. ASSUME NEW l \in Lanes, Choose(l) PROVE FALSE
  BY <1>2 DEF Choose, Begin, BeginTakeover, github
<1>3. ASSUME NEW l \in Lanes, Handing(l) PROVE FALSE
  BY <1>3 DEF Handing, Prepare, PrepareRepeats, RequestStop, AwaitExit, VerifyCheckout,
     ReadHead, Refuse, Accept, Setup, ReserveLaunch, ReserveRepeats, Reserve, github
<1>4. ASSUME NEW l \in Lanes, Launching(l) PROVE FALSE
  BY <1>4 DEF Launching, Register, RegisterFails, CheckStop, Popen, github
<1>5. ASSUME NEW l \in Lanes, Ending(l) PROVE Attribute(l)
  BY <1>5 DEF Ending, WatchStop, WatchExit, Reap, Finish, github
<1>6. ASSUME NEW l \in Lanes, WatchCut(l) \/ Crash(l) PROVE FALSE
  BY <1>6 DEF WatchCut, Crash, github
<1>7. ASSUME NEW r \in Rounds, Working(r) PROVE FALSE
  BY <1>7 DEF Working, Commit, Sync, Push, Spawn, Exit, github
<1> QED
  BY <1>1, <1>2, <1>3, <1>4, <1>5, <1>6, <1>7 DEF Next

\* Only the registration of a round counts as a launch.
LEMMA OnlyRegisterLaunches ==
    ASSUME [Next]_vars, launched' # launched
    PROVE  \E l \in Lanes : Register(l)
<1>1. ~ UNCHANGED vars
  BY DEF vars
<1>2. ASSUME NEW l \in Lanes, Choose(l) PROVE FALSE
  BY <1>2 DEF Choose, Begin, BeginTakeover
<1>3. ASSUME NEW l \in Lanes, Handing(l) PROVE FALSE
  BY <1>3 DEF Handing, Prepare, PrepareRepeats, RequestStop, AwaitExit, VerifyCheckout,
     ReadHead, Refuse, Accept, Setup, ReserveLaunch, ReserveRepeats, Reserve
<1>4. ASSUME NEW l \in Lanes, Launching(l) PROVE Register(l)
  BY <1>4 DEF Launching, RegisterFails, CheckStop, Popen
<1>5. ASSUME NEW l \in Lanes, Ending(l) PROVE FALSE
  BY <1>5 DEF Ending, WatchStop, WatchExit, Reap, Finish, Attribute
<1>6. ASSUME NEW l \in Lanes, WatchCut(l) \/ Crash(l) PROVE FALSE
  BY <1>6 DEF WatchCut, Crash
<1>7. ASSUME NEW r \in Rounds, Working(r) PROVE FALSE
  BY <1>7 DEF Working, Commit, Sync, Push, Spawn, Exit
<1> QED
  BY <1>1, <1>2, <1>3, <1>4, <1>5, <1>6, <1>7 DEF Next

(***************************************************************************)
(* Every reachable state has its types: in particular no head, round or    *)
(* intent of a run is missing where the run relies on it.                  *)
(***************************************************************************)
THEOREM TypeCorrect == ASSUME HandoffAssumption PROVE Spec => []TypeOK
<1>1. Inv => TypeOK
  BY DEF Inv
<1> QED
  BY <1>1, InductiveInvariant, PTL

(***************************************************************************)
(* An accepted takeover has no process of the round it stopped, wherever   *)
(* its run or the supervisor of that round was killed (LocalWriter.stop,   *)
(* supervise_process).                                                     *)
(***************************************************************************)
THEOREM StoppedSourceIsGone == ASSUME HandoffAssumption PROVE Spec => []BoundSourceIsGone
<1>1. Inv => BoundSourceIsGone
  <2> SUFFICES ASSUME Inv, NEW h \in Heads, intent[h] # None, intent[h].accepted
               PROVE  procs[intent[h].round] = {}
    BY DEF BoundSourceIsGone
  <2>1. intent[h].round \in Rounds /\ Exited(intent[h].round)
    BY DEF Inv, TypeOK, Intents, IntentInv
  <2> QED
    BY <2>1 DEF Inv, RoundInv
<1> QED
  BY <1>1, InductiveInvariant, PTL

(***************************************************************************)
(* One head launches one destination, however many runs of however many    *)
(* lanes repeat the handoff (prepare, reserve_launch).                     *)
(***************************************************************************)
THEOREM LaunchedOnce == ASSUME HandoffAssumption PROVE Spec => []OneLaunchPerHead
<1>1. Inv => OneLaunchPerHead
  <2> SUFFICES ASSUME Inv, NEW h \in Heads PROVE Cardinality(launched[h]) <= 1
    BY DEF OneLaunchPerHead
  <2>1. \A p, q \in launched[h] : p = q
    BY DEF Inv, LaunchInv
  <2>2. CASE launched[h] = {}
    BY <2>2, FS_EmptySet
  <2>3. CASE launched[h] # {}
    <3>1. PICK r \in launched[h] : TRUE
      BY <2>3
    <3>2. launched[h] = {r}
      BY <2>1, <3>1
    <3>3. Cardinality({r}) = 1
      BY FS_Singleton
    <3> QED
      BY <3>2, <3>3
  <2> QED
    BY <2>2, <2>3
<1> QED
  BY <1>1, InductiveInvariant, PTL

(***************************************************************************)
(* A destination is launched by an intent that was accepted and reserved,  *)
(* for the lane it names, and while the branch and that lane's working     *)
(* copy are at the handed head and the stopped round has no process left   *)
(* (reserve_launch, _start_lineage_round).                                 *)
(***************************************************************************)
THEOREM LaunchedAsHanded ==
    ASSUME HandoffAssumption
    PROVE  Spec => []LaunchIsReserved /\ [][StartsWhereHanded]_vars
<1>1. Inv => LaunchIsReserved
  BY DEF Inv, LaunchInv, LaunchIsReserved
<1>2. Inv /\ [Next]_vars => [StartsWhereHanded]_vars
  <2> SUFFICES ASSUME Inv, [Next]_vars, NEW h \in Heads, launched'[h] # launched[h]
               PROVE  /\ remote = h /\ checkout[intent[h].to] = h
                      /\ procs[intent[h].round] = {}
    BY DEF StartsWhereHanded
  <2>1. PICK l \in Lanes : Register(l)
    BY OnlyRegisterLaunches
  <2>2. /\ IsTakeover(l)
        /\ launched' = [launched EXCEPT ![run[l].head] = @ \cup {NextRound}]
    BY <2>1 DEF Register
  <2>3. run[l].head = h
    BY <2>2 DEF Inv, TypeOK
  <2>4. remote = h /\ checkout[l] = h
    BY <2>1, <2>3 DEF Register, Registrable
  <2>5. run[l].pc = "register" /\ Handed(l)
    BY <2>1 DEF Register, At, Inv, RunInv
  <2>6. HasAccepted(l)
    BY <2>5 DEF HasAccepted, Stopping
  <2>7. intent[h] # None /\ intent[h].accepted /\ intent[h].to = l
    BY <2>2, <2>3, <2>5, <2>6, HandedIntent DEF Handed
  <2>8. intent[h].round \in Rounds /\ Exited(intent[h].round)
    BY <2>7 DEF Inv, TypeOK, Intents, IntentInv
  <2> QED
    BY <2>4, <2>7, <2>8 DEF Inv, RoundInv
<1> QED
  BY <1>1, <1>2, InductiveInvariant, PTL DEF Spec

(***************************************************************************)
(* The writer of the published lineage changes only by an accepted and     *)
(* reserved takeover over the writer before it (lineage_handoff,           *)
(* lineage_continuation): no step of anybody else publishes, and an        *)
(* episode's source is the writer it found.                                *)
(***************************************************************************)
THEOREM WritersHandOver ==
    ASSUME HandoffAssumption PROVE Spec => [][WriterChangesByHandoff]_vars
<1>1. Inv /\ [Next]_vars => [WriterChangesByHandoff]_vars
  <2> SUFFICES ASSUME Inv, [Next]_vars, Writer' # Writer PROVE HandsOver(Writer, Writer')
    BY DEF WriterChangesByHandoff
  <2>1. chain' # chain
    BY DEF Writer
  <2>2. PICK l \in Lanes : Attribute(l)
    BY <2>1, OnlyAttributePublishes
  <2>3. /\ chain' = Episode(l) /\ Delivered(l)
        /\ TakeoverProven(l) \/ (~IsTakeover(l) /\ Continues(l))
    BY <2>1, <2>2 DEF Attribute
  <2>4. Writer' = l
    BY <2>3, Episodic DEF Writer, Episode
  <2>5. TakeoverProven(l)
    BY <2>3, <2>4 DEF Continues, Writer
  <2>6. /\ run[l].head \in Heads /\ IsTakeover(l) /\ intent[run[l].head] # None
        /\ intent[run[l].head].accepted /\ intent[run[l].head].reserved
        /\ intent[run[l].head].source = run[l].source /\ intent[run[l].head].to = l
    BY <2>5, RunFields DEF TakeoverProven, Mine, Inv, TypeOK
  <2>7. run[l].source = Writer
    BY <2>5, <2>6 DEF TakeoverProven, Writer, Inv, RunInv, Placed, IsTakeover
  <2> QED
    BY <2>4, <2>6, <2>7 DEF HandsOver
<1> QED
  BY <1>1, InductiveInvariant, PTL DEF Spec

(***************************************************************************)
(* When an episode is published, no process is left of its round, nor of   *)
(* the round it took over from (supervise_process, lineage_handoff).       *)
(***************************************************************************)
THEOREM EpisodesSettled == ASSUME HandoffAssumption PROVE Spec => [][EpisodeIsSettled]_vars
<1>1. Inv /\ [Next]_vars => [EpisodeIsSettled]_vars
  <2> SUFFICES ASSUME Inv, [Next]_vars, NEW l \in Lanes, At(l, "attribute"),
                      chain' # chain, chain'.lane = l
               PROVE  /\ procs[run[l].round] = {}
                      /\ IsTakeover(l) => procs[intent[run[l].head].round] = {}
    BY DEF EpisodeIsSettled
  <2>1. PICK k \in Lanes : Attribute(k)
    BY OnlyAttributePublishes
  <2>2. /\ chain' = Episode(k) /\ Delivered(k)
        /\ TakeoverProven(k) \/ (~IsTakeover(k) /\ Continues(k))
    BY <2>1 DEF Attribute
  <2>3. k = l
    BY <2>2 DEF Episode
  <2>4. run[l].round \in Rounds
    BY OwnRound DEF At, Supervising
  <2>5. procs[run[l].round] = {}
    BY <2>2, <2>3, <2>4 DEF Delivered, Inv, RoundInv
  <2>6. ASSUME IsTakeover(l) PROVE procs[intent[run[l].head].round] = {}
    <3>1. TakeoverProven(l)
      BY <2>2, <2>3, <2>6
    <3>2. /\ run[l].head \in Heads /\ intent[run[l].head] # None
          /\ Exited(intent[run[l].head].round)
      BY <3>1, RunFields DEF TakeoverProven, SourceStayed, Mine, Inv, TypeOK
    <3>3. intent[run[l].head].round \in Rounds
      BY <3>2 DEF Inv, TypeOK, Intents
    <3> QED
      BY <3>2, <3>3 DEF Inv, RoundInv
  <2> QED
    BY <2>5, <2>6
<1> QED
  BY <1>1, InductiveInvariant, PTL DEF Spec
===============================================================================
