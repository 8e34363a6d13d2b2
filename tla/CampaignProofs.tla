---------------------------- MODULE CampaignProofs ----------------------------
(***************************************************************************)
(* Work that is paid for at a provider: release campaigns                  *)
(* (ReleaseCampaign) and Devin work orders (WorkOrders).                   *)
(*                                                                         *)
(* A campaign keeps its record for any providers, surfaces and number of   *)
(* retries, and wherever its commands are killed: an attempt is numbered   *)
(* and saved before anything leaves the machine, so what is out there is   *)
(* counted by the stored entry (Sound), and the copy of a command differs  *)
(* from the record only in what it has found, never in what it began.      *)
(*                                                                         *)
(* Orders keep their word for any number of orders, requests, rounds and   *)
(* pull requests: what a round may still do is read off the state of its   *)
(* message in the remote session, which is durable, and not off the        *)
(* command that happens to run.                                            *)
(***************************************************************************)
EXTENDS ReleaseCampaign, WorkOrders, TLAPS

(***************************************************************************)
(* Release campaigns                                                       *)
(***************************************************************************)
\* What an entry says of itself, and of what has left the machine for it: sv, ds and
\* ak are the provider's survivors, dispatches and retries.
Sound(p, e, sv, ds, ak) ==
    /\ e.state = "complete" <=> e.result.outcome = "pass"
    /\ e.state = "running" \/ e.error = "owner" => Attempted(e)
    /\ e.state = "queued" => ~Attempted(e)
    /\ e.state = "running" => e.error # "timeout"
    /\ p \in Local \cup Devin => e.result.of \in {0, e.attempt} \cup sv
    /\ p \in Hosted /\ e.ref = "known" => Attempted(e) /\ ds[e.attempt] > 0
    /\ e.attempt <= ak + 1
Fine(p, e) == Sound(p, e, survived[p], dispatched[p], asked[p])

\* A command's copy begins nothing that is not saved, and differs from the record
\* only where the command has been.
EntryInv == \A p \in Providers :
    LET m == mem.prov[p]  d == disk.prov[p] IN
    /\ Fine(p, m) /\ Fine(p, d)
    /\ m.attempt = d.attempt
    /\ m.state = "running" => d.state = "running"
    /\ p \in todo => m = d
    /\ cmd.retry \notin {None, p} => m = d

\* Before its attempt, the retry of a provider is counted and not spent.
Waiting(p) == p \in todo \/ (at = p /\ pc \in {"decide", "run"})
AskInv == \A p \in Providers :
    /\ asked[p] <= Retries
    /\ cmd.apply /\ Retry(p) /\ Waiting(p) => mem.prov[p].attempt <= asked[p]

LocalSteps  == {"run", "adapter"}
HostedSteps == {"post", "posted", "trigger", "retrigger"}
DevinSteps  == {"tag", "create", "created"}
Begun == {"adapter"} \cup HostedSteps \cup DevinSteps

\* Where a command stands, and what it knows there.
PlaceInv ==
    /\ at = None <=> pc = "visit"
    /\ cmd = Idle => at = None /\ todo = {}
    /\ at \notin todo /\ (cmd.retry # None => at \in {None, cmd.retry})
    /\ pc \in LocalSteps => at \in Local
    /\ pc \in HostedSteps => at \in Hosted
    /\ pc \in DevinSteps => at \in Devin
    /\ at # None => Entry.state # "complete"
    /\ pc = "decide" => /\ Entry.state = "running" => Retry(at)
                        /\ at \in Devin => disk.prov[at] = Entry /\ ~DevinPolls(Entry)
    /\ pc = "run" => Entry.attempt <= asked[at]
    /\ pc \in Begun => Entry.state = "running" /\ Attempted(Entry)
    /\ pc = "post" => dispatched[at][Entry.attempt] = 0
    /\ pc \in {"posted", "trigger", "retrigger"} =>
          dispatched[at][Entry.attempt] > 0 /\ started[at][Entry.attempt] = 0

\* A result file is of the present attempt, or of one whose adapter goes on; only
\* local providers have one.
FileInv == \A p \in Providers :
    /\ file[p] # NoResult => file[p].of \in {0, mem.prov[p].attempt} \cup survived[p]
    /\ p \notin Local => file[p] = NoResult /\ adapter[p] = {}

Inv == /\ TypeOK /\ EntryInv /\ AskInv /\ PlaceInv /\ OncePerAttempt /\ FileInv
       /\ HeadlineIsHonest /\ (mem.dry => disk.dry)
-----------------------------------------------------------------------------
(* Entries and records.                                                    *)

LEMMA AggregateIs ==
    ASSUME NEW st, NEW info, NEW dry PROVE Aggregate(st, info, dry) \in Statuses
<1>1. AllRequired(st) \in Statuses
  BY DEF AllRequired, Statuses
<1>2. ASSUME NEW i PROVE WithInformational(st, i, dry) \in Statuses
  BY DEF WithInformational, InfoAfterPass, Statuses
<1> QED
  BY <1>1, <1>2 DEF Aggregate

LEMMA Heading ==
    ASSUME NEW c \in Records
    PROVE  /\ Headed(c) \in Records /\ Headed(c).prov = c.prov /\ Headed(c).dry = c.dry
           /\ Headed(c).status = Aggregate(StateOf(c.prov), Informational, c.dry)
<1>1. Aggregate(StateOf(c.prov), Informational, c.dry) \in Statuses
  BY AggregateIs
<1> QED
  BY <1>1 DEF Headed, Records

LEMMA Edit ==
    ASSUME NEW c \in Records, NEW p \in Providers, NEW e \in Entries
    PROVE  /\ With(c, p, e) \in Records /\ With(c, p, e).prov = [c.prov EXCEPT ![p] = e]
           /\ With(c, p, e).dry = c.dry
BY DEF With, Records

LEMMA Accepting ==
    ASSUME NEW e \in Entries, NEW r \in Results
    PROVE  /\ Accept(e, r) \in Entries /\ Accept(e, r).result = r
           /\ Accept(e, r).error = "" /\ Accept(e, r).state \in {"complete", "blocked"}
           /\ Accept(e, r).state = "complete" <=> r.outcome = "pass"
           /\ Accept(e, r).attempt = e.attempt /\ Accept(e, r).ref = e.ref
<1> DEFINE s == IF r.outcome = "pass" THEN "complete" ELSE "blocked"
<1>1. s \in ProviderStates /\ "" \in Errors /\ r \in Results \cup {NoResult}
  BY DEF ProviderStates, Errors
<1>2. Accept(e, r) = [e EXCEPT !.result = r, !.error = "", !.state = s]
  BY DEF Accept
<1> HIDE DEF s
<1>3. Accept(e, r) \in Entries
  BY <1>1, <1>2 DEF Entries
<1>4. /\ Accept(e, r).result = r /\ Accept(e, r).error = "" /\ Accept(e, r).state = s
      /\ Accept(e, r).attempt = e.attempt /\ Accept(e, r).ref = e.ref
  BY <1>2 DEF Entries
<1> QED
  BY <1>3, <1>4 DEF s

LEMMA Attempting ==
    ASSUME NEW e \in Entries, e.attempt < MaxAttempts, Retries \in Nat
    PROVE  /\ NextAttempt(e) \in Entries /\ NextAttempt(e).state = "running"
           /\ NextAttempt(e).error = "" /\ NextAttempt(e).result = NoResult
           /\ NextAttempt(e).attempt = e.attempt + 1 /\ NextAttempt(e).ref = "open"
<1>0. e.attempt \in 0..MaxAttempts
  BY DEF Entries
<1>1. /\ "running" \in ProviderStates /\ "" \in Errors /\ NoResult \in Results \cup {NoResult}
      /\ e.attempt + 1 \in 0..MaxAttempts
  BY <1>0 DEF MaxAttempts, ProviderStates, Errors
<1> DEFINE a == e.attempt + 1
           n == NoResult
<1>2. NextAttempt(e) = [e EXCEPT !.state = "running", !.error = "", !.result = n,
                                 !.attempt = a, !.ref = "open"]
  BY DEF NextAttempt
<1>3. n \in Results \cup {NoResult} /\ a \in 0..MaxAttempts
  BY <1>1
<1> HIDE DEF a, n
<1>4. NextAttempt(e) \in Entries
  BY <1>1, <1>2, <1>3 DEF Entries
<1>5. /\ NextAttempt(e).state = "running" /\ NextAttempt(e).error = ""
      /\ NextAttempt(e).result = n /\ NextAttempt(e).attempt = a /\ NextAttempt(e).ref = "open"
  BY <1>2 DEF Entries
<1> QED
  BY <1>4, <1>5 DEF a, n

\* The edits of an entry, by name.
Timed(e, t, d) == [e EXCEPT !.triggered = t, !.deadline = d]
Moved(e, s, er) == [e EXCEPT !.state = s, !.error = er]
Known(e, f) == [e EXCEPT !.ref = f]

LEMMA Timing ==
    ASSUME NEW e \in Entries, NEW t \in BOOLEAN, NEW d \in {"none", "ahead", "past"}
    PROVE  /\ Timed(e, t, d) \in Entries /\ Timed(e, t, d).state = e.state
           /\ Timed(e, t, d).error = e.error /\ Timed(e, t, d).result = e.result
           /\ Timed(e, t, d).attempt = e.attempt /\ Timed(e, t, d).ref = e.ref
BY DEF Entries, Timed

LEMMA Moving ==
    ASSUME NEW e \in Entries, NEW s \in ProviderStates, NEW er \in Errors
    PROVE  /\ Moved(e, s, er) \in Entries /\ Moved(e, s, er).state = s
           /\ Moved(e, s, er).error = er /\ Moved(e, s, er).result = e.result
           /\ Moved(e, s, er).attempt = e.attempt /\ Moved(e, s, er).ref = e.ref
           /\ Moved(e, s, er).triggered = e.triggered /\ Moved(e, s, er).deadline = e.deadline
BY DEF Entries, Moved

LEMMA Knowing ==
    ASSUME NEW e \in Entries, NEW f \in {"none", "open", "tagged", "known"}
    PROVE  /\ Known(e, f) \in Entries /\ Known(e, f).state = e.state
           /\ Known(e, f).error = e.error /\ Known(e, f).result = e.result
           /\ Known(e, f).attempt = e.attempt /\ Known(e, f).ref = f
BY DEF Entries, Known

\* An entry is sound whatever else becomes of its provider.
LEMMA SoundGrows ==
    ASSUME NEW p, NEW e \in Entries, NEW sv, NEW sw, NEW ds, NEW dt, NEW ak \in Nat, NEW al \in Nat,
           Sound(p, e, sv, ds, ak), sv \subseteq sw, ak <= al,
           \A n \in Attempts : ds[n] > 0 => dt[n] > 0
    PROVE  Sound(p, e, sw, dt, al)
<1>1. e.attempt \in 0..MaxAttempts
  BY DEF Entries
<1>2. Attempted(e) => e.attempt \in Attempts
  BY <1>1 DEF Attempted, Attempts
<1>3. e.attempt <= ak + 1 => e.attempt <= al + 1
  BY <1>1
<1> QED
  BY <1>2, <1>3 DEF Sound

LEMMA EntriesOf ==
    ASSUME TypeOK, NEW p \in Providers
    PROVE  /\ mem.prov[p] \in Entries /\ disk.prov[p] \in Entries
           /\ mem.prov[p].attempt \in 0..MaxAttempts /\ disk.prov[p].attempt \in 0..MaxAttempts
           /\ asked[p] \in Nat
BY DEF TypeOK, Records, Entries
-----------------------------------------------------------------------------
(* What a step that writes one entry of the copy leaves.                   *)

Storing(p, e) ==
    /\ mem' \in Records /\ disk' \in Records
    /\ mem'.prov = [mem.prov EXCEPT ![p] = e] /\ mem'.dry = mem.dry
    /\ \/ /\ disk' = disk /\ e.attempt = mem.prov[p].attempt
          /\ e.state = "running" => mem.prov[p].state = "running"
       \/ disk' = mem' /\ mem'.status = Aggregate(StateOf(mem'.prov), Informational, mem'.dry)

LEMMA Holding ==
    ASSUME TypeOK, NEW p \in Providers, NEW e \in Entries, Hold(With(mem, p, e)),
           e.attempt = mem.prov[p].attempt,
           e.state = "running" => mem.prov[p].state = "running"
    PROVE  Storing(p, e)
<1>1. mem \in Records /\ disk \in Records
  BY DEF TypeOK
<1>2. mem' = With(mem, p, e) /\ disk' = disk
  BY DEF Hold
<1> QED
  BY <1>1, <1>2, Edit DEF Storing

LEMMA Saving ==
    ASSUME TypeOK, NEW p \in Providers, NEW e \in Entries, Save(With(mem, p, e))
    PROVE  Storing(p, e)
<1>1. mem \in Records
  BY DEF TypeOK
<1> DEFINE c == With(mem, p, e)
<1>2. c \in Records /\ c.prov = [mem.prov EXCEPT ![p] = e] /\ c.dry = mem.dry
  BY <1>1, Edit
<1>3. mem' = Headed(c) /\ disk' = Headed(c)
  BY DEF Save
<1> HIDE DEF c
<1> QED
  BY <1>2, <1>3, Heading DEF Storing

LEMMA Edited ==
    ASSUME CampaignAssumption, Inv, NEW p \in Providers, NEW e \in Entries, Storing(p, e),
           Sound(p, e, survived'[p], dispatched'[p], asked[p]),
           \A q \in Providers : /\ survived[q] \subseteq survived'[q]
                                /\ \A n \in Attempts : dispatched[q][n] > 0 => dispatched'[q][n] > 0,
           asked' = asked, cmd' = cmd, cmd.retry \in {None, p},
           todo' \subseteq todo, p \notin todo', at' \in {None, p},
           at' = p /\ pc' \in {"decide", "run"} => e.attempt = mem.prov[p].attempt /\ Waiting(p)
    PROVE  EntryInv' /\ AskInv' /\ HeadlineIsHonest' /\ (mem'.dry => disk'.dry)
<1> USE DEF Inv
<1>1. /\ \A q \in Providers : mem.prov[q] \in Entries /\ disk.prov[q] \in Entries /\ asked[q] \in Nat
      /\ \A q \in Providers : mem'.prov[q] = IF q = p THEN e ELSE mem.prov[q]
      /\ None \notin Providers
  BY EntriesOf DEF Storing, TypeOK, Records, CampaignAssumption
<1>2. \/ /\ disk' = disk /\ e.attempt = mem.prov[p].attempt
         /\ e.state = "running" => mem.prov[p].state = "running"
      \/ disk' = mem'
  BY DEF Storing
<1>3. ASSUME NEW q \in Providers, NEW x \in Entries,
             Sound(q, x, survived[q], dispatched[q], asked[q])
      PROVE  Sound(q, x, survived'[q], dispatched'[q], asked[q])
  BY <1>1, <1>3, SoundGrows
<1>4. ASSUME NEW q \in Providers
      PROVE  /\ Sound(q, mem'.prov[q], survived'[q], dispatched'[q], asked[q])
             /\ Sound(q, disk'.prov[q], survived'[q], dispatched'[q], asked[q])
  <2>1. /\ Sound(q, mem.prov[q], survived'[q], dispatched'[q], asked[q])
        /\ Sound(q, disk.prov[q], survived'[q], dispatched'[q], asked[q])
    BY <1>1, <1>3 DEF EntryInv, Fine
  <2> QED
    BY <1>1, <1>2, <2>1
<1>5. ASSUME NEW q \in Providers
      PROVE  /\ mem'.prov[q].attempt = disk'.prov[q].attempt
             /\ mem'.prov[q].state = "running" => disk'.prov[q].state = "running"
             /\ q \in todo' => mem'.prov[q] = disk'.prov[q]
             /\ cmd.retry \notin {None, q} => mem'.prov[q] = disk'.prov[q]
  BY <1>1, <1>2 DEF EntryInv
<1>6. EntryInv'
  BY <1>4, <1>5 DEF EntryInv, Fine
<1>7. AskInv'
  <2> SUFFICES ASSUME NEW q \in Providers, cmd.apply, cmd.retry = q,
                      q \in todo' \/ (at' = q /\ pc' \in {"decide", "run"})
               PROVE  mem'.prov[q].attempt <= asked[q]
    BY DEF AskInv, Waiting, Retry
  <2>1. q \in todo' => q # p /\ Waiting(q)
    BY DEF Waiting
  <2> QED
    BY <1>1, <2>1 DEF AskInv, Retry
<1>8. HeadlineIsHonest'
  BY <1>2 DEF Storing, HeadlineIsHonest
<1>9. mem'.dry => disk'.dry
  BY <1>2 DEF Storing
<1> QED
  BY <1>6, <1>7, <1>8, <1>9

LEMMA LeftPlace ==
    ASSUME CampaignAssumption, Inv, Leave, cmd' = cmd, cmd # Idle, todo' \subseteq todo
    PROVE  PlaceInv'
<1>1. None \notin todo' /\ at' = None /\ pc' = "visit"
  BY DEF Inv, TypeOK, CampaignAssumption, Leave
<1> QED
  BY <1>1 DEF PlaceInv, LocalSteps, HostedSteps, DevinSteps, Begun

LEMMA Untouched ==
    ASSUME Inv, mem' \in Records, disk' \in Records, UNCHANGED <<local, github, session>>,
           \A q \in Providers : disk.prov[q].attempt <= disk'.prov[q].attempt,
           \A q \in Local : mem'.prov[q].attempt = mem.prov[q].attempt
    PROVE  OncePerAttempt' /\ FileInv'
<1>1. \A q \in Providers : disk.prov[q].attempt \in 0..MaxAttempts /\ disk'.prov[q].attempt \in 0..MaxAttempts
  BY DEF Inv, TypeOK, Records, Entries
<1>2. OncePerAttempt'
  <2> SUFFICES ASSUME NEW q \in Providers, NEW n \in Attempts
               PROVE  /\ Effects(q, n)' => n <= disk'.prov[q].attempt
                      /\ dispatched'[q][n] <= 1 /\ started'[q][n] <= dispatched'[q][n]
    BY DEF OncePerAttempt
  <2>1. Effects(q, n)' <=> Effects(q, n)
    BY DEF Effects, local, github
  <2>2. Effects(q, n) => n <= disk.prov[q].attempt
    BY DEF Inv, OncePerAttempt
  <2>3. n \in Nat
    BY DEF Attempts
  <2>4. dispatched'[q][n] <= 1 /\ started'[q][n] <= dispatched'[q][n]
    BY DEF Inv, OncePerAttempt, github
  <2> QED
    BY <1>1, <2>1, <2>2, <2>3, <2>4
<1>3. FileInv'
  BY DEF Inv, FileInv, local
<1> QED
  BY <1>2, <1>3

Places == {"visit", "decide", "unlink", "run", "adapter", "post", "posted",
           "trigger", "retrigger", "tag", "create", "created"}

LEMMA TypesKept ==
    ASSUME TypeOK, mem' \in Records, disk' \in Records, Stay, todo' \subseteq todo,
           at' \in Providers \cup {None}, pc' \in Places
    PROVE  TypeOK'
BY DEF TypeOK, Stay, local, github, Places

LEMMA Retold ==
    ASSUME CampaignAssumption, Inv, NEW p \in Providers, NEW e \in Entries, Storing(p, e),
           e.attempt = mem.prov[p].attempt
    PROVE  \A q \in Providers : /\ mem'.prov[q].attempt = mem.prov[q].attempt
                                /\ disk'.prov[q].attempt = disk.prov[q].attempt
                                /\ disk.prov[q].attempt <= disk'.prov[q].attempt
<1>1. \A q \in Providers : /\ mem'.prov[q] = IF q = p THEN e ELSE mem.prov[q]
                           /\ mem.prov[q].attempt = disk.prov[q].attempt
                           /\ disk.prov[q].attempt \in 0..MaxAttempts
  BY EntriesOf DEF Storing, Inv, TypeOK, Records, EntryInv
<1>2. \A q \in Providers : mem'.prov[q].attempt = mem.prov[q].attempt
  BY <1>1
<1>3. disk' = disk \/ disk' = mem'
  BY DEF Storing
<1>4. \A n \in 0..MaxAttempts : n <= n
  OBVIOUS
<1> QED
  BY <1>1, <1>2, <1>3, <1>4

\* The command goes on to the next provider.
LEMMA Leaving ==
    ASSUME CampaignAssumption, Inv, NEW p \in Providers, NEW e \in Entries, Storing(p, e),
           Fine(p, e), e.attempt = mem.prov[p].attempt, Stay, Leave, cmd # Idle,
           cmd.retry \in {None, p}, todo' \subseteq todo, p \notin todo'
    PROVE  Inv'
<1>1. at' = None /\ pc' = "visit" /\ None \notin Providers /\ at' # p
  BY DEF Leave, CampaignAssumption
<1>2. TypeOK'
  BY <1>1, TypesKept DEF Inv, Storing, Places
<1>3. EntryInv' /\ AskInv' /\ HeadlineIsHonest' /\ (mem'.dry => disk'.dry)
  BY <1>1, Edited DEF Stay, local, github, Fine
<1>4. PlaceInv'
  BY LeftPlace DEF Stay
<1>5. OncePerAttempt' /\ FileInv'
  BY Retold, Untouched DEF Stay, Storing, Providers
<1> QED
  BY <1>2, <1>3, <1>4, <1>5 DEF Inv

\* Or it decides what becomes of this one.
LEMMA ComesToDecide ==
    ASSUME CampaignAssumption, Inv, NEW p \in Providers, NEW e \in Entries, Storing(p, e),
           Fine(p, e), e.attempt = mem.prov[p].attempt, Stay, at' = p, pc' = "decide", cmd # Idle,
           cmd.retry \in {None, p}, todo' \subseteq todo, p \notin todo', Waiting(p),
           e.state # "complete", e.state = "running" => Retry(p),
           p \in Devin => disk'.prov[p] = e /\ ~DevinPolls(e)
    PROVE  Inv'
<1>1. TypeOK'
  BY TypesKept DEF Inv, Storing, Places
<1>2. EntryInv' /\ AskInv' /\ HeadlineIsHonest' /\ (mem'.dry => disk'.dry)
  BY Edited DEF Stay, local, github, Fine
<1>3. PlaceInv'
  <2>1. mem'.prov[p] = e /\ p # None
    BY DEF Storing, Inv, TypeOK, Records, CampaignAssumption
  <2> QED
    BY <2>1 DEF PlaceInv, LocalSteps, HostedSteps, DevinSteps, Begun, Entry, Stay, Retry, Idle
<1>4. OncePerAttempt' /\ FileInv'
  BY Retold, Untouched DEF Stay, Storing, Providers
<1> QED
  BY <1>1, <1>2, <1>3, <1>4 DEF Inv

LEMMA Same ==
    ASSUME TypeOK, NEW p \in Providers, UNCHANGED records PROVE Storing(p, mem.prov[p])
<1>1. mem.prov = [mem.prov EXCEPT ![p] = mem.prov[p]]
  BY DEF TypeOK, Records
<1> QED
  BY <1>1 DEF Storing, records, TypeOK

LEMMA Passing ==
    ASSUME CampaignAssumption, Inv, UNCHANGED records, Leave, Stay, cmd # Idle, todo' \subseteq todo
    PROVE  Inv'
<1>1. at' = None /\ pc' = "visit" /\ None \notin Providers
  BY DEF Leave, CampaignAssumption
<1>2. TypeOK'
  BY <1>1, TypesKept DEF Inv, TypeOK, records, Places
<1>3. EntryInv'
  BY <1>1 DEF Inv, EntryInv, records, Stay, local, github, Fine
<1>4. AskInv'
  BY <1>1 DEF Inv, AskInv, Waiting, Retry, records, Stay
<1>5. PlaceInv'
  BY LeftPlace DEF Stay
<1>6. OncePerAttempt' /\ FileInv' /\ HeadlineIsHonest' /\ (mem'.dry => disk'.dry)
  BY DEF Inv, OncePerAttempt, Effects, FileInv, HeadlineIsHonest, records, Stay, local, github
<1> QED
  BY <1>2, <1>3, <1>4, <1>5, <1>6 DEF Inv

LEMMA Arriving ==
    ASSUME NEW p, Visiting(p) PROVE p \in todo
BY DEF Visiting, First

LEMMA InTodo ==
    ASSUME Inv, NEW p, Visiting(p), Visited(p)
    PROVE  p \in Providers /\ p \in todo /\ p \notin todo' /\ todo' \subseteq todo /\ Waiting(p)
BY Arriving DEF Inv, TypeOK, Visited, Waiting
-----------------------------------------------------------------------------
(* Visits.                                                                 *)

LEMMA VisitFrozenSteps ==
    ASSUME CampaignAssumption, Inv, NEW p \in Providers, VisitFrozen(p) \/ VisitComplete(p) PROVE Inv'
BY InTodo, Passing DEF VisitFrozen, VisitComplete, Visiting

LEMMA DecideKeepSteps ==
    ASSUME CampaignAssumption, Inv, DecideKeep PROVE Inv'
BY Passing DEF DecideKeep, Deciding

LEMMA TakeFileSteps ==
    ASSUME CampaignAssumption, Inv, NEW p \in Providers, TakeFile(p) PROVE Inv'
<1> USE DEF TakeFile
<1>1. p \in todo /\ p \notin todo' /\ todo' \subseteq todo /\ cmd # Idle /\ cmd.retry \in {None, p}
  BY InTodo DEF Frozen, Visiting
<1>2. file[p] \in Results /\ file[p].of \in {0, mem.prov[p].attempt} \cup survived[p]
  BY DEF Inv, TypeOK, FileInv, DropIn
<1>3. PICK m \in Entries : m = mem.prov[p]
  BY EntriesOf DEF Inv
<1>4. PICK r \in Results : r = file[p]
  BY <1>2
<1> DEFINE e == Accept(m, r)
<1>5. /\ e \in Entries /\ e.result = r /\ e.error = "" /\ e.state \in {"complete", "blocked"}
      /\ e.state = "complete" <=> r.outcome = "pass"
      /\ e.attempt = m.attempt /\ e.ref = m.ref
  BY Accepting
<1>6. Hold(With(mem, p, e))
  BY <1>3, <1>4
<1> HIDE DEF e
<1>7. Fine(p, m)
  BY <1>3 DEF Inv, EntryInv
<1>8. Fine(p, e)
  BY <1>2, <1>3, <1>4, <1>5, <1>7 DEF Fine, Sound, Attempted
<1>9. Storing(p, e)
  BY <1>3, <1>5, <1>6, Holding DEF Inv
<1> QED
  BY <1>1, <1>3, <1>5, <1>8, <1>9, Leaving

\* It stays at the provider for its next step.
LEMMA GoesOn ==
    ASSUME CampaignAssumption, Inv, NEW p \in Providers, NEW e \in Entries, Storing(p, e),
           Fine(p, e), e.attempt = mem.prov[p].attempt, Stay, at' = p,
           pc' \in Places \ {"decide", "run"}, PlaceInv',
           cmd.retry \in {None, p}, todo' \subseteq todo, p \notin todo'
    PROVE  Inv'
<1>1. TypeOK'
  BY TypesKept DEF Inv, Storing
<1>2. EntryInv' /\ AskInv' /\ HeadlineIsHonest' /\ (mem'.dry => disk'.dry)
  BY Edited DEF Stay, local, github, Fine
<1>3. OncePerAttempt' /\ FileInv'
  BY Retold, Untouched DEF Stay, Storing, Providers
<1> QED
  BY <1>1, <1>2, <1>3 DEF Inv

\* An entry that has not passed stays sound when its state and error change.
LEMMA StillSound ==
    ASSUME NEW p, NEW m \in Entries, NEW x \in Entries, NEW sv, NEW ds, NEW ak,
           Sound(p, m, sv, ds, ak), m.state # "complete",
           x.result = m.result, x.attempt = m.attempt, x.state \notin {"complete", "queued"},
           x.state = "running" \/ x.error = "owner" => Attempted(m),
           x.state = "running" => x.error # "timeout",
           p \in Hosted /\ x.ref = "known" => m.ref = "known" \/ (Attempted(m) /\ ds[m.attempt] > 0)
    PROVE  Sound(p, x, sv, ds, ak)
BY DEF Sound, Attempted

LEMMA SilentIs ==
    ASSUME NEW e \in Entries
    PROVE  /\ Silent(e) \in Entries /\ Silent(e).result = e.result /\ Silent(e).attempt = e.attempt
           /\ \/ Silent(e).state = "unavailable" /\ Silent(e).error = "timeout"
              \/ Silent(e).state = "running" /\ Silent(e).error = ""
<1>1. CASE e.deadline = "past"
  <2>1. "unavailable" \in ProviderStates /\ "timeout" \in Errors
    BY DEF ProviderStates, Errors
  <2>2. Silent(e) = Moved(e, "unavailable", "timeout")
    BY <1>1 DEF Silent, Moved
  <2>3. /\ Silent(e) \in Entries /\ Silent(e).result = e.result
        /\ Silent(e).attempt = e.attempt
    BY <2>1, <2>2, Moving
  <2>4. Silent(e).state = "unavailable" /\ Silent(e).error = "timeout"
    BY <2>1, <2>2, Moving
  <2> QED
    BY <2>3, <2>4
<1>2. CASE e.deadline # "past"
  <2>1. "running" \in ProviderStates /\ "" \in Errors
    BY DEF ProviderStates, Errors
  <2>2. Silent(e) = [e EXCEPT !.state = "running", !.error = "", !.deadline = "ahead"]
    BY <1>2 DEF Silent
  <2>3. Silent(e) \in Entries
    BY <2>1, <2>2 DEF Entries
  <2>4. /\ Silent(e).result = e.result /\ Silent(e).attempt = e.attempt
        /\ Silent(e).state = "running" /\ Silent(e).error = ""
    BY <2>2 DEF Entries
  <2> QED
    BY <2>3, <2>4
<1> QED
  BY <1>1, <1>2

\* What a read of a session makes of an entry that is polled.
LEMMA DevinOutcomes ==
    ASSUME CampaignAssumption, NEW p \in Devin, NEW m \in Entries, NEW sv, NEW ds, NEW ak,
           Sound(p, m, sv, ds, ak), DevinPolls(m), NEW f \in {DevinUnread(m)} \cup DevinReads(p, m)
    PROVE  /\ f \in Entries /\ f.attempt = m.attempt /\ Sound(p, f, sv, ds, ak)
           /\ DevinRetryIsSafe(f) =>
                /\ f.state \notin {"complete", "running"}
                /\ ~DevinPolls(f)
<1>1. p \notin Hosted /\ Attempted(m) /\ m.state # "complete" /\ m.attempt \in 0..MaxAttempts
  BY DEF CampaignAssumption, DevinPolls, Sound, Entries
<1>2. /\ {"unavailable", "blocked", "running"} \subseteq ProviderStates
      /\ {"ended", "rejected", "owner", "other"} \subseteq Errors
  BY DEF ProviderStates, Errors
<1>3. ASSUME NEW x \in Entries, x.result = m.result, x.attempt = m.attempt,
             x.state \in {"unavailable", "blocked", "running"},
             x.state = "running" => x.error # "timeout"
      PROVE  Sound(p, x, sv, ds, ak)
  BY <1>1, <1>3, StillSound
<1>4. \A x : DevinRetryIsSafe(x) => x.state \notin {"complete", "running"} /\ ~DevinPolls(x)
  BY DEF DevinRetryIsSafe, DevinPolls
<1>5. f = DevinUnread(m) => f \in Entries /\ f.attempt = m.attempt /\ Sound(p, f, sv, ds, ak)
  <2>1. DevinUnread(m) = Moved(m, "running", "other")
    BY DEF DevinUnread, Moved
  <2>3. "running" \in ProviderStates /\ "other" \in Errors
    BY <1>2
  <2>2. /\ DevinUnread(m) \in Entries /\ DevinUnread(m).state = "running"
        /\ DevinUnread(m).error = "other" /\ DevinUnread(m).result = m.result
        /\ DevinUnread(m).attempt = m.attempt
    BY <2>1, <2>3, Moving
  <2> QED
    BY <1>3, <2>2
<1>6. f \in DevinReads(p, m) => f \in Entries /\ f.attempt = m.attempt /\ Sound(p, f, sv, ds, ak)
  <2> DEFINE s == session[p][m.attempt]
             k == Known(m, "known")
  <2>1. k \in Entries /\ k.state = m.state /\ k.result = m.result /\ k.attempt = m.attempt
    BY Knowing
  <2>2. f \in DevinReads(p, m) =>
          \/ s.output \in Outcomes /\ f = Accept(k, [outcome |-> s.output, of |-> m.attempt])
          \/ f = Silent(k)
          \/ \E st \in {"unavailable", "blocked"}, er \in {"ended", "rejected", "owner"} :
                 f = Moved(k, st, er)
    BY DEF DevinReads, Known, Moved
  <2> HIDE DEF k
  <2>3. ASSUME s.output \in Outcomes, f = Accept(k, [outcome |-> s.output, of |-> m.attempt])
        PROVE  f \in Entries /\ f.attempt = m.attempt /\ Sound(p, f, sv, ds, ak)
    <3> DEFINE r == [outcome |-> s.output, of |-> m.attempt]
    <3>1. r \in Results /\ r.of = m.attempt
      BY <1>1, <2>3 DEF Results
    <3> HIDE DEF s, r
    <3>2. /\ f \in Entries /\ f.attempt = m.attempt /\ f.result = r /\ f.error = ""
          /\ f.state \in {"complete", "blocked"}
          /\ f.state = "complete" <=> r.outcome = "pass"
      BY <2>1, <2>3, <3>1, Accepting DEF r
    <3>3. f.state # "queued" /\ f.state # "running" /\ f.error # "owner"
      BY <3>2
    <3>5. f.result.of = f.attempt
      BY <3>1, <3>2
    <3>4. m.attempt <= ak + 1 /\ f.result.outcome = r.outcome
      BY <3>2 DEF Sound
    <3> QED
      BY <1>1, <3>2, <3>3, <3>4, <3>5 DEF Sound
  <2>4. ASSUME f = Silent(k)
        PROVE  f \in Entries /\ f.attempt = m.attempt /\ Sound(p, f, sv, ds, ak)
    BY <1>3, <2>1, <2>4, SilentIs
  <2>5. ASSUME NEW st \in {"unavailable", "blocked"}, NEW er \in {"ended", "rejected", "owner"},
               f = Moved(k, st, er)
        PROVE  f \in Entries /\ f.attempt = m.attempt /\ Sound(p, f, sv, ds, ak)
    <3>1. /\ f \in Entries /\ f.state = st /\ f.error = er /\ f.result = m.result
          /\ f.attempt = m.attempt
      <4>1. st \in ProviderStates /\ er \in Errors
        BY <1>2
      <4> QED
        BY <2>1, <2>5, <4>1, Moving
    <3> QED
      BY <1>3, <3>1
  <2> QED
    BY <2>2, <2>3, <2>4, <2>5
<1> QED
  BY <1>4, <1>5, <1>6

LEMMA PollDevinSteps ==
    ASSUME CampaignAssumption, Inv, NEW p \in Providers, PollDevin(p) PROVE Inv'
<1> USE DEF PollDevin, Open
<1>1. /\ p \in todo /\ p \notin todo' /\ todo' \subseteq todo /\ cmd # Idle /\ Waiting(p)
      /\ cmd.retry \in {None, p}
  BY InTodo DEF Frozen, Visiting
<1>2. PICK m \in Entries : m = mem.prov[p]
  BY EntriesOf DEF Inv
<1>3. Sound(p, m, survived[p], dispatched[p], asked[p]) /\ DevinPolls(m) /\ p \in Devin
  BY <1>2 DEF Inv, EntryInv, Fine
<1>4. PICK f \in {DevinUnread(m)} \cup DevinReads(p, m) :
         /\ Save(With(mem, p, f))
         /\ IF Retry(p) /\ DevinRetryIsSafe(f) THEN at' = p /\ pc' = "decide" ELSE Leave
  BY <1>2
<1>5. /\ f \in Entries /\ f.attempt = m.attempt /\ Sound(p, f, survived[p], dispatched[p], asked[p])
      /\ DevinRetryIsSafe(f) => f.state \notin {"complete", "running"} /\ ~DevinPolls(f)
  BY <1>3, DevinOutcomes
<1>6. Fine(p, f) /\ Storing(p, f)
  BY <1>4, <1>5, Saving DEF Fine, Inv
<1>7. CASE Leave
  BY <1>1, <1>2, <1>5, <1>6, <1>7, Leaving
<1>8. CASE at' = p /\ pc' = "decide" /\ DevinRetryIsSafe(f)
  <2>1. disk' = mem' /\ disk'.prov[p] = f
    BY <1>4, <1>6 DEF Save, Storing, Inv, TypeOK, Records
  <2> QED
    BY <1>1, <1>2, <1>5, <1>6, <1>8, <2>1, ComesToDecide
<1> QED
  BY <1>4, <1>7, <1>8
-----------------------------------------------------------------------------
(* Hosted providers.                                                       *)

\* What becomes of the entry e that is polled, which is f afterwards.
Marks(f, e) ==
    /\ f.state = e.state /\ f.error \in {"other", "rejected", ""}
    /\ f.result = e.result /\ f.attempt = e.attempt /\ f.ref = e.ref
Confirms(f, e, seen) ==
    /\ f.state = e.state /\ f.error = e.error /\ f.result = e.result /\ f.attempt = e.attempt
    /\ f.ref = e.ref \/ seen
Waits(f, e, retry, silent) ==
    /\ f.result = e.result /\ f.attempt = e.attempt /\ f.ref = e.ref
    /\ \/ f.state = e.state /\ f.error = e.error
       \/ f.state = "blocked" /\ f.error = e.error /\ ~retry
       \/ f.state = "unavailable" /\ f.error = "timeout" /\ ~retry /\ silent

LEMMA MarkedIs ==
    ASSUME NEW p, NEW r, NEW e \in Entries
    PROVE  Marked(p, e, r) \in Entries /\ Marks(Marked(p, e, r), e)
<1> DEFINE er == IF Unreadable(r) THEN "other"
                 ELSE IF p \in misfit /\ Sees(r, Issue) THEN "rejected" ELSE ""
<1>1. er \in Errors /\ er \in {"other", "rejected", ""}
  BY DEF Errors
<1>2. Marked(p, e, r) = [e EXCEPT !.error = er]
  BY DEF Marked
<1> HIDE DEF er
<1>3. Marked(p, e, r) \in Entries
  BY <1>1, <1>2 DEF Entries
<1>4. /\ Marked(p, e, r).state = e.state /\ Marked(p, e, r).error = er
      /\ Marked(p, e, r).result = e.result /\ Marked(p, e, r).attempt = e.attempt
      /\ Marked(p, e, r).ref = e.ref
  BY <1>2 DEF Entries
<1> QED
  BY <1>1, <1>3, <1>4 DEF Marks

LEMMA ReconcileIs ==
    ASSUME NEW p, NEW r, NEW e \in Entries
    PROVE  /\ Reconcile(p, e, r) \in Entries
           /\ Confirms(Reconcile(p, e, r), e, DispatchSeen(p, e, r))
<1>1. CASE ~Sees(r, Issue) \/ ~DispatchSeen(p, e, r)
  BY <1>1 DEF Reconcile, Confirms
<1>2. CASE ~(~Sees(r, Issue) \/ ~DispatchSeen(p, e, r))
  <2> DEFINE t == TriggerSeen(p, e, r)
             d == IF t THEN "ahead" ELSE e.deadline
             f == Reconcile(p, e, r)
  <2>1. t \in BOOLEAN /\ d \in {"none", "ahead", "past"}
    BY DEF TriggerSeen, Entries
  <2>2. f = [e EXCEPT !.ref = "known", !.triggered = t, !.deadline = d]
    BY <1>2 DEF Reconcile
  <2> HIDE DEF t, d, f
  <2>3. f \in Entries
    BY <2>1, <2>2 DEF Entries
  <2>4. f.state = e.state /\ f.error = e.error /\ f.result = e.result /\ f.attempt = e.attempt
    BY <2>2 DEF Entries
  <2>5. DispatchSeen(p, e, r)
    BY <1>2
  <2> QED
    BY <2>3, <2>4, <2>5 DEF f, Confirms
<1> QED
  BY <1>1, <1>2

LEMMA DeadlineIs ==
    ASSUME NEW p, NEW r, NEW e \in Entries
    PROVE  /\ Deadline(p, e, r) \in Entries
           /\ Waits(Deadline(p, e, r), e, Retry(p), Enforces(e, r))
<1> DEFINE f == Deadline(p, e, r)
<1>1. \/ f = e
      \/ f = [e EXCEPT !.deadline = "ahead"]
      \/ f = [e EXCEPT !.state = "blocked"] /\ ~Retry(p)
      \/ f = Moved(e, "unavailable", "timeout") /\ ~Retry(p) /\ Enforces(e, r)
  BY DEF Deadline, Moved
<1> HIDE DEF f, Waits
<1>2. {"blocked", "unavailable"} \subseteq ProviderStates /\ "timeout" \in Errors
  BY DEF ProviderStates, Errors
<1>3. CASE f = e
  BY <1>3 DEF f, Waits
<1>4. CASE f = [e EXCEPT !.deadline = "ahead"]
  <2>1. f \in Entries
    BY <1>4 DEF Entries
  <2>2. /\ f.result = e.result /\ f.attempt = e.attempt /\ f.ref = e.ref
        /\ f.state = e.state /\ f.error = e.error
    BY <1>4 DEF Entries
  <2> QED
    BY <2>1, <2>2 DEF f, Waits
<1>5. CASE f = [e EXCEPT !.state = "blocked"] /\ ~Retry(p)
  <2>1. f \in Entries
    BY <1>2, <1>5 DEF Entries
  <2>2. /\ f.result = e.result /\ f.attempt = e.attempt /\ f.ref = e.ref
        /\ f.state = "blocked" /\ f.error = e.error
    BY <1>5 DEF Entries
  <2> QED
    BY <1>5, <2>1, <2>2 DEF f, Waits
<1>6. CASE f = Moved(e, "unavailable", "timeout") /\ ~Retry(p) /\ Enforces(e, r)
  <2>1. "unavailable" \in ProviderStates /\ "timeout" \in Errors
    BY <1>2
  <2>2. /\ f \in Entries /\ f.result = e.result /\ f.attempt = e.attempt /\ f.ref = e.ref
        /\ f.state = "unavailable" /\ f.error = "timeout"
    BY <1>6, <2>1, Moving
  <2> QED
    BY <1>6, <2>2 DEF f, Waits
<1> QED
  BY <1>1, <1>3, <1>4, <1>5, <1>6

LEMMA FoundIs ==
    ASSUME Inv, NEW p \in Providers, NEW r \in Reads, Found(p, r) # NoResult
    PROVE  Found(p, r) \in Results
<1>1. \A s \in Surfaces : answer[p][s] # NoResult => answer[p][s] \in Results
  BY DEF Inv, TypeOK
<1>2. CASE Sees(r, Issue) /\ answer[p][Issue] # NoResult
  <2>1. r.seen \subseteq Surfaces
    BY DEF Reads, Reading, Blind
  <2> QED
    BY <1>1, <1>2, <2>1 DEF Found, Sees
<1>3. CASE ~(Sees(r, Issue) /\ answer[p][Issue] # NoResult)
  <2> DEFINE rest == {s \in Surfaces : Sees(r, s) /\ answer[p][s] # NoResult}
  <2>1. Found(p, r) = IF rest = {} THEN NoResult ELSE answer[p][CHOOSE s \in rest : TRUE]
    BY <1>3 DEF Found
  <2>2. (CHOOSE s \in rest : TRUE) \in rest
    BY <2>1
  <2> QED
    BY <1>1, <2>1, <2>2
<1> QED
  BY <1>2, <1>3

\* What holds of a hosted entry that is polled, with the copy m of it.
LEMMA Polled ==
    ASSUME CampaignAssumption, Inv, NEW p \in Providers, HostedPolls(p), Visited(p), NEW m, m = mem.prov[p]
    PROVE  /\ p \in todo /\ p \notin todo' /\ todo' \subseteq todo /\ cmd # Idle /\ Waiting(p)
           /\ cmd.retry \in {None, p} /\ p \in Hosted /\ p \notin Devin /\ p \notin Local
           /\ m \in Entries /\ m.state = "running" /\ Attempted(m) /\ Fine(p, m)
           /\ Sound(p, m, survived[p], dispatched[p], asked[p])
<1>1. p \in todo /\ p \notin todo' /\ todo' \subseteq todo /\ Waiting(p)
  BY InTodo DEF HostedPolls, Open
<1>2. cmd # Idle /\ cmd.retry \in {None, p}
  BY DEF HostedPolls, Open, Visiting, Frozen
<1>3. Fine(p, m) /\ m \in Entries
  BY EntriesOf DEF Inv, EntryInv
<1>4. p \in Hosted /\ p \notin Devin /\ p \notin Local /\ m.state = "running"
  BY DEF HostedPolls, CampaignAssumption
<1> QED
  BY <1>1, <1>2, <1>3, <1>4 DEF Fine, Sound

LEMMA PollFindsSteps ==
    ASSUME CampaignAssumption, Inv, NEW p \in Providers, NEW r \in Reads, PollFinds(p, r) PROVE Inv'
<1>1. PICK m \in Entries : m = mem.prov[p]
  BY EntriesOf DEF Inv
<1>2. HostedPolls(p) /\ Visited(p) /\ Leave /\ Stay /\ Found(p, r) # NoResult
  BY DEF PollFinds
<1>3. /\ p \notin todo' /\ todo' \subseteq todo /\ cmd # Idle /\ cmd.retry \in {None, p}
      /\ p \in Hosted /\ p \notin Devin /\ p \notin Local /\ Attempted(m)
      /\ Sound(p, m, survived[p], dispatched[p], asked[p])
  BY <1>1, <1>2, Polled
<1>4. PICK x \in Results : x = Found(p, r)
  BY <1>2, FoundIs
<1> DEFINE e == Accept(m, x)
<1>5. /\ e \in Entries /\ e.result = x /\ e.error = "" /\ e.state \in {"complete", "blocked"}
      /\ e.state = "complete" <=> x.outcome = "pass"
      /\ e.attempt = m.attempt /\ e.ref = m.ref
  BY Accepting
<1>6. Hold(With(mem, p, e))
  BY <1>1, <1>4 DEF PollFinds
<1> HIDE DEF e
<1>7. Fine(p, e)
  BY <1>3, <1>5 DEF Fine, Sound, Attempted
<1>8. Storing(p, e)
  BY <1>1, <1>5, <1>6, Holding DEF Inv
<1> QED
  BY <1>1, <1>2, <1>3, <1>5, <1>7, <1>8, Leaving

LEMMA PollReconcilesSteps ==
    ASSUME CampaignAssumption, Inv, NEW p \in Providers, NEW r \in Reads, PollReconciles(p, r) PROVE Inv'
<1>1. PICK m \in Entries : m = mem.prov[p]
  BY EntriesOf DEF Inv
<1>2. HostedPolls(p) /\ Visited(p) /\ Stay
  BY DEF PollReconciles
<1>3. /\ p \notin todo' /\ todo' \subseteq todo /\ cmd # Idle /\ cmd.retry \in {None, p}
      /\ p \in Hosted /\ p \notin Devin /\ p \notin Local /\ Attempted(m) /\ m.state = "running"
      /\ Sound(p, m, survived[p], dispatched[p], asked[p]) /\ Waiting(p)
  BY <1>1, <1>2, Polled
<1>4. PICK e \in Entries : e = Marked(p, m, r) /\ Marks(e, m)
  BY MarkedIs
<1>5. /\ e.state = m.state /\ e.error \in {"other", "rejected", ""} /\ e.result = m.result
      /\ e.attempt = m.attempt /\ e.ref = m.ref
  BY <1>4 DEF Marks
<1>6. PICK f \in Entries : f = Reconcile(p, e, r) /\ Confirms(f, e, DispatchSeen(p, e, r))
  BY ReconcileIs
<1>7. /\ f.state = m.state /\ f.error \in {"other", "rejected", ""} /\ f.result = m.result
      /\ f.attempt = m.attempt /\ (f.ref = m.ref \/ DispatchSeen(p, e, r))
  BY <1>5, <1>6 DEF Confirms
<1>8. DispatchSeen(p, e, r) => dispatched[p][m.attempt] > 0
  BY <1>3, <1>5 DEF DispatchSeen, Sound
<1>9. Fine(p, f)
  <2>1. m.state # "complete" /\ f.state \notin {"complete", "queued"} /\ f.error # "timeout"
    BY <1>3, <1>7
  <2> QED
    BY <1>3, <1>7, <1>8, <2>1, StillSound DEF Fine
<1>10. Storing(p, f)
  <2>1. Hold(With(mem, p, f)) \/ Save(With(mem, p, f))
    BY <1>1, <1>4, <1>6 DEF PollReconciles
  <2> QED
    BY <1>1, <1>7, <2>1, Holding, Saving DEF Inv
<1>11. CASE Leave
  BY <1>1, <1>2, <1>3, <1>7, <1>9, <1>10, <1>11, Leaving
<1>12. CASE PostsTrigger(p, e, r) /\ at' = p /\ pc' = "retrigger"
  <2>1. mem'.prov[p] = f /\ p # None
    BY <1>10 DEF Storing, Inv, TypeOK, Records, CampaignAssumption
  <2>2. m.attempt \in Attempts
    BY <1>3 DEF Attempted, Attempts, Entries
  <2>3. dispatched[p][f.attempt] > 0 /\ started[p][f.attempt] = 0
    <3>1. ~(started[p][m.attempt] > 0) /\ started[p][m.attempt] \in Nat
      BY <1>5, <1>12, <2>2 DEF PostsTrigger, TriggerSeen, Inv, TypeOK
    <3>2. DispatchSeen(p, e, r)
      BY <1>12 DEF PostsTrigger
    <3>3. started[p][m.attempt] = 0
      BY <3>1
    <3> QED
      BY <1>7, <1>8, <3>2, <3>3
  <2>4. PlaceInv'
    BY <1>2, <1>3, <1>7, <1>12, <2>1, <2>3
    DEF PlaceInv, LocalSteps, HostedSteps, DevinSteps, Begun, Entry, Stay, github, Attempted, Idle
  <2>5. pc' \in Places \ {"decide", "run"}
    BY <1>12 DEF Places
  <2> QED
    BY <1>1, <1>2, <1>3, <1>7, <1>9, <1>10, <1>12, <2>4, <2>5, GoesOn
<1> QED
  BY <1>1, <1>4, <1>11, <1>12 DEF PollReconciles

LEMMA PollWaitsSteps ==
    ASSUME CampaignAssumption, Inv, NEW p \in Providers, NEW r \in Reads, PollWaits(p, r) PROVE Inv'
<1>1. PICK m \in Entries : m = mem.prov[p]
  BY EntriesOf DEF Inv
<1>2. HostedPolls(p) /\ Visited(p) /\ Stay
  BY DEF PollWaits
<1>3. /\ p \notin todo' /\ todo' \subseteq todo /\ cmd # Idle /\ cmd.retry \in {None, p}
      /\ p \in Hosted /\ p \notin Devin /\ p \notin Local /\ Attempted(m) /\ m.state = "running"
      /\ Sound(p, m, survived[p], dispatched[p], asked[p]) /\ Waiting(p)
  BY <1>1, <1>2, Polled
<1>4. PICK e \in Entries : e = Marked(p, m, r) /\ Marks(e, m)
  BY MarkedIs
<1>5. /\ e.state = m.state /\ e.error \in {"other", "rejected", ""} /\ e.result = m.result
      /\ e.attempt = m.attempt /\ e.ref = m.ref
  BY <1>4 DEF Marks
<1>6. PICK f \in Entries : /\ f = IF Awaited(p, e) THEN Deadline(p, e, r) ELSE e
                           /\ Waits(f, e, Retry(p), Enforces(e, r))
  <2>1. Waits(e, e, Retry(p), Enforces(e, r))
    BY DEF Waits
  <2> QED
    BY <2>1, DeadlineIs
<1>7. f.result = m.result /\ f.attempt = m.attempt /\ f.ref = m.ref
  BY <1>5, <1>6 DEF Waits
<1>8. \/ f.state = "running" /\ f.error \in {"other", "rejected", ""}
      \/ /\ f.state \in {"blocked", "unavailable"} /\ ~Retry(p)
         /\ f.error \in {"other", "rejected", "", "timeout"}
  BY <1>3, <1>5, <1>6 DEF Waits
<1>9. Fine(p, f)
  <2>1. m.state # "complete" /\ f.state \notin {"complete", "queued"} /\ f.error # "owner"
    BY <1>3, <1>8
  <2> QED
    BY <1>3, <1>7, <1>8, <2>1, StillSound DEF Fine
<1>10. Storing(p, f)
  <2>1. Hold(With(mem, p, f))
    BY <1>1, <1>4, <1>6 DEF PollWaits
  <2> QED
    BY <1>1, <1>3, <1>7, <2>1, Holding DEF Inv
<1>11. CASE Leave
  BY <1>1, <1>2, <1>3, <1>7, <1>9, <1>10, <1>11, Leaving
<1>12. CASE Retry(p) /\ at' = p /\ pc' = "decide"
  <2>1. f.state # "complete"
    BY <1>8
  <2> QED
    BY <1>1, <1>2, <1>3, <1>7, <1>9, <1>10, <1>12, <2>1, ComesToDecide
<1> QED
  BY <1>11, <1>12 DEF PollWaits

LEMMA AwaitLocalSteps ==
    ASSUME CampaignAssumption, Inv, NEW p \in Providers, AwaitLocal(p) \/ ToDecide(p) PROVE Inv'
<1>1. PICK m \in Entries : m = mem.prov[p]
  BY EntriesOf DEF Inv
<1>2. Open(p) /\ Visited(p) /\ UNCHANGED records /\ Stay
  BY DEF AwaitLocal, ToDecide
<1>3. /\ p \in todo /\ p \notin todo' /\ todo' \subseteq todo /\ Waiting(p) /\ cmd # Idle
      /\ cmd.retry \in {None, p} /\ m.state # "complete" /\ Fine(p, m)
  BY <1>1, <1>2, InTodo DEF Open, Visiting, Frozen, Inv, EntryInv
<1>4. Storing(p, m)
  BY <1>1, <1>2, Same DEF Inv
<1>5. CASE Leave
  BY <1>1, <1>2, <1>3, <1>4, <1>5, Leaving
<1>6. CASE at' = p /\ pc' = "decide"
  <2>1. m.state = "running" => Retry(p)
    BY <1>1, <1>6 DEF AwaitLocal, ToDecide, Leave
  <2>2. p \in Devin => ~DevinPolls(m)
    BY <1>1 DEF AwaitLocal, ToDecide, CampaignAssumption
  <2>3. disk'.prov[p] = m
    BY <1>1, <1>2, <1>3 DEF records, Inv, EntryInv
  <2> QED
    BY <1>1, <1>2, <1>3, <1>4, <1>6, <2>1, <2>2, <2>3, ComesToDecide
<1> QED
  BY <1>5, <1>6 DEF AwaitLocal, ToDecide
-----------------------------------------------------------------------------
(* Decisions.                                                              *)

\* What a command knows of the provider it is at, with its copy m of the entry.
LEMMA Standing ==
    ASSUME CampaignAssumption, Inv, at # None
    PROVE  /\ at \in Providers /\ Entry = mem.prov[at] /\ Entry \in Entries
           /\ Sound(at, Entry, survived[at], dispatched[at], asked[at])
           /\ Entry.state # "complete" /\ Entry.attempt = disk.prov[at].attempt
           /\ cmd # Idle /\ at \notin todo /\ cmd.retry \in {None, at}
<1>1. at \in Providers
  BY DEF Inv, TypeOK
<1>2. Entry \in Entries /\ Entry = mem.prov[at]
  BY <1>1, EntriesOf DEF Entry, Inv
<1>3. /\ Sound(at, Entry, survived[at], dispatched[at], asked[at])
      /\ Entry.attempt = disk.prov[at].attempt
  BY <1>1, <1>2 DEF Inv, EntryInv, Fine
<1>4. Entry.state # "complete" /\ cmd # Idle /\ at \notin todo /\ cmd.retry \in {None, at}
  BY DEF Inv, PlaceInv
<1> QED
  BY <1>1, <1>2, <1>3, <1>4

LEMMA AtDecision ==
    ASSUME CampaignAssumption, Inv, pc = "decide"
    PROVE  /\ at # None /\ Waiting(at)
           /\ Entry.state = "running" => Retry(at)
BY DEF Inv, PlaceInv, Waiting

LEMMA PreviewSteps ==
    ASSUME CampaignAssumption, Inv, Preview PROVE Inv'
<1>1. pc = "decide" /\ ~Keeps(Entry) /\ ~cmd.apply
  BY DEF Preview, Deciding
<1>2. PICK p \in Providers : p = at
  BY <1>1, Standing, AtDecision
<1>3. PICK m \in Entries : m = Entry
  BY <1>1, Standing, AtDecision
<1>4. /\ Sound(p, m, survived[p], dispatched[p], asked[p]) /\ m.state # "complete"
      /\ m = mem.prov[p] /\ cmd # Idle /\ p \notin todo /\ cmd.retry \in {None, p}
  BY <1>1, <1>2, <1>3, Standing, AtDecision
<1>5. /\ m.state = "running" => Retry(p)
      /\ ~(Retry(p) /\ Attempted(m)) /\ ~(Attempted(m) /\ m.state \in {"blocked", "unavailable"})
  BY <1>1, <1>2, <1>3, AtDecision DEF Keeps
<1>6. m.state \in ProviderStates /\ m.error \in Errors
  BY DEF Entries
<1>7. ~Attempted(m)
  BY <1>4, <1>5, <1>6 DEF Sound, ProviderStates
<1>8. Leave /\ todo' = todo /\ Stay
  BY DEF Preview
<1>9. CASE Hold(With(mem, at, [Entry EXCEPT !.state = "queued", !.error = ""]))
  <2> DEFINE e == Moved(m, "queued", "")
  <2>1. "queued" \in ProviderStates /\ "" \in Errors
    BY DEF ProviderStates, Errors
  <2>2. /\ e \in Entries /\ e.state = "queued" /\ e.error = "" /\ e.result = m.result
        /\ e.attempt = m.attempt /\ e.ref = m.ref
    BY <2>1, Moving
  <2>3. Hold(With(mem, p, e))
    BY <1>2, <1>3, <1>9 DEF Moved
  <2> HIDE DEF e
  <2>4. Fine(p, e)
    BY <1>4, <1>7, <2>2 DEF Fine, Sound, Attempted
  <2>5. Storing(p, e)
    BY <1>4, <2>2, <2>3, Holding DEF Inv
  <2> QED
    BY <1>4, <1>8, <2>2, <2>4, <2>5, Leaving
<1>10. ASSUME NEW er \in {Entry.error, "other"},
              Hold(With(mem, at, [Entry EXCEPT !.state = "unavailable", !.error = er]))
       PROVE  Inv'
  <2> DEFINE e == Moved(m, "unavailable", er)
  <2>1. "unavailable" \in ProviderStates /\ er \in Errors /\ er \in {m.error, "other"}
    BY <1>3, <1>6 DEF ProviderStates, Errors
  <2>2. /\ e \in Entries /\ e.state = "unavailable" /\ e.error = er /\ e.result = m.result
        /\ e.attempt = m.attempt /\ e.ref = m.ref
    BY <2>1, Moving
  <2>3. Hold(With(mem, p, e))
    BY <1>2, <1>3, <1>10 DEF Moved
  <2> HIDE DEF e
  <2>4. Fine(p, e)
    <3>1. e.error = "owner" => Attempted(m)
      BY <1>4, <2>1, <2>2 DEF Sound
    <3> QED
      BY <1>4, <2>2, <3>1, StillSound DEF Fine
  <2>5. Storing(p, e)
    BY <1>4, <2>2, <2>3, Holding DEF Inv
  <2> QED
    BY <1>4, <1>8, <2>2, <2>4, <2>5, Leaving
<1> QED
  BY <1>9, <1>10 DEF Preview

LEMMA UnmetSteps ==
    ASSUME CampaignAssumption, Inv, Unmet PROVE Inv'
<1>1. pc = "decide"
  BY DEF Unmet, Dispatches, Deciding
<1>2. PICK p \in Providers : p = at
  BY <1>1, Standing, AtDecision
<1>3. PICK m \in Entries : m = Entry
  BY <1>1, Standing, AtDecision
<1>4. /\ Sound(p, m, survived[p], dispatched[p], asked[p]) /\ m.state # "complete"
      /\ m = mem.prov[p] /\ cmd # Idle /\ p \notin todo /\ cmd.retry \in {None, p}
  BY <1>1, <1>2, <1>3, Standing, AtDecision
<1>5. Leave /\ todo' = todo /\ Stay
  BY DEF Unmet
<1> DEFINE s == IF p \in Hosted /\ m.state = "running" THEN "running" ELSE "unavailable"
           e == Moved(m, s, "other")
<1>6. s \in ProviderStates /\ "other" \in Errors
  BY DEF ProviderStates, Errors
<1>7. /\ s \in {"running", "unavailable"} /\ (s = "running" => m.state = "running")
  OBVIOUS
<1>8. Hold(With(mem, p, e)) \/ Save(With(mem, p, e))
  BY <1>2, <1>3 DEF Unmet, Moved
<1> HIDE DEF s
<1>9. /\ e \in Entries /\ e.state = s /\ e.error = "other" /\ e.result = m.result
      /\ e.attempt = m.attempt /\ e.ref = m.ref
  BY <1>6, Moving
<1> HIDE DEF e
<1>10. Fine(p, e)
  <2>1. e.state = "running" \/ e.error = "owner" => Attempted(m)
    BY <1>4, <1>7, <1>9 DEF Sound
  <2>2. e.state \notin {"complete", "queued"} /\ (e.state = "running" => e.error # "timeout")
    BY <1>7, <1>9
  <2> QED
    BY <1>4, <1>9, <2>1, <2>2, StillSound DEF Fine
<1>11. Storing(p, e)
  BY <1>4, <1>7, <1>8, <1>9, Holding, Saving DEF Inv
<1> QED
  BY <1>4, <1>5, <1>9, <1>10, <1>11, Leaving

\* Whatever is dispatched may be.
LEMMA Allowed ==
    ASSUME CampaignAssumption, Inv, Dispatches
    PROVE  /\ at # None /\ cmd # Idle /\ Waiting(at)
           /\ Entry.attempt <= asked[at] /\ Entry.attempt < MaxAttempts
<1>1. pc = "decide" /\ ~Keeps(Entry) /\ cmd.apply /\ cmd # Idle
  BY DEF Dispatches, Deciding
<1>2. at # None /\ at \in Providers /\ Entry = mem.prov[at] /\ Entry \in Entries /\ Waiting(at)
  BY <1>1, Standing, AtDecision
<1>3. asked[at] \in Nat /\ asked[at] <= Retries /\ Entry.attempt \in Nat /\ Retries \in Nat
  BY <1>2 DEF Inv, TypeOK, AskInv, Entries, CampaignAssumption
<1>4. Retry(at) \/ Entry.attempt = 0
  BY <1>1, <1>3 DEF Keeps, Attempted
<1>5. Entry.attempt <= asked[at]
  BY <1>1, <1>2, <1>3, <1>4 DEF Inv, AskInv
<1> QED
  BY <1>1, <1>2, <1>3, <1>5 DEF MaxAttempts
-----------------------------------------------------------------------------
(* Attempts.                                                               *)

\* The entry of an attempt that begins.
Begins(e, m) ==
    /\ e.state = "running" /\ e.error = "" /\ e.result = NoResult
    /\ e.attempt = m.attempt + 1 /\ e.ref = "open"

LEMMA Beginning ==
    ASSUME CampaignAssumption, NEW p, NEW m \in Entries, NEW sv, NEW ds, NEW ak \in Nat,
           m.attempt <= ak, m.attempt < MaxAttempts,
           NEW t \in BOOLEAN, NEW d \in {"none", "ahead", "past"},
           NEW e \in {NextAttempt(m), Timed(NextAttempt(m), t, d)}
    PROVE  e \in Entries /\ Begins(e, m) /\ Sound(p, e, sv, ds, ak)
<1>1. PICK a \in Entries : a = NextAttempt(m) /\ Begins(a, m)
  BY Attempting DEF Begins, CampaignAssumption
<1>2. e \in Entries /\ Begins(e, m)
  <2>1. CASE e = a
    BY <1>1, <2>1
  <2>2. CASE e = Timed(a, t, d)
    <3>1. /\ e \in Entries /\ e.state = a.state /\ e.error = a.error /\ e.result = a.result
          /\ e.attempt = a.attempt /\ e.ref = a.ref
      BY <2>2, Timing
    <3> QED
      BY <1>1, <3>1 DEF Begins
  <2> QED
    BY <1>1, <2>1, <2>2
<1>3. m.attempt \in Nat
  BY DEF Entries
<1>4. e.attempt > 0 /\ e.attempt <= ak + 1
  <2>1. e.attempt = m.attempt + 1
    BY <1>2 DEF Begins
  <2> QED
    BY <1>3, <2>1
<1>5. e.result.outcome = "none" /\ e.result.of = 0
  <2>1. e.result = NoResult
    BY <1>2 DEF Begins
  <2> QED
    BY <2>1 DEF NoResult
<1> QED
  BY <1>2, <1>4, <1>5 DEF Begins, Sound, Attempted

\* Nothing has left the machine for an attempt that has not begun.
LEMMA Unsent ==
    ASSUME Inv, NEW p \in Providers, NEW n \in Attempts, n > disk.prov[p].attempt
    PROVE  /\ dispatched[p][n] = 0 /\ started[p][n] = 0 /\ session[p][n].life = "none"
           /\ n \notin adapter[p]
<1>1. disk.prov[p].attempt \in Nat /\ n \in Nat
  BY EntriesOf DEF Inv, Attempts
<1>3. dispatched[p][n] \in Nat /\ started[p][n] \in Nat
  BY DEF Inv, TypeOK
<1>2. ~Effects(p, n) /\ started[p][n] <= dispatched[p][n]
  BY <1>1 DEF Inv, OncePerAttempt
<1>4. ~(dispatched[p][n] > 0) /\ session[p][n].life = "none" /\ n \notin adapter[p]
  BY <1>2 DEF Effects
<1>5. dispatched[p][n] = 0
  BY <1>3, <1>4
<1>6. started[p][n] = 0
  BY <1>2, <1>3, <1>5
<1> QED
  BY <1>4, <1>5, <1>6

LEMMA BegunCounts ==
    ASSUME Inv, NEW p \in Providers, NEW e \in Entries, Storing(p, e), disk' = mem',
           e.attempt = mem.prov[p].attempt + 1
    PROVE  /\ \A q \in Providers : disk.prov[q].attempt <= disk'.prov[q].attempt
           /\ \A q \in Providers \ {p} : mem'.prov[q].attempt = mem.prov[q].attempt
           /\ mem'.prov[p] = e /\ disk'.prov[p] = e
<1>1. \A q \in Providers : /\ mem'.prov[q] = IF q = p THEN e ELSE mem.prov[q]
                           /\ mem.prov[q].attempt = disk.prov[q].attempt
                           /\ disk.prov[q].attempt \in Nat
  BY EntriesOf DEF Storing, Inv, TypeOK, Records, EntryInv
<1>2. \A n \in Nat : n <= n + 1 /\ n <= n
  OBVIOUS
<1>3. \A q \in Providers \ {p} : mem'.prov[q] = mem.prov[q]
  BY <1>1
<1> QED
  BY <1>1, <1>2, <1>3

LEMMA CheckpointHostedSteps ==
    ASSUME CampaignAssumption, Inv, CheckpointHosted \/ CheckpointDevin PROVE Inv'
<1>1. Dispatches /\ todo' = todo /\ Stay /\ at' = at /\ at # None
  BY Allowed DEF CheckpointHosted, CheckpointDevin, Goto
<1>2. PICK p \in Providers : p = at
  BY <1>1, Standing
<1>3. PICK m \in Entries : m = Entry
  BY <1>1, Standing
<1>4. /\ m = mem.prov[p] /\ cmd # Idle /\ p \notin todo /\ cmd.retry \in {None, p}
      /\ m.attempt = disk.prov[p].attempt
      /\ m.attempt <= asked[p] /\ m.attempt < MaxAttempts /\ asked[p] \in Nat
  BY <1>1, <1>2, <1>3, Standing, Allowed, EntriesOf DEF Inv
<1>5. PICK t \in BOOLEAN, d \in {"none", "ahead"} :
         Save(With(mem, p, [NextAttempt(m) EXCEPT !.triggered = t, !.deadline = d]))
  BY <1>2, <1>3 DEF CheckpointHosted, CheckpointDevin
<1> DEFINE e == Timed(NextAttempt(m), t, d)
<1>6. Save(With(mem, p, e))
  BY <1>5 DEF Timed
<1>7. e \in Entries /\ Begins(e, m) /\ Sound(p, e, survived[p], dispatched[p], asked[p])
  BY <1>4, Beginning
<1> HIDE DEF e
<1>8. Storing(p, e) /\ disk' = mem'
  BY <1>6, <1>7, Saving DEF Inv, Save
<1>9. \/ p \in Hosted /\ pc' = "post"
      \/ p \in Devin /\ pc' = "tag"
  BY <1>2 DEF CheckpointHosted, CheckpointDevin, Goto
<1>10. p \notin Local
  BY <1>9 DEF CampaignAssumption
<1>11. EntryInv' /\ AskInv' /\ HeadlineIsHonest' /\ (mem'.dry => disk'.dry)
  BY <1>1, <1>2, <1>4, <1>7, <1>8, <1>9, Edited DEF Stay, local, github
<1>12. /\ \A q \in Providers : disk.prov[q].attempt <= disk'.prov[q].attempt
       /\ \A q \in Providers \ {p} : mem'.prov[q].attempt = mem.prov[q].attempt
       /\ mem'.prov[p] = e
  BY <1>4, <1>7, <1>8, BegunCounts DEF Begins
<1>13. OncePerAttempt' /\ FileInv'
  BY <1>1, <1>8, <1>10, <1>12, Untouched DEF Stay, Storing, Providers
<1>14. TypeOK'
  BY <1>1, <1>2, <1>8, <1>9, TypesKept DEF Inv, Storing, Places
<1>15. PlaceInv'
  <2>1. e.attempt = m.attempt + 1 /\ e.state = "running"
    BY <1>7 DEF Begins
  <2>5. m.attempt \in Nat
    BY DEF Entries
  <2>2. e.attempt \in Attempts /\ e.attempt > disk.prov[p].attempt /\ e.attempt > 0
    BY <1>4, <1>7, <2>1, <2>5 DEF Entries, Attempts
  <2>3. dispatched[p][e.attempt] = 0
    BY <2>2, Unsent
  <2>4. p # None
    BY DEF CampaignAssumption
  <2> QED
    BY <1>1, <1>2, <1>4, <1>9, <1>12, <2>1, <2>2, <2>3, <2>4
    DEF PlaceInv, LocalSteps, HostedSteps, DevinSteps, Begun, Entry, Stay, github, Attempted, Idle
<1> QED
  BY <1>11, <1>13, <1>14, <1>15 DEF Inv

LEMMA DispatchLocalSteps ==
    ASSUME CampaignAssumption, Inv, DispatchLocal PROVE Inv'
<1>1. /\ Dispatches /\ at # None /\ at \in Local /\ file' = Unlinked(at) /\ at' = at /\ pc' = "run"
      /\ UNCHANGED <<records, cmd, todo, adapter, survived, github, session, asked>>
  BY Allowed DEF DispatchLocal, Goto
<1>2. PICK p \in Providers : p = at
  BY <1>1, Standing
<1>3. PICK m \in Entries : m = mem.prov[p]
  BY EntriesOf DEF Inv
<1>4. /\ Sound(p, m, survived[p], dispatched[p], asked[p]) /\ m.state # "complete" /\ Waiting(p)
      /\ cmd # Idle /\ p \notin todo /\ cmd.retry \in {None, p} /\ m.attempt <= asked[p] /\ p # None
  BY <1>1, <1>2, <1>3, Standing, Allowed DEF Entry
<1>5. Storing(p, m)
  BY <1>1, <1>3, Same DEF Inv
<1>6. EntryInv' /\ AskInv' /\ HeadlineIsHonest' /\ (mem'.dry => disk'.dry)
  BY <1>1, <1>2, <1>3, <1>4, <1>5, Edited DEF github
<1>7. file' = [file EXCEPT ![p] = NoResult]
  BY <1>1, <1>2 DEF Unlinked
<1>8. TypeOK'
  BY <1>1, <1>7 DEF Inv, TypeOK, records, github
<1>9. PlaceInv'
  BY <1>1, <1>2, <1>3, <1>4
  DEF PlaceInv, LocalSteps, HostedSteps, DevinSteps, Begun, Entry, records, Idle
<1>10. OncePerAttempt'
  BY <1>1 DEF Inv, OncePerAttempt, Effects, records, github
<1>11. FileInv'
  BY <1>1, <1>7 DEF Inv, TypeOK, FileInv, records
<1> QED
  BY <1>6, <1>8, <1>9, <1>10, <1>11 DEF Inv

LEMMA CheckpointLocalSteps ==
    ASSUME CampaignAssumption, Inv, CheckpointLocal PROVE Inv'
<1>1. /\ pc = "run" /\ cmd # Idle /\ at' = at /\ pc' = "adapter" /\ todo' = todo /\ cmd' = cmd
      /\ at # None /\ at \in Local /\ Entry.attempt <= asked[at]
      /\ UNCHANGED <<cmd, todo, survived, github, session, asked>>
  BY DEF CheckpointLocal, Goto, Inv, PlaceInv, LocalSteps
<1>2. PICK p \in Providers : p = at
  BY <1>1, Standing
<1>3. PICK m \in Entries : m = Entry
  BY <1>1, Standing
<1>4. /\ m = mem.prov[p] /\ p \notin todo /\ cmd.retry \in {None, p} /\ m.attempt = disk.prov[p].attempt
      /\ m.attempt <= asked[p] /\ m.attempt < MaxAttempts /\ asked[p] \in Nat /\ m.attempt \in Nat
      /\ p # None
  <2>1. asked[p] <= Retries /\ asked[p] \in Nat /\ m.attempt \in Nat /\ Retries \in Nat
    BY EntriesOf DEF Inv, AskInv, Entries, CampaignAssumption
  <2>2. m.attempt <= asked[p]
    BY <1>1, <1>2, <1>3
  <2> QED
    BY <1>1, <1>2, <1>3, <2>1, <2>2, Standing DEF MaxAttempts
<1> DEFINE e == NextAttempt(m)
<1>5. Save(With(mem, p, e)) /\ adapter' = [adapter EXCEPT ![p] = @ \cup {m.attempt + 1}]
      /\ file' = [file EXCEPT ![p] = NoResult]
  BY <1>2, <1>3 DEF CheckpointLocal, Unlinked
<1>6. e \in Entries /\ Begins(e, m) /\ Sound(p, e, survived[p], dispatched[p], asked[p])
  BY <1>4, Beginning
<1> HIDE DEF e
<1>7. Storing(p, e) /\ disk' = mem'
  BY <1>5, <1>6, Saving DEF Inv, Save
<1>8. EntryInv' /\ AskInv' /\ HeadlineIsHonest' /\ (mem'.dry => disk'.dry)
  BY <1>1, <1>2, <1>4, <1>6, <1>7, Edited DEF github
<1>9. /\ \A q \in Providers : disk.prov[q].attempt <= disk'.prov[q].attempt
      /\ \A q \in Providers \ {p} : mem'.prov[q].attempt = mem.prov[q].attempt
      /\ mem'.prov[p] = e /\ disk'.prov[p] = e /\ e.attempt = m.attempt + 1 /\ e.state = "running"
  BY <1>4, <1>6, <1>7, BegunCounts DEF Begins
<1>10. e.attempt \in Attempts /\ e.attempt > 0
  BY <1>4, <1>6, <1>9 DEF Entries, Attempts
<1>11. TypeOK'
  <2>1. adapter' \in [Providers -> SUBSET Attempts]
    BY <1>5, <1>9, <1>10 DEF Inv, TypeOK
  <2> QED
    BY <1>1, <1>5, <1>7, <2>1 DEF Inv, TypeOK, Storing, github
<1>12. PlaceInv'
  BY <1>1, <1>2, <1>4, <1>9, <1>10
  DEF Inv, PlaceInv, LocalSteps, HostedSteps, DevinSteps, Begun, Entry, Attempted, Idle
<1>13. OncePerAttempt'
  <2> SUFFICES ASSUME NEW q \in Providers, NEW n \in Attempts
               PROVE  /\ Effects(q, n)' => n <= disk'.prov[q].attempt
                      /\ dispatched'[q][n] <= 1 /\ started'[q][n] <= dispatched'[q][n]
    BY DEF OncePerAttempt
  <2>1. dispatched'[q][n] <= 1 /\ started'[q][n] <= dispatched'[q][n]
    BY <1>1 DEF Inv, OncePerAttempt, github
  <2>2. disk.prov[q].attempt <= disk'.prov[q].attempt /\ disk.prov[q].attempt \in Nat
        /\ disk'.prov[q].attempt \in Nat /\ n \in Nat
    BY <1>7, <1>9, EntriesOf DEF Inv, Storing, Records, Entries, Attempts
  <2>3. Effects(q, n) => n <= disk.prov[q].attempt
    BY DEF Inv, OncePerAttempt
  <2>4. Effects(q, n)' => Effects(q, n) \/ (q = p /\ n = m.attempt + 1)
    BY <1>1, <1>5 DEF Effects, Inv, TypeOK, github
  <2>5. q = p /\ n = m.attempt + 1 => n <= disk'.prov[q].attempt
    BY <1>9, <2>2
  <2> QED
    BY <2>1, <2>2, <2>3, <2>4, <2>5
<1>14. FileInv'
  BY <1>1, <1>2, <1>5, <1>9 DEF Inv, TypeOK, FileInv
<1> QED
  BY <1>8, <1>11, <1>12, <1>13, <1>14 DEF Inv
-----------------------------------------------------------------------------
(* What leaves the machine, and what comes of it.                          *)

\* What a command knows of the attempt it is making, whose entry is m.
Making(p, m) ==
    /\ p \in Providers /\ m \in Entries /\ p = at /\ m = Entry /\ m = mem.prov[p] /\ p # None
    /\ Sound(p, m, survived[p], dispatched[p], asked[p])
    /\ m.state = "running" /\ Attempted(m) /\ m.attempt \in Attempts
    /\ m.attempt = disk.prov[p].attempt
    /\ cmd # Idle /\ p \notin todo /\ cmd.retry \in {None, p}

LEMMA IsMaking ==
    ASSUME CampaignAssumption, Inv, pc \in Begun
    PROVE  \E p \in Providers, m \in Entries : Making(p, m)
<1>1. at # None /\ Entry.state = "running" /\ Attempted(Entry)
  BY DEF Inv, PlaceInv, Begun, HostedSteps, DevinSteps
<1>2. Making(at, Entry)
  BY <1>1, Standing DEF Making, Attempted, Attempts, Entries
<1> QED
  BY <1>1, <1>2, Standing

\* A step that changes neither the record's attempts nor what is out there.
LEMMA Settles ==
    ASSUME CampaignAssumption, Inv, NEW p, NEW m, Making(p, m),
           NEW e \in Entries, Storing(p, e), e.attempt = m.attempt,
           Sound(p, e, survived[p], dispatched[p], asked[p]), Leave, todo' = todo, Stay
    PROVE  Inv'
<1>1. p \in Providers /\ e.attempt = mem.prov[p].attempt /\ Fine(p, e) /\ p \notin todo'
      /\ cmd # Idle /\ cmd.retry \in {None, p}
  BY DEF Making, Fine
<1> QED
  BY <1>1, Leaving

LEMMA SettlingSteps ==
    ASSUME CampaignAssumption, Inv, PayloadInvalid \/ SaveSession PROVE Inv'
<1>1. pc \in Begun /\ pc \in DevinSteps /\ Leave /\ todo' = todo /\ Stay
  BY DEF PayloadInvalid, SaveSession, Begun, DevinSteps
<1>2. PICK p \in Providers, m \in Entries : Making(p, m)
  BY <1>1, IsMaking
<1>3. p \notin Hosted
  BY <1>1, <1>2 DEF Inv, PlaceInv, Making, CampaignAssumption
<1>4. CASE PayloadInvalid
  <2> DEFINE e == Moved(m, "unavailable", "other")
  <2>1. "unavailable" \in ProviderStates /\ "other" \in Errors
    BY DEF ProviderStates, Errors
  <2>2. /\ e \in Entries /\ e.state = "unavailable" /\ e.error = "other" /\ e.result = m.result
        /\ e.attempt = m.attempt /\ e.ref = m.ref
    BY <2>1, Moving
  <2>3. Save(With(mem, p, e))
    BY <1>2, <1>4 DEF PayloadInvalid, Making, Moved
  <2> HIDE DEF e
  <2>4. Sound(p, e, survived[p], dispatched[p], asked[p])
    BY <1>2, <2>2, StillSound DEF Making
  <2> QED
    BY <1>1, <1>2, <2>2, <2>3, <2>4, Saving, Settles DEF Inv
<1>5. CASE SaveSession
  <2>1. "" \in Errors
    BY DEF Errors
  <2>2. PICK e : e = [m EXCEPT !.ref = "known", !.error = ""]
    OBVIOUS
  <2>3. e \in Entries
    BY <2>1, <2>2 DEF Entries
  <2>4. /\ e.state = m.state /\ e.error = "" /\ e.result = m.result /\ e.attempt = m.attempt
    BY <2>2 DEF Entries
  <2>5. Save(With(mem, p, e))
    BY <1>2, <1>5, <2>2 DEF SaveSession, Making
  <2>6. m.state = "running" /\ Attempted(m) /\ Sound(p, m, survived[p], dispatched[p], asked[p])
    BY <1>2 DEF Making
  <2>7. Sound(p, e, survived[p], dispatched[p], asked[p])
    BY <1>3, <2>3, <2>4, <2>6, StillSound
  <2> QED
    BY <1>1, <1>2, <2>3, <2>4, <2>5, <2>7, Saving, Settles DEF Inv
<1> QED
  BY <1>4, <1>5

LEMMA ConfirmSteps ==
    ASSUME CampaignAssumption, Inv, ConfirmDispatch \/ TagSession PROVE Inv'
<1>1. pc \in Begun /\ pc \in {"posted", "tag"} /\ todo' = todo /\ Stay
  BY DEF ConfirmDispatch, TagSession, Begun, HostedSteps, DevinSteps
<1>2. PICK p \in Providers, m \in Entries : Making(p, m)
  BY <1>1, IsMaking
<1>3. PICK f \in {"known", "tagged"} :
         /\ Save(With(mem, p, [m EXCEPT !.ref = f]))
         /\ f = "known" => /\ pc = "posted" /\ p \in Hosted
                           /\ dispatched[p][m.attempt] > 0 /\ started[p][m.attempt] = 0
                           /\ Leave \/ (at' = p /\ pc' = "trigger")
         /\ f = "tagged" => pc = "tag" /\ p \in Devin /\ at' = p /\ pc' = "create"
  BY <1>2 DEF ConfirmDispatch, TagSession, Making, Goto, Inv, PlaceInv, HostedSteps, DevinSteps
<1> DEFINE e == Known(m, f)
<1>4. Save(With(mem, p, e))
  BY <1>3 DEF Known
<1>5. /\ e \in Entries /\ e.state = m.state /\ e.error = m.error /\ e.result = m.result
      /\ e.attempt = m.attempt /\ e.ref = f
  BY Knowing
<1> HIDE DEF e
<1>6. Storing(p, e)
  BY <1>4, <1>5, Saving DEF Inv
<1>7. m.state = "running" /\ Attempted(m) /\ Sound(p, m, survived[p], dispatched[p], asked[p])
  BY <1>2 DEF Making
<1>8. Sound(p, e, survived[p], dispatched[p], asked[p])
  <2>1. e.state = "running" => e.error # "timeout"
    BY <1>5, <1>7 DEF Sound
  <2> QED
    BY <1>3, <1>5, <1>7, <2>1, StillSound
<1>9. CASE Leave
  BY <1>1, <1>2, <1>5, <1>6, <1>8, <1>9, Settles
<1>10. CASE at' = p /\ (\/ f = "known" /\ pc' = "trigger"
                        \/ f = "tagged" /\ pc' = "create")
  <2>1. /\ mem'.prov[p] = e /\ p # None /\ cmd # Idle /\ p \notin todo
        /\ cmd.retry \in {None, p} /\ m = mem.prov[p]
    BY <1>2, <1>6 DEF Storing, Making, Inv, TypeOK, Records
  <2>2. PlaceInv'
    BY <1>1, <1>3, <1>5, <1>7, <1>10, <2>1
    DEF PlaceInv, LocalSteps, HostedSteps, DevinSteps, Begun, Entry, Stay, github, Attempted, Idle
  <2>3. pc' \in Places \ {"decide", "run"} /\ Fine(p, e)
    BY <1>8, <1>10 DEF Places, Fine
  <2> QED
    BY <1>1, <1>5, <1>6, <1>10, <2>1, <2>2, <2>3, GoesOn
<1> QED
  BY <1>3, <1>9, <1>10

\* An adapter ends, and what it left is taken for the attempt.
LEMMA AdapterEnds ==
    ASSUME CampaignAssumption, Inv, NEW p, NEW m, Making(p, m), p \in Local,
           NEW e \in Entries, Storing(p, e), e.attempt = m.attempt,
           Sound(p, e, survived[p], dispatched[p], asked[p]), Leave,
           file' \in [Providers -> Results \cup {NoResult}],
           file'[p] # NoResult => file'[p].of \in {0, m.attempt} \cup survived[p],
           \A q \in Providers \ {p} : file'[q] = file[q],
           adapter' = [adapter EXCEPT ![p] = @ \ {m.attempt}],
           UNCHANGED <<cmd, todo, survived, github, session, asked>>
    PROVE  Inv'
<1>1. p \in Providers /\ e.attempt = mem.prov[p].attempt /\ p \notin todo /\ p # None
      /\ cmd # Idle /\ cmd.retry \in {None, p}
  BY DEF Making
<1>2. at' = None /\ pc' = "visit" /\ None \notin Providers
  BY DEF Leave, CampaignAssumption
<1>3. EntryInv' /\ AskInv' /\ HeadlineIsHonest' /\ (mem'.dry => disk'.dry)
  BY <1>1, <1>2, Edited DEF github
<1>4. TypeOK'
  <2>1. adapter' \in [Providers -> SUBSET Attempts]
    BY DEF Inv, TypeOK
  <2> QED
    BY <1>2, <2>1 DEF Inv, TypeOK, Storing, github
<1>5. PlaceInv'
  BY <1>1, LeftPlace
<1>6. \A q \in Providers : /\ mem'.prov[q].attempt = mem.prov[q].attempt
                           /\ disk'.prov[q].attempt = disk.prov[q].attempt
  BY <1>1, Retold
<1>7. OncePerAttempt'
  <2> SUFFICES ASSUME NEW q \in Providers, NEW n \in Attempts
               PROVE  /\ Effects(q, n)' => n <= disk'.prov[q].attempt
                      /\ dispatched'[q][n] <= 1 /\ started'[q][n] <= dispatched'[q][n]
    BY DEF OncePerAttempt
  <2>1. Effects(q, n)' => Effects(q, n)
    BY DEF Effects, github, Inv, TypeOK
  <2> QED
    BY <1>6, <2>1 DEF Inv, OncePerAttempt, github
<1>8. FileInv'
  <2>1. p \in Local /\ mem'.prov[p].attempt = m.attempt /\ survived' = survived
    BY <1>1, <1>6 DEF Making
  <2> SUFFICES ASSUME NEW q \in Providers
               PROVE  /\ file'[q] # NoResult => file'[q].of \in {0, mem'.prov[q].attempt} \cup survived'[q]
                      /\ q \notin Local => file'[q] = NoResult /\ adapter'[q] = {}
    BY DEF FileInv
  <2>2. CASE q = p
    BY <2>1, <2>2
  <2>3. CASE q # p
    <3>1. file'[q] = file[q] /\ mem'.prov[q].attempt = mem.prov[q].attempt
      BY <1>6, <2>3
    <3>2. adapter'[q] = adapter[q]
      BY <2>3 DEF Inv, TypeOK
    <3> QED
      BY <2>1, <3>1, <3>2 DEF Inv, FileInv
  <2> QED
    BY <2>2, <2>3
<1> QED
  BY <1>3, <1>4, <1>5, <1>7, <1>8 DEF Inv

LEMMA AdapterSteps ==
    ASSUME CampaignAssumption, Inv, AdapterReturns \/ AdapterFails PROVE Inv'
<1>1. pc \in Begun /\ pc = "adapter" /\ Leave /\ at # None
      /\ UNCHANGED <<cmd, todo, survived, github, session, asked>>
      /\ adapter' = [adapter EXCEPT ![at] = @ \ {Entry.attempt}]
  BY DEF AdapterReturns, AdapterFails, Begun, Inv, PlaceInv
<1>2. PICK p \in Providers, m \in Entries : Making(p, m)
  BY <1>1, IsMaking
<1>3. /\ p \in Local /\ p \notin Hosted /\ p = at /\ m = Entry /\ m = mem.prov[p]
      /\ m.attempt \in 0..MaxAttempts /\ m.state = "running" /\ Attempted(m)
      /\ Sound(p, m, survived[p], dispatched[p], asked[p])
  BY <1>1, <1>2 DEF Inv, PlaceInv, LocalSteps, Making, CampaignAssumption, Entries
<1>4. adapter' = [adapter EXCEPT ![p] = @ \ {m.attempt}]
  BY <1>1, <1>3
<1>5. ASSUME NEW r \in Results, r.of \in {0, m.attempt} \cup survived[p],
             Hold(With(mem, p, Accept(m, r))), file' = [file EXCEPT ![p] = r] \/ file' = file
      PROVE  Inv'
  <2> DEFINE e == Accept(m, r)
  <2>1. /\ e \in Entries /\ e.result = r /\ e.error = "" /\ e.state \in {"complete", "blocked"}
        /\ e.state = "complete" <=> r.outcome = "pass"
        /\ e.attempt = m.attempt /\ e.ref = m.ref
    BY Accepting
  <2>2. Hold(With(mem, p, e))
    BY <1>5
  <2> HIDE DEF e
  <2>3. Sound(p, e, survived[p], dispatched[p], asked[p])
    BY <1>3, <1>5, <2>1 DEF Sound, Attempted
  <2>4. Storing(p, e)
    BY <1>3, <2>1, <2>2, Holding DEF Inv
  <2>5. /\ file' \in [Providers -> Results \cup {NoResult}]
        /\ file'[p] # NoResult => file'[p].of \in {0, m.attempt} \cup survived[p]
        /\ \A q \in Providers \ {p} : file'[q] = file[q]
    BY ZenonT(30), <1>3, <1>5 DEF Inv, TypeOK, FileInv
  <2> QED
    BY <1>1, <1>2, <1>3, <1>4, <2>1, <2>3, <2>4, <2>5, AdapterEnds
<1>6. CASE AdapterReturns
  <2>1. ASSUME NEW o \in Outcomes, file' = [file EXCEPT ![at] = [outcome |-> o, of |-> Entry.attempt]],
               Hold(With(mem, at, Accept(Entry, file'[at])))
        PROVE  Inv'
    <3> DEFINE r == [outcome |-> o, of |-> m.attempt]
    <3>1. r \in Results /\ r.of = m.attempt
      BY <1>3 DEF Results
    <3>2. file' = [file EXCEPT ![p] = r]
      BY <1>3, <2>1
    <3> HIDE DEF r
    <3>3. file'[p] = r
      BY <3>2 DEF Inv, TypeOK
    <3>4. Hold(With(mem, p, Accept(m, r)))
      BY <1>3, <2>1, <3>3
    <3> QED
      BY <1>5, <3>1, <3>2, <3>4
  <2>2. ASSUME file' = file, file[at] # NoResult, Hold(With(mem, at, Accept(Entry, file[at])))
        PROVE  Inv'
    <3>1. PICK r \in Results : r = file[p]
      BY <1>3, <2>2 DEF Inv, TypeOK
    <3>2. r.of \in {0, m.attempt} \cup survived[p]
      BY <1>3, <2>2, <3>1 DEF Inv, FileInv
    <3> QED
      BY <1>3, <1>5, <2>2, <3>1, <3>2
  <2> QED
    BY <1>6, <2>1, <2>2 DEF AdapterReturns
<1>7. CASE AdapterFails
  <2>1. PICK s \in {"blocked", "unavailable"} :
           Hold(With(mem, at, [Entry EXCEPT !.state = s, !.error = "other"]))
    BY <1>7 DEF AdapterFails
  <2> DEFINE e == Moved(m, s, "other")
  <2>2. s \in ProviderStates /\ "other" \in Errors
    BY DEF ProviderStates, Errors
  <2>3. /\ e \in Entries /\ e.state = s /\ e.error = "other" /\ e.result = m.result
        /\ e.attempt = m.attempt /\ e.ref = m.ref
    BY <2>2, Moving
  <2>4. Hold(With(mem, p, e))
    BY <1>3, <2>1 DEF Moved
  <2> HIDE DEF e
  <2>5. Sound(p, e, survived[p], dispatched[p], asked[p])
    BY <1>3, <2>3, StillSound
  <2>6. Storing(p, e)
    BY <1>3, <2>3, <2>4, Holding DEF Inv
  <2>7. /\ file' \in [Providers -> Results \cup {NoResult}]
        /\ file'[p] # NoResult => file'[p].of \in {0, m.attempt} \cup survived[p]
        /\ \A q \in Providers \ {p} : file'[q] = file[q]
    BY <1>3, <1>7 DEF Inv, TypeOK, FileInv, AdapterFails
  <2> QED
    BY <1>1, <1>2, <1>3, <1>4, <2>3, <2>5, <2>6, <2>7, AdapterEnds
<1> QED
  BY <1>6, <1>7

\* A request that is counted: a dispatch, a trigger or a session.
LEMMA Requested ==
    ASSUME CampaignAssumption, Inv, NEW p, NEW m, Making(p, m), p \notin Local,
           NEW e \in Entries, Storing(p, e), e.attempt = m.attempt,
           Sound(p, e, survived[p], dispatched'[p], asked[p]),
           TypeOK', PlaceInv', at' \in {None, p}, pc' \notin {"decide", "run"},
           \A q \in Providers, n \in Attempts :
               /\ q # p \/ n # m.attempt =>
                    /\ dispatched'[q][n] = dispatched[q][n] /\ started'[q][n] = started[q][n]
                    /\ session'[q][n] = session[q][n]
               /\ dispatched[q][n] > 0 => dispatched'[q][n] > 0,
           dispatched'[p][m.attempt] <= 1, started'[p][m.attempt] <= dispatched'[p][m.attempt],
           UNCHANGED <<cmd, todo, local, asked>>
    PROVE  Inv'
<1>1. p \in Providers /\ e.attempt = mem.prov[p].attempt /\ p \notin todo /\ p # None
      /\ cmd # Idle /\ cmd.retry \in {None, p} /\ m.attempt = disk.prov[p].attempt
  BY DEF Making
<1>2. EntryInv' /\ AskInv' /\ HeadlineIsHonest' /\ (mem'.dry => disk'.dry)
  BY <1>1, Edited DEF local
<1>3. \A q \in Providers : /\ mem'.prov[q].attempt = mem.prov[q].attempt
                           /\ disk'.prov[q].attempt = disk.prov[q].attempt
                           /\ disk.prov[q].attempt <= disk'.prov[q].attempt
  BY <1>1, Retold
<1>4. OncePerAttempt'
  <2> SUFFICES ASSUME NEW q \in Providers, NEW n \in Attempts
               PROVE  /\ Effects(q, n)' => n <= disk'.prov[q].attempt
                      /\ dispatched'[q][n] <= 1 /\ started'[q][n] <= dispatched'[q][n]
    BY DEF OncePerAttempt
  <2>1. CASE q = p /\ n = m.attempt
    BY <1>1, <1>3, <2>1
  <2>2. CASE q # p \/ n # m.attempt
    <3>1. Effects(q, n)' <=> Effects(q, n)
      BY <2>2 DEF Effects, local
    <3> QED
      BY <1>3, <2>2, <3>1 DEF Inv, OncePerAttempt
  <2> QED
    BY <2>1, <2>2
<1>5. FileInv'
  BY <1>3 DEF Inv, FileInv, local
<1> QED
  BY <1>2, <1>4, <1>5 DEF Inv

Posted(f, g, p, a) ==
    /\ g \in [Providers -> [Attempts -> Nat]]
    /\ g = Posts(f, p, a) => g[p][a] = f[p][a] + 1
    /\ \A q \in Providers, n \in Attempts : q # p \/ n # a => g[q][n] = f[q][n]

LEMMA Posting ==
    ASSUME NEW f \in [Providers -> [Attempts -> Nat]], NEW p \in Providers, NEW a \in Attempts,
           NEW g, g = Posts(f, p, a) \/ g = f
    PROVE  Posted(f, g, p, a)
<1>1. CASE g = f
  <2>1. g = Posts(f, p, a) => g[p][a] = f[p][a] + 1
    BY DEF Posts
  <2> QED
    BY <1>1, <2>1 DEF Posted
<1>2. CASE g = Posts(f, p, a)
  BY <1>2 DEF Posts, Posted
<1> QED
  BY <1>1, <1>2

LEMMA PostDispatchSteps ==
    ASSUME CampaignAssumption, Inv, PostDispatch PROVE Inv'
<1>1. pc \in Begun /\ pc = "post" /\ UNCHANGED <<cmd, todo, local, started, answer, misfit, session, asked>>
  BY DEF PostDispatch, Begun, HostedSteps
<1>2. PICK p \in Providers, m \in Entries : Making(p, m)
  BY <1>1, IsMaking
<1>3. /\ p \in Hosted /\ p \notin Local /\ p \notin Devin /\ p = at /\ m = Entry /\ m = mem.prov[p]
      /\ m.attempt \in Attempts /\ m.state = "running" /\ Attempted(m)
      /\ Sound(p, m, survived[p], dispatched[p], asked[p]) /\ dispatched[p][m.attempt] = 0
      /\ cmd # Idle /\ p \notin todo /\ cmd.retry \in {None, p} /\ p # None
  BY <1>1, <1>2 DEF Inv, PlaceInv, HostedSteps, Making, CampaignAssumption
<1>4. dispatched' = Posts(dispatched, p, m.attempt) \/ dispatched' = dispatched
  BY <1>3 DEF PostDispatch
<1>5. /\ dispatched' \in [Providers -> [Attempts -> Nat]]
      /\ dispatched' = Posts(dispatched, p, m.attempt) => dispatched'[p][m.attempt] = 1
      /\ \A q \in Providers, n \in Attempts :
             q # p \/ n # m.attempt => dispatched'[q][n] = dispatched[q][n]
  <2>1. dispatched \in [Providers -> [Attempts -> Nat]] /\ p \in Providers
    BY DEF Inv, TypeOK
  <2>2. Posted(dispatched, dispatched', p, m.attempt)
    BY <1>3, <1>4, <2>1, Posting
  <2> QED
    BY <1>3, <2>2 DEF Posted
<1>6. /\ dispatched'[p][m.attempt] \in {0, 1} /\ started'[p][m.attempt] = 0
      /\ \A q \in Providers, n \in Attempts : dispatched[q][n] > 0 => dispatched'[q][n] > 0
  <2>1. dispatched'[p][m.attempt] \in {0, 1}
    BY <1>3, <1>4, <1>5
  <2>2. started[p][m.attempt] \in Nat /\ started[p][m.attempt] <= dispatched[p][m.attempt]
    BY <1>3 DEF Inv, TypeOK, OncePerAttempt
  <2>3. started'[p][m.attempt] = 0
    BY <1>1, <1>3, <2>2
  <2> QED
    BY <1>3, <1>5, <2>1, <2>3
<1>7. dispatched'[p][m.attempt] <= 1 /\ started'[p][m.attempt] <= dispatched'[p][m.attempt]
  BY <1>6
<1>8. \A q \in Providers, n \in Attempts :
          q # p \/ n # m.attempt =>
              /\ dispatched'[q][n] = dispatched[q][n] /\ started'[q][n] = started[q][n]
              /\ session'[q][n] = session[q][n]
  BY <1>1, <1>5
<1>9. ASSUME NEW x \in Entries, Sound(p, x, survived[p], dispatched[p], asked[p])
      PROVE  Sound(p, x, survived'[p], dispatched'[p], asked[p])
  BY <1>1, <1>6, <1>9, SoundGrows, EntriesOf DEF Inv, local
<1>10. CASE /\ dispatched' = Posts(dispatched, p, m.attempt)
            /\ at' = p /\ pc' = "posted" /\ UNCHANGED records
  <2>1. Storing(p, m)
    BY <1>3, <1>10, Same DEF Inv
  <2>2. TypeOK'
    BY <1>1, <1>5, <1>10 DEF Inv, TypeOK, records, local
  <2>3. PlaceInv'
    BY <1>1, <1>3, <1>5, <1>6, <1>10
    DEF PlaceInv, LocalSteps, HostedSteps, DevinSteps, Begun, Entry, records, Idle
  <2>4. Sound(p, m, survived[p], dispatched'[p], asked[p])
    BY <1>1, <1>3, <1>9 DEF local
  <2>5. at' \in {None, p} /\ pc' \notin {"decide", "run"}
    BY <1>10
  <2> QED
    BY <1>1, <1>2, <1>3, <1>6, <1>7, <1>8, <2>1, <2>2, <2>3, <2>4, <2>5, Requested
<1>11. CASE /\ Leave
            /\ Hold(With(mem, p, [m EXCEPT !.state = "unavailable", !.error = "other", !.deadline = "none"]))
  <2>1. PICK e : e = [m EXCEPT !.state = "unavailable", !.error = "other", !.deadline = "none"]
    OBVIOUS
  <2>2. "unavailable" \in ProviderStates /\ "other" \in Errors
    BY DEF ProviderStates, Errors
  <2>3. e \in Entries
    BY <2>1, <2>2 DEF Entries
  <2>4. /\ e.state = "unavailable" /\ e.error = "other" /\ e.result = m.result
        /\ e.attempt = m.attempt /\ e.ref = m.ref
    BY <2>1 DEF Entries
  <2>5. Sound(p, e, survived[p], dispatched[p], asked[p])
    BY <1>3, <2>3, <2>4, StillSound
  <2>6. Storing(p, e)
    BY <1>3, <1>11, <2>1, <2>3, <2>4, Holding DEF Inv
  <2>7. at' = None /\ pc' = "visit"
    BY <1>11 DEF Leave
  <2>8. TypeOK'
    BY <1>1, <1>5, <2>6, <2>7 DEF Inv, TypeOK, Storing, local
  <2>9. PlaceInv'
    BY <1>1, <1>3, <1>11, LeftPlace
  <2>10. Sound(p, e, survived[p], dispatched'[p], asked[p])
    BY <1>1, <1>9, <2>3, <2>5 DEF local
  <2> QED
    BY <1>1, <1>2, <1>3, <1>6, <1>7, <1>8, <2>3, <2>4, <2>6, <2>7, <2>8, <2>9, <2>10, Requested
<1> QED
  BY <1>3, <1>10, <1>11 DEF PostDispatch, Goto

LEMMA PostTriggerSteps ==
    ASSUME CampaignAssumption, Inv, PostTrigger PROVE Inv'
<1>1. /\ pc \in Begun /\ pc \in {"trigger", "retrigger"} /\ Leave /\ at' = None /\ pc' = "visit"
      /\ UNCHANGED <<cmd, todo, local, dispatched, answer, misfit, session, asked>>
  BY DEF PostTrigger, Begun, HostedSteps, Leave
<1>2. PICK p \in Providers, m \in Entries : Making(p, m)
  BY <1>1, IsMaking
<1>3. /\ p \in Hosted /\ p \notin Local /\ p \notin Devin /\ p = at /\ m = Entry /\ m = mem.prov[p]
      /\ m.attempt \in Attempts /\ m.state = "running" /\ Attempted(m)
      /\ Sound(p, m, survived[p], dispatched[p], asked[p]) /\ cmd # Idle
      /\ dispatched[p][m.attempt] > 0 /\ started[p][m.attempt] = 0
  BY <1>1, <1>2 DEF Inv, PlaceInv, HostedSteps, Making, CampaignAssumption
<1>4. PICK c : /\ started' = Posts(started, p, m.attempt) \/ started' = started
               /\ \/ c = With(mem, p, [m EXCEPT !.triggered = TRUE, !.deadline = "ahead"])
                  \/ c = mem
               /\ Save(c) \/ Hold(c)
  BY <1>3 DEF PostTrigger
<1>5. /\ started' \in [Providers -> [Attempts -> Nat]]
      /\ started'[p][m.attempt] \in {0, 1}
      /\ \A q \in Providers, n \in Attempts :
             q # p \/ n # m.attempt => started'[q][n] = started[q][n]
  <2>1. started \in [Providers -> [Attempts -> Nat]] /\ p \in Providers
    BY DEF Inv, TypeOK
  <2>2. Posted(started, started', p, m.attempt)
    BY <1>3, <1>4, <2>1, Posting
  <2> QED
    BY <1>3, <1>4, <2>2 DEF Posted
<1>6. dispatched'[p][m.attempt] <= 1 /\ started'[p][m.attempt] <= dispatched'[p][m.attempt]
  <2>1. dispatched[p][m.attempt] \in Nat /\ dispatched[p][m.attempt] <= 1
    BY <1>3 DEF Inv, TypeOK, OncePerAttempt
  <2> QED
    BY <1>1, <1>3, <1>5, <2>1
<1>7. PICK e \in Entries : /\ c = With(mem, p, e)
                           /\ e.state = m.state /\ e.error = m.error /\ e.result = m.result
                           /\ e.attempt = m.attempt /\ e.ref = m.ref
  <2>1. CASE c = With(mem, p, [m EXCEPT !.triggered = TRUE, !.deadline = "ahead"])
    BY <2>1, Timing DEF Timed
  <2>2. CASE c = mem
    <3>1. mem = With(mem, p, m)
      BY <1>3 DEF With, Inv, TypeOK, Records
    <3> QED
      BY <2>2, <3>1
  <2> QED
    BY <1>4, <2>1, <2>2
<1>8. Sound(p, e, survived[p], dispatched'[p], asked[p])
  BY <1>1, <1>3, <1>7 DEF Sound, Attempted
<1>9. Storing(p, e)
  BY <1>3, <1>4, <1>7, Holding, Saving DEF Inv
<1>10. TypeOK'
  BY <1>1, <1>5, <1>9 DEF Inv, TypeOK, Storing, local
<1>11. PlaceInv'
  BY <1>1, <1>3, LeftPlace
<1>12. \A q \in Providers, n \in Attempts :
          /\ q # p \/ n # m.attempt =>
               /\ dispatched'[q][n] = dispatched[q][n] /\ started'[q][n] = started[q][n]
               /\ session'[q][n] = session[q][n]
          /\ dispatched[q][n] > 0 => dispatched'[q][n] > 0
  BY <1>1, <1>5
<1> QED
  BY <1>1, <1>2, <1>3, <1>6, <1>7, <1>8, <1>9, <1>10, <1>11, <1>12, Requested

LEMMA CreateSessionSteps ==
    ASSUME CampaignAssumption, Inv, CreateSession PROVE Inv'
<1>1. /\ pc \in Begun /\ pc = "create" /\ UNCHANGED <<cmd, todo, local, github, asked>>
  BY DEF CreateSession, Begun, DevinSteps
<1>2. PICK p \in Providers, m \in Entries : Making(p, m)
  BY <1>1, IsMaking
<1>3. /\ p \in Devin /\ p \notin Hosted /\ p \notin Local /\ p = at /\ m = Entry /\ m = mem.prov[p]
      /\ m.attempt \in Attempts /\ m.state = "running" /\ Attempted(m)
      /\ Sound(p, m, survived[p], dispatched[p], asked[p])
      /\ cmd # Idle /\ p \notin todo /\ cmd.retry \in {None, p} /\ p # None
  BY <1>1, <1>2 DEF Inv, PlaceInv, DevinSteps, Making, CampaignAssumption
<1>4. session' = session \/ session' = NewSession(p, m.attempt)
  BY <1>3 DEF CreateSession
<1>5. /\ session' \in [Providers -> [Attempts -> [life: Lives, output: Outcomes \cup {"none", "odd"}]]]
      /\ \A q \in Providers, n \in Attempts :
             q # p \/ n # m.attempt => session'[q][n] = session[q][n]
  <2>1. session \in [Providers -> [Attempts -> [life: Lives, output: Outcomes \cup {"none", "odd"}]]]
    BY DEF Inv, TypeOK
  <2>2. "active" \in Lives
    BY DEF Lives
  <2>7. PICK t \in [life: Lives, output: Outcomes \cup {"none", "odd"}] : t = session[p][m.attempt]
    BY <1>3, <2>1
  <2>3. PICK s \in [life: Lives, output: Outcomes \cup {"none", "odd"}] :
           s = [session[p][m.attempt] EXCEPT !.life = "active"]
    <3>1. [t EXCEPT !.life = "active"] \in [life: Lives, output: Outcomes \cup {"none", "odd"}]
      BY <2>2
    <3> QED
      BY <2>7, <3>1
  <2>4. NewSession(p, m.attempt) = [session EXCEPT ![p] = [session[p] EXCEPT ![m.attempt] = s]]
    BY <1>3, <2>1, <2>3 DEF NewSession
  <2>5. NewSession(p, m.attempt) \in
            [Providers -> [Attempts -> [life: Lives, output: Outcomes \cup {"none", "odd"}]]]
    BY <1>3, <2>1, <2>4
  <2>6. \A q \in Providers, n \in Attempts :
            q # p \/ n # m.attempt => NewSession(p, m.attempt)[q][n] = session[q][n]
    BY <1>3, <2>1, <2>4
  <2> QED
    BY <1>4, <2>1, <2>5, <2>6
<1>6. dispatched'[p][m.attempt] <= 1 /\ started'[p][m.attempt] <= dispatched'[p][m.attempt]
  BY <1>1, <1>3 DEF Inv, OncePerAttempt, github
<1>7. \A q \in Providers, n \in Attempts :
          /\ q # p \/ n # m.attempt =>
               /\ dispatched'[q][n] = dispatched[q][n] /\ started'[q][n] = started[q][n]
               /\ session'[q][n] = session[q][n]
          /\ dispatched[q][n] > 0 => dispatched'[q][n] > 0
  BY <1>1, <1>5 DEF github
<1>8. CASE at' = p /\ pc' = "created" /\ UNCHANGED records
  <2>1. Storing(p, m)
    BY <1>3, <1>8, Same DEF Inv
  <2>2. TypeOK'
    BY <1>1, <1>5, <1>8 DEF Inv, TypeOK, records, local, github
  <2>3. PlaceInv'
    BY <1>1, <1>3, <1>8
    DEF PlaceInv, LocalSteps, HostedSteps, DevinSteps, Begun, Entry, records, Idle
  <2>4. Sound(p, m, survived[p], dispatched'[p], asked[p])
    BY <1>1, <1>3 DEF github
  <2>5. at' \in {None, p} /\ pc' \notin {"decide", "run"}
    BY <1>8
  <2> QED
    BY <1>1, <1>2, <1>3, <1>6, <1>7, <2>1, <2>2, <2>3, <2>4, <2>5, Requested
<1>9. ASSUME NEW st \in {"unavailable", "running"}, Leave,
             Save(With(mem, p, [m EXCEPT !.state = st, !.error = "other"]))
      PROVE  Inv'
  <2> DEFINE e == Moved(m, st, "other")
  <2>1. st \in ProviderStates /\ "other" \in Errors
    BY DEF ProviderStates, Errors
  <2>2. /\ e \in Entries /\ e.state = st /\ e.error = "other" /\ e.result = m.result
        /\ e.attempt = m.attempt /\ e.ref = m.ref
    BY <2>1, Moving
  <2>3. Save(With(mem, p, e))
    BY <1>9 DEF Moved
  <2> HIDE DEF e
  <2>4. Sound(p, e, survived[p], dispatched'[p], asked[p])
    BY <1>1, <1>3, <2>2, StillSound DEF github
  <2>5. Storing(p, e)
    BY <2>2, <2>3, Saving DEF Inv
  <2>6. at' = None /\ pc' = "visit"
    BY <1>9 DEF Leave
  <2>7. TypeOK'
    BY <1>1, <1>5, <2>5, <2>6 DEF Inv, TypeOK, Storing, local, github
  <2>8. PlaceInv'
    BY <1>1, <1>3, <1>9, LeftPlace
  <2> QED
    BY <1>1, <1>2, <1>3, <1>6, <1>7, <2>2, <2>4, <2>5, <2>6, <2>7, <2>8, Requested
<1> QED
  BY <1>3, <1>8, <1>9 DEF CreateSession, Goto
-----------------------------------------------------------------------------
(* Between commands, and the world beside them.                            *)

LEMMA WhenIdle ==
    ASSUME Inv, cmd = Idle
    PROVE  at = None /\ todo = {} /\ pc = "visit" /\ cmd.retry = None /\ ~cmd.apply
BY DEF Inv, PlaceInv, Idle

\* One entry of the record is written where no command is.
LEMMA Rewriting ==
    ASSUME CampaignAssumption, Inv, cmd = Idle, NEW p \in Providers, NEW e \in Entries,
           disk' \in Records, mem' = disk', disk'.prov = [disk.prov EXCEPT ![p] = e],
           Fine(p, e), e.attempt = disk.prov[p].attempt, HeadlineIsHonest',
           UNCHANGED <<control, local, github, session, asked>>
    PROVE  Inv'
<1>1. /\ \A q \in Providers : disk'.prov[q] = IF q = p THEN e ELSE disk.prov[q]
      /\ \A q \in Providers : mem.prov[q].attempt = disk.prov[q].attempt
      /\ \A q \in Providers : disk.prov[q].attempt \in Nat
  BY EntriesOf DEF Inv, TypeOK, Records, EntryInv
<1>2. \A q \in Providers : /\ disk'.prov[q].attempt = disk.prov[q].attempt
                           /\ mem'.prov[q].attempt = mem.prov[q].attempt
                           /\ disk.prov[q].attempt <= disk'.prov[q].attempt
  <2>1. \A q \in Providers : disk'.prov[q].attempt = disk.prov[q].attempt
    BY <1>1
  <2>2. \A n \in Nat : n <= n
    OBVIOUS
  <2> QED
    BY <1>1, <2>1, <2>2
<1>3. TypeOK'
  BY DEF Inv, TypeOK, control, local, github
<1>4. EntryInv'
  BY <1>1 DEF Inv, EntryInv, Fine, control, local, github
<1>5. AskInv' /\ PlaceInv'
  BY WhenIdle DEF Inv, AskInv, PlaceInv, LocalSteps, HostedSteps, DevinSteps, Begun, control
<1>6. OncePerAttempt' /\ FileInv'
  BY <1>2, Untouched DEF Providers
<1> QED
  BY <1>3, <1>4, <1>5, <1>6 DEF Inv

LEMMA OwnerSteps ==
    ASSUME CampaignAssumption, Inv, NEW p \in Providers, RecordResult(p) \/ Dispose(p) PROVE Inv'
<1>1. PICK d \in Entries : d = disk.prov[p]
  BY EntriesOf DEF Inv
<1>2. Sound(p, d, survived[p], dispatched[p], asked[p]) /\ cmd = Idle
      /\ UNCHANGED <<control, local, github, session, asked>>
  BY <1>1 DEF Inv, EntryInv, Fine, RecordResult, Dispose
<1>3. ASSUME NEW e \in Entries, Save(With(disk, p, e)), e.attempt = d.attempt, Fine(p, e)
      PROVE  Inv'
  <2> DEFINE c == With(disk, p, e)
  <2>1. c \in Records /\ c.prov = [disk.prov EXCEPT ![p] = e]
    BY Edit DEF Inv, TypeOK
  <2>2. mem' = Headed(c) /\ disk' = Headed(c)
    BY <1>3 DEF Save
  <2> HIDE DEF c
  <2>3. /\ disk' \in Records /\ mem' = disk' /\ disk'.prov = [disk.prov EXCEPT ![p] = e]
        /\ disk'.status = Aggregate(StateOf(disk'.prov), Informational, disk'.dry)
    BY <2>1, <2>2, Heading
  <2>4. HeadlineIsHonest'
    BY <2>3 DEF HeadlineIsHonest
  <2> QED
    BY <1>1, <1>2, <1>3, <2>3, <2>4, Rewriting
<1>4. CASE RecordResult(p)
  <2>1. PICK o \in Outcomes : Save(With(disk, p, Recorded(disk.prov[p], [outcome |-> o, of |-> 0])))
    BY <1>4 DEF RecordResult
  <2> DEFINE r == [outcome |-> o, of |-> 0]
  <2>2. r \in Results /\ r.of = 0
    BY DEF Results, CampaignAssumption, MaxAttempts
  <2> HIDE DEF r
  <2>3. Save(With(disk, p, Recorded(d, r)))
    BY <1>1, <2>1 DEF r
  <2>4. CASE d.result = r
    BY <1>2, <1>3, <2>3, <2>4 DEF Recorded, Fine
  <2>5. CASE d.result # r
    <3> DEFINE e == Accept(d, r)
    <3>1. /\ e \in Entries /\ e.result = r /\ e.error = "" /\ e.state \in {"complete", "blocked"}
          /\ e.state = "complete" <=> r.outcome = "pass"
          /\ e.attempt = d.attempt /\ e.ref = d.ref
      BY <2>2, Accepting
    <3>2. Save(With(disk, p, e))
      BY <2>3, <2>5 DEF Recorded
    <3> HIDE DEF e
    <3>3. Fine(p, e)
      BY <1>2, <2>2, <3>1 DEF Fine, Sound, Attempted
    <3> QED
      BY <1>3, <3>1, <3>2, <3>3
  <2> QED
    BY <2>4, <2>5
<1>5. CASE Dispose(p)
  <2>1. /\ Save(With(disk, p, [d EXCEPT !.state = "unavailable", !.error = "disposed", !.deadline = "none"]))
        /\ d.state = "running"
    BY <1>1, <1>5 DEF Dispose, Disposable
  <2>2. PICK e : e = [d EXCEPT !.state = "unavailable", !.error = "disposed", !.deadline = "none"]
    OBVIOUS
  <2>3. "unavailable" \in ProviderStates /\ "disposed" \in Errors
    BY DEF ProviderStates, Errors
  <2>4. e \in Entries
    BY <2>2, <2>3 DEF Entries
  <2>5. /\ e.state = "unavailable" /\ e.error = "disposed" /\ e.result = d.result
        /\ e.attempt = d.attempt /\ e.ref = d.ref
    BY <2>2 DEF Entries
  <2>6. Fine(p, e)
    BY <1>2, <2>1, <2>4, <2>5, StillSound DEF Fine
  <2> QED
    BY <1>3, <2>1, <2>2, <2>4, <2>5, <2>6
<1> QED
  BY <1>4, <1>5

LEMMA ExpireSteps ==
    ASSUME CampaignAssumption, Inv, NEW p \in Providers, Expire(p) PROVE Inv'
<1>1. PICK d \in Entries : d = disk.prov[p]
  BY EntriesOf DEF Inv
<1>2. /\ disk' = [disk EXCEPT !.prov = [disk.prov EXCEPT ![p] = [disk.prov[p] EXCEPT !.deadline = "past"]]]
      /\ mem' = disk' /\ cmd = Idle /\ UNCHANGED <<control, local, github, session, asked>>
  BY DEF Expire
<1>3. PICK e : e = [d EXCEPT !.deadline = "past"]
  OBVIOUS
<1>4. e \in Entries
  BY <1>3 DEF Entries
<1>5. /\ e.state = d.state /\ e.error = d.error /\ e.result = d.result
      /\ e.attempt = d.attempt /\ e.ref = d.ref
  BY <1>3 DEF Entries
<1>6. disk' = With(disk, p, e)
  BY <1>1, <1>2, <1>3 DEF With
<1>7. /\ disk' \in Records /\ disk'.prov = [disk.prov EXCEPT ![p] = e] /\ disk'.dry = disk.dry
      /\ disk'.status = disk.status
  BY <1>4, <1>6, Edit DEF Inv, TypeOK, With, Records
<1>8. Fine(p, e)
  BY <1>1, <1>5 DEF Inv, EntryInv, Fine, Sound, Attempted
<1>9. StateOf(disk'.prov) = StateOf(disk.prov)
  BY <1>1, <1>5, <1>7 DEF Inv, TypeOK, Records, StateOf
<1>10. HeadlineIsHonest'
  BY <1>7, <1>9 DEF Inv, HeadlineIsHonest
<1> QED
  BY <1>1, <1>2, <1>4, <1>5, <1>7, <1>8, <1>10, Rewriting

LEMMA AdapterOutlivesSteps ==
    ASSUME CampaignAssumption, Inv, NEW p \in Providers, AdapterOutlives(p) PROVE Inv'
<1>1. PICK n \in survived[p] \cap adapter[p] :
         /\ adapter' = [adapter EXCEPT ![p] = @ \ {n}]
         /\ file' \in {file} \cup {[file EXCEPT ![p] = [outcome |-> o, of |-> n]] : o \in Outcomes}
         /\ UNCHANGED <<records, control, survived, github, session, asked>>
  BY DEF AdapterOutlives
<1>2. n \in Attempts /\ p \in Local /\ n \in survived[p]
  BY DEF Inv, TypeOK, FileInv
<1>3. /\ file' \in [Providers -> Results \cup {NoResult}]
      /\ \A q \in Providers \ {p} : file'[q] = file[q]
      /\ file'[p] = file[p] \/ file'[p].of = n
  <2>1. \A o \in Outcomes : [outcome |-> o, of |-> n] \in Results
    BY <1>2 DEF Results, Attempts
  <2>2. file \in [Providers -> Results \cup {NoResult}]
    BY DEF Inv, TypeOK
  <2>3. CASE file' = file
    BY <2>2, <2>3
  <2>4. CASE file' # file
    <3>1. PICK o \in Outcomes : file' = [file EXCEPT ![p] = [outcome |-> o, of |-> n]]
      BY <1>1, <2>4
    <3>2. PICK r \in Results : r = [outcome |-> o, of |-> n]
      BY <2>1
    <3>3. r.of = n /\ file' = [file EXCEPT ![p] = r]
      BY <3>1, <3>2
    <3> QED
      BY <2>2, <3>3
  <2> QED
    BY <2>3, <2>4
<1>4. TypeOK'
  <2>1. adapter' \in [Providers -> SUBSET Attempts]
    BY <1>1 DEF Inv, TypeOK
  <2> QED
    BY <1>1, <1>3, <2>1 DEF Inv, TypeOK, records, control, github
<1>5. EntryInv' /\ AskInv' /\ PlaceInv' /\ HeadlineIsHonest' /\ (mem'.dry => disk'.dry)
  BY <1>1 DEF Inv, EntryInv, Fine, AskInv, Waiting, Retry, PlaceInv, Entry, HeadlineIsHonest,
              records, control, github
<1>6. \A q \in Providers : adapter'[q] \subseteq adapter[q]
  BY <1>1 DEF Inv, TypeOK
<1>7. OncePerAttempt'
  BY <1>1, <1>6 DEF Inv, OncePerAttempt, Effects, records, github
<1>8. FileInv'
  BY <1>1, <1>2, <1>3, <1>6 DEF Inv, FileInv, records
<1> QED
  BY <1>4, <1>5, <1>7, <1>8 DEF Inv

\* What hosted providers and sessions do leaves the rest alone.
LEMMA Beside ==
    ASSUME Inv, UNCHANGED <<records, control, local, dispatched, started, asked>>, TypeOK',
           \A q \in Providers, n \in Attempts :
               session[q][n].life = "none" => session'[q][n].life = "none"
    PROVE  Inv'
<1>1. EntryInv' /\ AskInv' /\ PlaceInv' /\ HeadlineIsHonest' /\ (mem'.dry => disk'.dry) /\ FileInv'
  BY DEF Inv, EntryInv, Fine, AskInv, Waiting, Retry, PlaceInv, Entry, HeadlineIsHonest,
         FileInv, records, control, local
<1>2. OncePerAttempt'
  BY DEF Inv, OncePerAttempt, Effects, records, local
<1> QED
  BY <1>1, <1>2 DEF Inv

LEMMA AnswerSteps ==
    ASSUME Inv, CampaignAssumption, NEW p \in Providers, Answers(p) \/ Misanswers(p) PROVE Inv'
<1>1. CASE Answers(p)
  <2>1. PICK s \in Surfaces, n \in Attempts, o \in Outcomes :
           /\ answer' = [answer EXCEPT ![p][s] = [outcome |-> o, of |-> n]]
           /\ UNCHANGED <<records, control, local, dispatched, started, misfit, session, asked>>
    BY <1>1 DEF Answers
  <2>2. [outcome |-> o, of |-> n] \in Results
    BY DEF Results, Attempts
  <2>3. answer' \in [Providers -> [Surfaces -> Results \cup {NoResult}]]
    BY <2>1, <2>2 DEF Inv, TypeOK
  <2>4. TypeOK'
    BY <2>1, <2>3 DEF Inv, TypeOK, records, control, local
  <2> QED
    BY <2>1, <2>4, Beside
<1>2. CASE Misanswers(p)
  <2>1. TypeOK'
    BY <1>2 DEF Misanswers, Inv, TypeOK, records, control, local
  <2> QED
    BY <1>2, <2>1, Beside DEF Misanswers
<1> QED
  BY <1>1, <1>2

LEMMA SessionMovesSteps ==
    ASSUME Inv, CampaignAssumption, NEW p \in Providers, SessionMoves(p) PROVE Inv'
<1> DEFINE T == [life: Lives, output: Outcomes \cup {"none", "odd"}]
<1>0. PICK n \in Attempts :
         /\ session[p][n].life # "none"
         /\ \E s \in Moves(session[p][n]) : session' = [session EXCEPT ![p][n] = s]
         /\ UNCHANGED <<records, control, local, github, asked>>
  BY DEF SessionMoves
<1>1. PICK s \in Moves(session[p][n]) : session' = [session EXCEPT ![p][n] = s]
  BY <1>0
<1>2. session \in [Providers -> [Attempts -> T]]
  BY DEF Inv, TypeOK
<1>3. PICK t \in T : t = session[p][n]
  BY <1>2
<1>4. s \in T
  <2>1. \/ \E o \in Outcomes \cup {"odd"} : s = [t EXCEPT !.output = o]
        \/ \E l \in {"active", "owner", "failed", "over"} : s = [t EXCEPT !.life = l]
    BY <1>1, <1>3 DEF Moves
  <2>2. /\ \A o : [t EXCEPT !.output = o] = [life |-> t.life, output |-> o]
        /\ \A l : [t EXCEPT !.life = l] = [life |-> l, output |-> t.output]
        /\ t.life \in Lives /\ t.output \in Outcomes \cup {"none", "odd"}
    OBVIOUS
  <2>3. \/ \E o \in Outcomes \cup {"odd"} : s = [life |-> t.life, output |-> o]
        \/ \E l \in {"active", "owner", "failed", "over"} : s = [life |-> l, output |-> t.output]
    <3> HIDE DEF T
    <3> QED
      BY <2>1, <2>2
  <2>4. \A l \in {"active", "owner", "failed", "over"} : l \in Lives
    BY DEF Lives
  <2> QED
    BY <2>2, <2>3, <2>4
<1>5. /\ session' \in [Providers -> [Attempts -> T]]
      /\ \A q \in Providers, i \in Attempts : q # p \/ i # n => session'[q][i] = session[q][i]
  <2>1. session' = [session EXCEPT ![p] = [session[p] EXCEPT ![n] = s]]
    BY <1>1, <1>2
  <2> HIDE DEF T
  <2> QED
    BY <1>2, <1>4, <2>1
<1>6. \A q \in Providers, i \in Attempts : session[q][i].life = "none" => session'[q][i].life = "none"
  BY <1>0, <1>5
<1>7. TypeOK'
  BY <1>0, <1>5 DEF Inv, TypeOK, records, control, local, github
<1> QED
  BY <1>0, <1>6, <1>7, Beside DEF github

LEMMA BeginSteps ==
    ASSUME CampaignAssumption, Inv, Begin PROVE Inv'
<1>1. PICK c \in Commands :
         /\ cmd = Idle /\ c.kind = "watch" => ~c.apply /\ c.retry = None
         /\ Affordable(c) /\ cmd' = c
         /\ mem' = [disk EXCEPT !.dry = IF c.kind = "watch" THEN disk.dry
                                        ELSE ~(c.apply \/ Applied(disk))]
         /\ asked' = IF Asks(c) THEN [asked EXCEPT ![c.retry] = @ + 1] ELSE asked
         /\ todo' = Providers /\ at' = None /\ pc' = "visit"
         /\ UNCHANGED <<disk, local, github, session>>
  BY DEF Begin
<1>2. c.apply \in BOOLEAN /\ c.retry \in Providers \cup {None}
  BY DEF Commands
<1>3. /\ mem' \in Records /\ mem'.prov = disk.prov /\ (mem'.dry => disk'.dry)
  BY <1>1, <1>2 DEF Inv, TypeOK, Records, Applied
<1>4. /\ asked' \in [Providers -> Nat]
      /\ \A q \in Providers : asked[q] <= asked'[q] /\ asked'[q] <= Retries
      /\ \A q \in Providers : c.apply /\ c.retry = q => asked'[q] = asked[q] + 1
  <2>1. asked \in [Providers -> Nat] /\ Retries \in Nat /\ None \notin Providers
        /\ \A q \in Providers : asked[q] <= Retries
    BY DEF Inv, TypeOK, AskInv, CampaignAssumption
  <2>2. CASE Asks(c)
    <3>1. asked[c.retry] < Retries /\ c.retry \in Providers /\ asked[c.retry] \in Nat
      BY <1>1, <1>2, <2>1, <2>2 DEF Asks, Affordable
    <3>2. asked' = [asked EXCEPT ![c.retry] = asked[c.retry] + 1]
      BY <1>1, <2>2
    <3> QED
      BY <2>1, <3>1, <3>2
  <2>3. CASE ~Asks(c)
    <3>1. asked' = asked
      BY <1>1, <2>3
    <3> QED
      BY <2>1, <2>3, <3>1 DEF Asks
  <2> QED
    BY <2>2, <2>3
<1>5. TypeOK'
  BY <1>1, <1>3, <1>4 DEF Inv, TypeOK, local, github
<1>6. EntryInv'
  <2>1. ASSUME NEW q \in Providers
        PROVE  Sound(q, disk.prov[q], survived[q], dispatched[q], asked'[q])
    <3>1. disk.prov[q] \in Entries /\ asked[q] \in Nat /\ asked'[q] \in Nat /\ asked[q] <= asked'[q]
      BY <1>4, EntriesOf DEF Inv
    <3>2. Sound(q, disk.prov[q], survived[q], dispatched[q], asked[q])
      BY DEF Inv, EntryInv, Fine
    <3> QED
      BY <3>1, <3>2, SoundGrows
  <2> QED
    BY <1>1, <1>3, <2>1 DEF EntryInv, Fine, local, github
<1>7. AskInv'
  <2> SUFFICES ASSUME NEW q \in Providers, c.apply, c.retry = q
               PROVE  disk.prov[q].attempt <= asked'[q]
    BY <1>1, <1>3, <1>4 DEF AskInv, Retry
  <2>1. disk.prov[q].attempt <= asked[q] + 1
    BY DEF Inv, EntryInv, Fine, Sound
  <2> QED
    BY <1>4, <2>1
<1>8. PlaceInv'
  BY <1>1 DEF PlaceInv, LocalSteps, HostedSteps, DevinSteps, Begun, Commands, Idle, CampaignAssumption
<1>9. \A q \in Providers : mem'.prov[q].attempt = mem.prov[q].attempt
  BY <1>3 DEF Inv, EntryInv
<1>10. OncePerAttempt' /\ FileInv' /\ HeadlineIsHonest'
  BY <1>1, <1>9 DEF Inv, OncePerAttempt, Effects, FileInv, HeadlineIsHonest, local, github
<1> QED
  BY <1>3, <1>5, <1>6, <1>7, <1>8, <1>10 DEF Inv

LEMMA FinishSteps ==
    ASSUME CampaignAssumption, Inv, Finish PROVE Inv'
<1>1. /\ cmd' = Idle /\ todo = {} /\ at = None /\ pc = "visit"
      /\ UNCHANGED <<todo, at, pc, local, github, session, asked>>
  BY DEF Finish, Inv, PlaceInv
<1>2. /\ mem' = disk' /\ mem' \in Records /\ mem'.prov = mem.prov /\ HeadlineIsHonest'
  <2>1. CASE Unchanged
    BY <2>1 DEF Finish, Unchanged, records, Inv, TypeOK, HeadlineIsHonest
  <2>2. CASE ~Unchanged
    <3>1. mem' = Headed(mem) /\ disk' = Headed(mem) /\ mem \in Records
      BY <2>2 DEF Finish, Save, Inv, TypeOK
    <3> QED
      BY <3>1, Heading DEF HeadlineIsHonest
  <2> QED
    BY <2>1, <2>2
<1>3. TypeOK'
  BY <1>1, <1>2 DEF Inv, TypeOK, local, github
<1>4. EntryInv'
  BY <1>1, <1>2 DEF Inv, EntryInv, Fine, local, github
<1>5. AskInv' /\ PlaceInv'
  BY <1>1 DEF Inv, AskInv, PlaceInv, LocalSteps, HostedSteps, DevinSteps, Begun, Idle
<1>6. \A q \in Providers : mem'.prov[q].attempt = mem.prov[q].attempt
                           /\ disk'.prov[q].attempt = disk.prov[q].attempt
  BY <1>2 DEF Inv, EntryInv
<1>7. OncePerAttempt' /\ FileInv'
  BY <1>1, <1>6 DEF Inv, OncePerAttempt, Effects, FileInv, local, github
<1> QED
  BY <1>2, <1>3, <1>4, <1>5, <1>7 DEF Inv

LEMMA CrashSteps ==
    ASSUME CampaignAssumption, Inv, Crash PROVE Inv'
<1>1. /\ cmd' = Idle /\ todo' = {} /\ at' = None /\ pc' = "visit" /\ mem' = disk
      /\ UNCHANGED <<disk, file, adapter, github, session, asked>>
  BY DEF Crash
<1>2. /\ survived' \in [Providers -> SUBSET Attempts]
      /\ \A q \in Providers : survived[q] \subseteq survived'[q]
  <2>1. survived \in [Providers -> SUBSET Attempts] /\ adapter \in [Providers -> SUBSET Attempts]
    BY DEF Inv, TypeOK
  <2>2. \/ survived' = survived
        \/ survived' = [survived EXCEPT ![at] = survived[at] \cup adapter[at]]
    BY DEF Crash
  <2> QED
    BY <2>1, <2>2
<1>3. TypeOK'
  BY <1>1, <1>2 DEF Inv, TypeOK, github
<1>4. EntryInv'
  <2>1. ASSUME NEW q \in Providers
        PROVE  Sound(q, disk.prov[q], survived'[q], dispatched[q], asked[q])
    <3>1. disk.prov[q] \in Entries /\ asked[q] \in Nat /\ asked[q] <= asked[q]
      BY EntriesOf DEF Inv
    <3>2. Sound(q, disk.prov[q], survived[q], dispatched[q], asked[q])
      BY DEF Inv, EntryInv, Fine
    <3> QED
      BY <1>2, <3>1, <3>2, SoundGrows
  <2> QED
    BY <1>1, <2>1 DEF EntryInv, Fine, github
<1>5. AskInv' /\ PlaceInv'
  BY <1>1 DEF Inv, AskInv, PlaceInv, LocalSteps, HostedSteps, DevinSteps, Begun, Idle
<1>6. \A q \in Providers : mem'.prov[q].attempt = mem.prov[q].attempt
  BY <1>1 DEF Inv, EntryInv
<1>7. OncePerAttempt' /\ FileInv' /\ HeadlineIsHonest'
  BY <1>1, <1>2, <1>6 DEF Inv, OncePerAttempt, Effects, FileInv, HeadlineIsHonest, github
<1> QED
  BY <1>1, <1>3, <1>4, <1>5, <1>7 DEF Inv
-----------------------------------------------------------------------------
(* The invariant of a campaign.                                            *)

LEMMA CampaignInit ==
    ASSUME CampaignAssumption, Init PROVE Inv
<1>1. /\ "queued" \in ProviderStates /\ "" \in Errors /\ "queued" \in Statuses
      /\ 0 \in 0..MaxAttempts /\ "none" \in Lives
  BY DEF ProviderStates, Errors, Statuses, MaxAttempts, Lives, CampaignAssumption
<1>2. Fresh \in Entries
  BY <1>1 DEF Fresh, Entries
<1>3. PICK c \in Records : c = [prov |-> [p \in Providers |-> Fresh], dry |-> TRUE, status |-> "queued"]
  <2> DEFINE f == [p \in Providers |-> Fresh]
  <2>1. f \in [Providers -> Entries]
    BY <1>2
  <2>2. /\ [prov |-> f, dry |-> TRUE, status |-> "queued"] \in Records
    <3> HIDE DEF f
    <3> QED
      BY <1>1, <2>1 DEF Records
  <2> QED
    BY <2>2
<1>4. /\ disk \in Records /\ mem = disk /\ disk.prov = [p \in Providers |-> Fresh] /\ disk.dry = TRUE
      /\ HeadlineIsHonest
  <2>1. disk = Headed(c) /\ mem = disk
    BY <1>3 DEF Init
  <2>2. c.prov = [p \in Providers |-> Fresh] /\ c.dry = TRUE
    BY <1>3
  <2> QED
    BY <2>1, <2>2, Heading DEF HeadlineIsHonest
<1>5. TypeOK
  <2>1. NoSession \in [life: Lives, output: Outcomes \cup {"none", "odd"}]
    BY <1>1 DEF NoSession
  <2>2. session \in [Providers -> [Attempts -> [life: Lives, output: Outcomes \cup {"none", "odd"}]]]
    BY <2>1 DEF Init
  <2> QED
    BY <1>4, <2>2 DEF Init, TypeOK
<1>6. EntryInv
  <2>1. \A p \in Providers : Sound(p, Fresh, survived[p], dispatched[p], asked[p])
    <3>1. \A p \in Providers : asked[p] = 0
      BY DEF Init
    <3> QED
      BY <3>1 DEF Sound, Fresh, NoResult, Attempted
  <2>2. \A p \in Providers : mem.prov[p] = Fresh /\ disk.prov[p] = Fresh
    BY <1>4
  <2> QED
    BY <2>1, <2>2 DEF EntryInv, Fine, Fresh, Init
<1>7. AskInv /\ PlaceInv
  BY DEF Init, AskInv, Waiting, PlaceInv, LocalSteps, HostedSteps, DevinSteps, Begun, Idle,
         CampaignAssumption
<1>8. OncePerAttempt
  <2>1. \A p \in Providers, n \in Attempts :
          /\ dispatched[p][n] = 0 /\ started[p][n] = 0 /\ session[p][n].life = "none"
          /\ n \notin adapter[p]
    BY DEF Init, NoSession
  <2> QED
    BY <2>1 DEF OncePerAttempt, Effects
<1>9. FileInv
  BY DEF Init, FileInv
<1> QED
  BY <1>4, <1>5, <1>6, <1>7, <1>8, <1>9 DEF Inv

LEMMA CampaignSteps ==
    ASSUME CampaignAssumption, Inv, [Next]_vars PROVE Inv'
<1>1. CASE Begin
  BY <1>1, BeginSteps
<1>2. CASE Finish
  BY <1>2, FinishSteps
<1>3. CASE Crash
  BY <1>3, CrashSteps
<1>4. CASE Visit
  <2>1. PICK p \in Providers : \/ VisitFrozen(p) \/ TakeFile(p) \/ VisitComplete(p)
                               \/ PollDevin(p) \/ Poll(p) \/ AwaitLocal(p) \/ ToDecide(p)
    BY <1>4 DEF Visit
  <2>2. CASE Poll(p)
    BY <2>2, PollFindsSteps, PollReconcilesSteps, PollWaitsSteps DEF Poll
  <2>3. CASE ~Poll(p)
    BY <2>1, <2>3, VisitFrozenSteps, TakeFileSteps, PollDevinSteps, AwaitLocalSteps
  <2> QED
    BY <2>2, <2>3
<1>5. CASE Dispatch
  BY <1>5, DecideKeepSteps, PreviewSteps, UnmetSteps, DispatchLocalSteps, CheckpointLocalSteps,
     AdapterSteps, CheckpointHostedSteps, PostDispatchSteps, ConfirmSteps, PostTriggerSteps,
     SettlingSteps, CreateSessionSteps DEF Dispatch
<1>6. CASE World
  BY <1>6, AdapterOutlivesSteps, AnswerSteps, SessionMovesSteps, ExpireSteps DEF World
<1>7. CASE Owner
  BY <1>7, OwnerSteps DEF Owner
<1>8. CASE UNCHANGED vars
  <2>1. TypeOK' /\ EntryInv' /\ AskInv'
    BY <1>8 DEF Inv, TypeOK, EntryInv, Fine, AskInv, Waiting, Retry, vars
  <2>2. PlaceInv' /\ OncePerAttempt' /\ FileInv' /\ HeadlineIsHonest' /\ (mem'.dry => disk'.dry)
    BY <1>8 DEF Inv, PlaceInv, Entry, Retry, OncePerAttempt, Effects, FileInv, HeadlineIsHonest, vars
  <2> QED
    BY <2>1, <2>2 DEF Inv
<1> QED
  BY <1>1, <1>2, <1>3, <1>4, <1>5, <1>6, <1>7, <1>8 DEF Next

LEMMA CampaignInvariant ==
    ASSUME CampaignAssumption PROVE Spec => []Inv
<1>1. Init => Inv
  BY CampaignInit
<1>2. Inv /\ [Next]_vars => Inv'
  BY CampaignSteps
<1> QED
  BY <1>1, <1>2, PTL DEF Spec

\* The record, the copies of commands and the history keep their types.
THEOREM CampaignTypeOK ==
    ASSUME CampaignAssumption PROVE Spec => []TypeOK
<1>1. Inv => TypeOK
  BY DEF Inv
<1> QED
  BY <1>1, CampaignInvariant, PTL

\* The stored headline is the one the providers give in every file a lock-free reader
\* can see, also after a crash between two saves: every save recomputes it.
THEOREM CampaignHeadlineIsHonest ==
    ASSUME CampaignAssumption PROVE Spec => []HeadlineIsHonest
<1>1. Inv => HeadlineIsHonest
  BY DEF Inv
<1> QED
  BY <1>1, CampaignInvariant, PTL

\* A provider is complete exactly when it holds passing evidence, whatever timed out,
\* was recorded by hand, disposed of or retried since.
THEOREM CampaignCompleteMeansPassed ==
    ASSUME CampaignAssumption PROVE Spec => []CompleteMeansPassed
<1>1. Inv => CompleteMeansPassed
  BY DEF Inv, EntryInv, Fine, Sound, CompleteMeansPassed
<1> QED
  BY <1>1, CampaignInvariant, PTL

\* However often the campaign is resumed, watched, killed or started over, a provider
\* is attempted once, and once more for each applied retry of it.
THEOREM CampaignAttemptsAreAsked ==
    ASSUME CampaignAssumption PROVE Spec => []AttemptsAreAsked
<1>1. Inv => AttemptsAreAsked
  BY DEF Inv, EntryInv, Fine, Sound, AttemptsAreAsked
<1> QED
  BY <1>1, CampaignInvariant, PTL

\* An attempted provider is never left queued, where an ordinary resume would neither
\* poll nor dispatch it, wherever a command was killed.
THEOREM CampaignNeverStranded ==
    ASSUME CampaignAssumption PROVE Spec => []NeverStranded
<1>1. Inv => NeverStranded
  BY DEF Inv, EntryInv, Fine, Sound, NeverStranded
<1> QED
  BY <1>1, CampaignInvariant, PTL

\* What leaves the machine is of an attempt that is saved, one dispatch and one trigger
\* of each, the trigger after the dispatch, also when an answer was lost.
THEOREM CampaignOncePerAttempt ==
    ASSUME CampaignAssumption PROVE Spec => []OncePerAttempt
<1>1. Inv => OncePerAttempt
  BY DEF Inv
<1> QED
  BY <1>1, CampaignInvariant, PTL

\* Evidence of a local adapter or a Devin session is of the attempt in the record,
\* unless an adapter outlived the command that ran it.
THEOREM CampaignEvidenceIsOfThisAttempt ==
    ASSUME CampaignAssumption PROVE Spec => []EvidenceIsOfThisAttempt
<1>1. Inv => EvidenceIsOfThisAttempt
  BY DEF Inv, EntryInv, Fine, Sound, EvidenceIsOfThisAttempt, Providers
<1> QED
  BY <1>1, CampaignInvariant, PTL
-----------------------------------------------------------------------------
(* What a step of a command may write.                                     *)

\* One entry of the copy, that of the provider being retried if one is; what is saved
\* is the copy.  A Devin entry is numbered anew only where its session may be left, and
\* a resume calls a hosted provider late only where no surface has an answer.
Written(q, e) ==
    /\ q \in Providers /\ cmd.retry \in {None, q}
    /\ mem'.prov = [mem.prov EXCEPT ![q] = e]
    /\ disk' = disk \/ (disk'.prov = mem'.prov /\ disk'.dry = mem.dry)
    /\ q \in Devin => \/ e.attempt = mem.prov[q].attempt
                      \/ disk.prov[q] = mem.prov[q] /\ ~DevinPolls(mem.prov[q])
    /\ q \in Hosted /\ e.error = "timeout" =>
          mem.prov[q].error = "timeout" \/ PollOnly \/ ~Answered(q)

WritesOne == UNCHANGED records \/ \E q, e : Written(q, e)

LEMMA HeadedWith ==
    ASSUME NEW r \in Records, NEW q \in Providers, NEW e
    PROVE  /\ With(r, q, e).prov = [r.prov EXCEPT ![q] = e] /\ With(r, q, e).dry = r.dry
           /\ Headed(With(r, q, e)).prov = [r.prov EXCEPT ![q] = e]
           /\ Headed(With(r, q, e)).dry = r.dry
<1> DEFINE x == [r.prov EXCEPT ![q] = e]
           c == With(r, q, e)
           g == Aggregate(StateOf(c.prov), Informational, c.dry)
<1>1. c = [prov |-> x, dry |-> r.dry, status |-> r.status]
  BY DEF With, Records
<1>2. Headed(c) = [c EXCEPT !.status = g]
  BY DEF Headed
<1> HIDE DEF c, g, x
<1>3. Headed(c) = [prov |-> x, dry |-> r.dry, status |-> g]
  BY <1>1, <1>2
<1> QED
  BY <1>1, <1>3 DEF c, x

LEMMA Writing ==
    ASSUME mem \in Records, NEW q \in Providers, NEW e,
           Hold(With(mem, q, e)) \/ Save(With(mem, q, e))
    PROVE  /\ mem'.prov = [mem.prov EXCEPT ![q] = e]
           /\ disk' = disk \/ (disk'.prov = mem'.prov /\ disk'.dry = mem.dry)
BY HeadedWith DEF Hold, Save

\* A step that keeps the attempt and does not call the provider late.
LEMMA WritesEntry ==
    ASSUME Inv, NEW q \in Providers, cmd.retry \in {None, q}, NEW e,
           Hold(With(mem, q, e)) \/ Save(With(mem, q, e)),
           q \in Devin => e.attempt = mem.prov[q].attempt,
           q \in Hosted => e.error # "timeout" \/ e.error = mem.prov[q].error
    PROVE  WritesOne
<1>1. Written(q, e)
  BY Writing DEF Written, Inv, TypeOK
<1> QED
  BY <1>1 DEF WritesOne

\* A read that saw no result and may conclude silence saw every surface.
LEMMA SilenceIsRead ==
    ASSUME CampaignAssumption, Inv, NEW p \in Providers, NEW r \in Reads, Found(p, r) = NoResult,
           ~Unreadable(r), ~PollOnly
    PROVE  ~Answered(p)
<1>1. r.seen = Surfaces
  <2>1. PICK seen \in SUBSET Surfaces : r = Reading(seen)
    BY DEF Reads
  <2>2. r.seen = seen /\ (r.failed <=> seen # Surfaces)
    BY <2>1 DEF Reading
  <2> QED
    BY <2>2 DEF Unreadable
<1>2. ~(Sees(r, Issue) /\ answer[p][Issue] # NoResult)
  BY DEF Found
<1> DEFINE rest == {s \in Surfaces : Sees(r, s) /\ answer[p][s] # NoResult}
<1>3. CASE rest = {}
  BY <1>1, <1>3 DEF Answered, Sees
<1>4. CASE rest # {}
  <2>1. (CHOOSE s \in rest : TRUE) \in rest
    BY <1>4
  <2>2. answer[p][CHOOSE s \in rest : TRUE] # NoResult
    BY <2>1
  <2>3. Found(p, r) = answer[p][CHOOSE s \in rest : TRUE]
    BY <1>2, <1>4 DEF Found
  <2> QED
    BY <2>2, <2>3
<1> QED
  BY <1>3, <1>4

LEMMA VisitWrites ==
    ASSUME CampaignAssumption, Inv, Visit PROVE WritesOne
<1>1. PICK p \in Providers : \/ VisitFrozen(p) \/ TakeFile(p) \/ VisitComplete(p)
                             \/ PollDevin(p) \/ Poll(p) \/ AwaitLocal(p) \/ ToDecide(p)
  BY DEF Visit
<1>2. PICK m \in Entries : m = mem.prov[p]
  BY EntriesOf DEF Inv
<1>3. p \in Hosted => p \notin Devin /\ p \notin Local
  BY DEF CampaignAssumption
<1>4. p \in Devin => p \notin Local
  BY DEF CampaignAssumption
<1>5. CASE VisitFrozen(p) \/ VisitComplete(p) \/ AwaitLocal(p) \/ ToDecide(p)
  BY <1>5 DEF VisitFrozen, VisitComplete, AwaitLocal, ToDecide, WritesOne
<1>6. CASE TakeFile(p)
  <2>1. p \notin Devin /\ p \notin Hosted /\ cmd.retry \in {None, p}
    BY <1>3, <1>4, <1>6 DEF TakeFile, DropIn, Inv, FileInv, Frozen
  <2>2. Hold(With(mem, p, Accept(mem.prov[p], file[p])))
    BY <1>6 DEF TakeFile
  <2> QED
    BY <2>1, <2>2, WritesEntry
<1>7. CASE PollDevin(p)
  <2>1. /\ p \in Devin /\ cmd.retry \in {None, p} /\ DevinPolls(m)
    BY <1>2, <1>7 DEF PollDevin, Open, Frozen
  <2>2. PICK f \in {DevinUnread(m)} \cup DevinReads(p, m) : Save(With(mem, p, f))
    BY <1>2, <1>7 DEF PollDevin
  <2>3. Sound(p, m, survived[p], dispatched[p], asked[p])
    BY <1>2 DEF Inv, EntryInv, Fine
  <2>4. f.attempt = m.attempt
    BY <2>1, <2>3, DevinOutcomes
  <2> QED
    BY <1>2, <1>3, <2>1, <2>2, <2>4, WritesEntry
<1>8. CASE Poll(p)
  <2>1. PICK r \in Reads : PollFinds(p, r) \/ PollReconciles(p, r) \/ PollWaits(p, r)
    BY <1>8 DEF Poll
  <2>2. HostedPolls(p)
    BY <2>1 DEF PollFinds, PollReconciles, PollWaits
  <2>3. p \in Hosted /\ p \notin Devin /\ cmd.retry \in {None, p}
    BY <1>3, <2>2 DEF HostedPolls, Open, Frozen
  <2>4. PICK e \in Entries : e = Marked(p, m, r) /\ Marks(e, m)
    BY MarkedIs
  <2>5. e.error \in {"other", "rejected", ""}
    BY <2>4 DEF Marks
  <2>6. CASE PollFinds(p, r)
    <3>1. Found(p, r) \in Results /\ Hold(With(mem, p, Accept(m, Found(p, r))))
      BY <1>2, <2>6, FoundIs DEF PollFinds
    <3>2. Accept(m, Found(p, r)).error = ""
      BY <3>1, Accepting
    <3> QED
      BY <2>3, <3>1, <3>2, WritesEntry
  <2>7. CASE PollReconciles(p, r)
    <3>1. Hold(With(mem, p, Reconcile(p, e, r))) \/ Save(With(mem, p, Reconcile(p, e, r)))
      BY <1>2, <2>4, <2>7 DEF PollReconciles
    <3>2. Reconcile(p, e, r).error = e.error
      BY ReconcileIs DEF Confirms
    <3> QED
      BY <2>3, <2>5, <3>1, <3>2, WritesEntry
  <2>8. CASE PollWaits(p, r)
    <3>1. PICK f \in Entries : /\ f = IF Awaited(p, e) THEN Deadline(p, e, r) ELSE e
                               /\ Waits(f, e, Retry(p), Enforces(e, r))
      <4>1. Waits(e, e, Retry(p), Enforces(e, r))
        BY DEF Waits
      <4> QED
        BY <4>1, DeadlineIs
    <3>2. Hold(With(mem, p, f)) /\ Found(p, r) = NoResult
      BY <1>2, <2>4, <2>8, <3>1 DEF PollWaits
    <3>3. f.error = "timeout" => Enforces(e, r)
      BY <2>5, <3>1 DEF Waits
    <3>4. f.error = "timeout" => PollOnly \/ ~Answered(p)
      BY <3>2, <3>3, SilenceIsRead DEF Enforces
    <3>5. Written(p, f)
      BY <2>3, <3>2, <3>4, Writing DEF Written, Inv, TypeOK
    <3> QED
      BY <3>5 DEF WritesOne
  <2> QED
    BY <2>1, <2>6, <2>7, <2>8
<1> QED
  BY <1>1, <1>5, <1>6, <1>7, <1>8

LEMMA DispatchWrites ==
    ASSUME CampaignAssumption, Inv, Dispatch PROVE WritesOne
<1> DEFINE E(st, er) == [Entry EXCEPT !.state = st, !.error = er]
<1>1. at \in Providers /\ cmd.retry \in {None, at}
  <2>1. pc # "visit"
    BY DEF Dispatch, DecideKeep, Preview, Unmet, DispatchLocal, CheckpointLocal, AdapterReturns,
           AdapterFails, CheckpointHosted, PostDispatch, ConfirmDispatch, PostTrigger,
           CheckpointDevin, PayloadInvalid, TagSession, CreateSession, SaveSession,
           Dispatches, Deciding
  <2> QED
    BY <2>1 DEF Inv, TypeOK, PlaceInv
<1>2. PICK m \in Entries : m = Entry /\ m = mem.prov[at]
  BY <1>1, EntriesOf DEF Inv, Entry
<1>3. /\ at \in Hosted => at \notin Devin /\ at \notin Local
      /\ at \in Devin => at \notin Local
  BY DEF CampaignAssumption
<1>4. ASSUME NEW st, NEW er PROVE E(st, er).attempt = m.attempt /\ E(st, er).error = er
  BY <1>2 DEF Entries
<1>5. ASSUME NEW st, NEW er, er # "timeout" \/ er = m.error,
             Hold(With(mem, at, E(st, er))) \/ Save(With(mem, at, E(st, er)))
      PROVE  WritesOne
  <2> HIDE DEF E
  <2> QED
    BY <1>1, <1>2, <1>4, <1>5, WritesEntry
<1>6. CASE DecideKeep \/ DispatchLocal
  BY <1>6 DEF DecideKeep, DispatchLocal, WritesOne
<1>7. CASE Preview
  <2>1. PICK st, er : (er # "timeout" \/ er = m.error) /\ Hold(With(mem, at, E(st, er)))
    BY <1>2, <1>7 DEF Preview
  <2> QED
    BY <1>5, <2>1
<1>8. CASE Unmet
  <2>1. PICK st : Hold(With(mem, at, E(st, "other"))) \/ Save(With(mem, at, E(st, "other")))
    BY <1>8 DEF Unmet
  <2> QED
    BY <1>5, <2>1
<1>9. CASE CheckpointLocal \/ AdapterReturns \/ AdapterFails
  <2>1. at \in Local
    BY <1>9 DEF CheckpointLocal, AdapterReturns, AdapterFails, Inv, PlaceInv, LocalSteps
  <2>2. PICK e : Hold(With(mem, at, e)) \/ Save(With(mem, at, e))
    BY <1>9 DEF CheckpointLocal, AdapterReturns, AdapterFails
  <2> QED
    BY <1>1, <1>3, <2>1, <2>2, WritesEntry
<1>10. CASE CheckpointHosted
  <2> DEFINE t == (at \notin Triggered)
             d == IF at \in Triggered THEN "none" ELSE "ahead"
             e == [NextAttempt(Entry) EXCEPT !.triggered = t, !.deadline = d]
  <2>1. at \in Hosted /\ Save(With(mem, at, e))
    BY <1>10 DEF CheckpointHosted
  <2>2. e.error = ""
    <3> HIDE DEF t, d
    <3> QED
      BY <1>2 DEF NextAttempt, Entries
  <2> HIDE DEF e
  <2> QED
    BY <1>1, <1>3, <2>1, <2>2, WritesEntry
<1>11. CASE CheckpointDevin
  <2>1. PICK e : Save(With(mem, at, e))
    BY <1>11 DEF CheckpointDevin
  <2>2. at \in Devin /\ at \notin Hosted /\ disk.prov[at] = m /\ ~DevinPolls(m)
    BY <1>2, <1>3, <1>11 DEF CheckpointDevin, Dispatches, Deciding, Inv, PlaceInv
  <2>3. Written(at, e)
    BY <1>1, <1>2, <2>1, <2>2, Writing DEF Written, Inv, TypeOK
  <2> QED
    BY <2>3 DEF WritesOne
<1>12. CASE PostDispatch
  <2>1. CASE UNCHANGED records
    BY <2>1 DEF WritesOne
  <2>2. CASE ~UNCHANGED records
    <3> DEFINE e == [Entry EXCEPT !.state = "unavailable", !.error = "other", !.deadline = "none"]
    <3>1. Hold(With(mem, at, e)) /\ at \in Hosted
      BY <1>12, <2>2 DEF PostDispatch, Inv, PlaceInv, HostedSteps
    <3>2. e.error = "other"
      BY <1>2 DEF Entries
    <3> HIDE DEF e
    <3> QED
      BY <1>1, <1>3, <3>1, <3>2, WritesEntry
  <2> QED
    BY <2>1, <2>2
<1>13. CASE ConfirmDispatch \/ TagSession
  <2> DEFINE e == [Entry EXCEPT !.ref = IF pc = "tag" THEN "tagged" ELSE "known"]
  <2>1. Save(With(mem, at, e))
    BY <1>13 DEF ConfirmDispatch, TagSession
  <2>2. e.error = m.error /\ e.attempt = m.attempt
    BY <1>2 DEF Entries
  <2> HIDE DEF e
  <2> QED
    BY <1>1, <1>2, <2>1, <2>2, WritesEntry
<1>14. CASE PostTrigger
  <2> DEFINE f == [Entry EXCEPT !.triggered = TRUE, !.deadline = "ahead"]
  <2>1. at \in Hosted
    BY <1>14 DEF PostTrigger, Inv, PlaceInv, HostedSteps
  <2>2. \/ Hold(With(mem, at, f)) \/ Save(With(mem, at, f))
        \/ Hold(mem) \/ Save(mem)
    BY <1>14 DEF PostTrigger
  <2>3. f.error = m.error
    BY <1>2 DEF Entries
  <2> HIDE DEF f
  <2>4. CASE Hold(With(mem, at, f)) \/ Save(With(mem, at, f))
    BY <1>1, <1>2, <1>3, <2>1, <2>3, <2>4, WritesEntry
  <2>5. CASE Hold(mem)
    BY <2>5 DEF Hold, WritesOne, records
  <2>6. CASE Save(mem)
    <3>1. mem'.prov = mem.prov /\ disk'.prov = mem'.prov /\ disk'.dry = mem.dry
      BY <2>6, Heading DEF Save, Inv, TypeOK
    <3>2. mem.prov = [mem.prov EXCEPT ![at] = m]
      BY <1>1, <1>2 DEF Inv, TypeOK, Records
    <3>3. Written(at, m)
      BY <1>1, <1>2, <1>3, <2>1, <3>1, <3>2 DEF Written
    <3> QED
      BY <3>3 DEF WritesOne
  <2> QED
    BY <2>2, <2>4, <2>5, <2>6
<1>15. CASE PayloadInvalid
  BY <1>5, <1>15 DEF PayloadInvalid
<1>16. CASE CreateSession
  <2>1. \/ UNCHANGED records
        \/ \E st : Save(With(mem, at, E(st, "other")))
    BY <1>16 DEF CreateSession
  <2> QED
    BY <1>5, <2>1 DEF WritesOne
<1>17. CASE SaveSession
  <2> DEFINE e == [Entry EXCEPT !.ref = "known", !.error = ""]
  <2>1. Save(With(mem, at, e))
    BY <1>17 DEF SaveSession
  <2>2. e.error = "" /\ e.attempt = m.attempt
    BY <1>2 DEF Entries
  <2> HIDE DEF e
  <2> QED
    BY <1>1, <1>2, <2>1, <2>2, WritesEntry
<1> QED
  BY <1>6, <1>7, <1>8, <1>9, <1>10, <1>11, <1>12, <1>13, <1>14, <1>15, <1>16, <1>17 DEF Dispatch

\* Finish and Crash, and what happens beside a command.
LEMMA OtherSteps ==
    ASSUME CampaignAssumption, Inv, Finish \/ Crash \/ World \/ UNCHANGED vars, cmd # Idle
    PROVE  /\ disk' = disk \/ (disk'.prov = mem.prov /\ disk'.dry = mem.dry)
           /\ mem'.prov = mem.prov \/ mem'.prov = disk.prov
<1>1. CASE Finish
  BY <1>1, Heading DEF Finish, Save, records, Inv, TypeOK
<1>2. CASE Crash \/ World \/ UNCHANGED vars
  BY <1>2 DEF Crash, World, AdapterOutlives, Answers, Misanswers, SessionMoves, Expire, vars, records
<1> QED
  BY <1>1, <1>2

\* Between commands the record is written by the owner or by the clock, and an attempt
\* is not begun.
LEMMA IdleSteps ==
    ASSUME CampaignAssumption, Inv, Next, cmd = Idle
    PROVE  /\ disk'.dry = disk.dry
           /\ \A p \in Devin : disk'.prov[p].attempt = disk.prov[p].attempt
<1>1. disk \in Records /\ mem \in Records
  BY DEF Inv, TypeOK
<1>2. CASE disk' = disk
  BY <1>2
<1>3. CASE \E p \in Providers : Expire(p)
  <2>1. PICK p \in Providers : disk' = [disk EXCEPT !.prov[p].deadline = "past"]
    BY <1>3 DEF Expire
  <2>2. PICK d \in Entries : d = disk.prov[p]
    BY EntriesOf DEF Inv
  <2> DEFINE e == [d EXCEPT !.deadline = "past"]
  <2>3. e.attempt = d.attempt
    BY <2>2 DEF Entries
  <2>4. disk' = With(disk, p, e)
    BY <1>1, <2>1, <2>2 DEF With, Records
  <2>5. disk'.dry = disk.dry /\ disk'.prov = [disk.prov EXCEPT ![p] = e]
    <3> HIDE DEF e
    <3> QED
      BY <1>1, <2>4, HeadedWith
  <2> HIDE DEF e
  <2> QED
    BY <1>1, <2>2, <2>3, <2>5 DEF Records
<1>4. CASE Owner
  <2>1. PICK p \in Providers : RecordResult(p) \/ Dispose(p)
    BY <1>4 DEF Owner
  <2>2. PICK d \in Entries : d = disk.prov[p]
    BY EntriesOf DEF Inv
  <2>3. PICK e : Save(With(disk, p, e)) /\ e.attempt = d.attempt
    <3>1. CASE RecordResult(p)
      <4>1. PICK o \in Outcomes : Save(With(disk, p, Recorded(d, [outcome |-> o, of |-> 0])))
        BY <2>2, <3>1 DEF RecordResult
      <4>2. PICK r \in Results : r = [outcome |-> o, of |-> 0]
        <5>1. 0 \in 0..MaxAttempts
          BY DEF MaxAttempts, CampaignAssumption
        <5>2. [outcome |-> o, of |-> 0] \in Results
          BY <5>1 DEF Results
        <5> QED
          BY <5>2
      <4>3. Recorded(d, r).attempt = d.attempt
        <5>1. Accept(d, r).attempt = d.attempt
          BY Accepting
        <5> QED
          BY <5>1 DEF Recorded
      <4> QED
        BY <4>1, <4>2, <4>3
    <3>2. CASE Dispose(p)
      <4> DEFINE x == [d EXCEPT !.state = "unavailable", !.error = "disposed", !.deadline = "none"]
      <4>1. Save(With(disk, p, x))
        BY <2>2, <3>2 DEF Dispose
      <4>2. x.attempt = d.attempt
        BY <2>2 DEF Entries
      <4> HIDE DEF x
      <4> QED
        BY <4>1, <4>2
    <3> QED
      BY <2>1, <3>1, <3>2
  <2>4. disk'.dry = disk.dry /\ disk'.prov = [disk.prov EXCEPT ![p] = e]
    BY <1>1, <2>3, HeadedWith DEF Save
  <2> QED
    BY <1>1, <2>2, <2>3, <2>4 DEF Records
<1>5. CASE Visit \/ Dispatch \/ Finish \/ Crash
  <2>1. at = None /\ pc = "visit"
    BY WhenIdle
  <2> QED
    BY <1>5, <2>1 DEF Finish, Crash, Visit, VisitFrozen, TakeFile, VisitComplete, PollDevin, Poll, PollFinds,
        PollReconciles, PollWaits, HostedPolls, AwaitLocal, ToDecide, Open, Visiting,
        Dispatch, DecideKeep, Preview, Unmet, DispatchLocal, CheckpointLocal, AdapterReturns,
        AdapterFails, CheckpointHosted, PostDispatch, ConfirmDispatch, PostTrigger,
        CheckpointDevin, PayloadInvalid, TagSession, CreateSession, SaveSession,
        Dispatches, Deciding
<1>6. CASE Begin \/ (World /\ ~\E p \in Providers : Expire(p))
  BY <1>2, <1>6 DEF Begin, World, AdapterOutlives, Answers, Misanswers, SessionMoves, records
<1> QED
  BY <1>3, <1>4, <1>5, <1>6 DEF Next

LEMMA CommandSteps ==
    ASSUME CampaignAssumption, Inv, Next, cmd # Idle
    PROVE  WritesOne \/ Finish \/ Crash \/ World
BY VisitWrites, DispatchWrites DEF Next, Begin, Owner, RecordResult, Dispose

\* A dry run or a watch never makes an applied campaign a preview again.
THEOREM CampaignAppliedForGood ==
    ASSUME CampaignAssumption PROVE Spec => [][AppliedForGood]_vars
<1>1. ASSUME Inv, Next PROVE AppliedForGood
  <2>1. mem.dry => disk.dry
    BY <1>1 DEF Inv
  <2>2. CASE cmd = Idle
    BY <1>1, <2>2, IdleSteps DEF AppliedForGood
  <2>3. CASE cmd # Idle
    <3>1. disk' = disk \/ disk'.dry = mem.dry
      BY <1>1, <2>3, CommandSteps, OtherSteps DEF WritesOne, Written, records
    <3> QED
      BY <2>1, <3>1 DEF AppliedForGood
  <2> QED
    BY <2>2, <2>3
<1>2. Inv /\ [Next]_vars => [AppliedForGood]_vars
  BY <1>1
<1> QED
  BY <1>2, CampaignInvariant, PTL DEF Spec

\* The retry of one provider leaves the saved entry of every other one as it was,
\* wherever the command is killed.
THEOREM CampaignRetryFreezesOthers ==
    ASSUME CampaignAssumption PROVE Spec => [][RetryFreezesOthers]_vars
<1>1. ASSUME Inv, Next PROVE RetryFreezesOthers
  <2> SUFFICES ASSUME cmd.retry # None, NEW p \in Providers \ {cmd.retry}
               PROVE  disk'.prov[p] = disk.prov[p]
    BY DEF RetryFreezesOthers
  <2>1. cmd # Idle /\ mem.prov[p] = disk.prov[p] /\ mem.prov \in [Providers -> Entries]
    BY <1>1 DEF Inv, EntryInv, Idle, TypeOK, Records
  <2>2. CASE WritesOne
    BY <2>1, <2>2 DEF WritesOne, Written, records
  <2>3. CASE ~WritesOne
    BY <1>1, <2>1, <2>3, CommandSteps, OtherSteps
  <2> QED
    BY <2>2, <2>3
<1>2. Inv /\ [Next]_vars => [RetryFreezesOthers]_vars
  BY <1>1
<1> QED
  BY <1>2, CampaignInvariant, PTL DEF Spec

\* No new Devin session is begun while the record says the earlier one still runs or
\* waits for its owner.
THEOREM CampaignSessionEndsFirst ==
    ASSUME CampaignAssumption PROVE Spec => [][SessionEndsFirst]_vars
<1>1. ASSUME Inv, Next PROVE SessionEndsFirst
  <2> SUFFICES ASSUME NEW p \in Devin, disk'.prov[p].attempt > disk.prov[p].attempt
               PROVE  ~DevinPolls(disk.prov[p])
    BY DEF SessionEndsFirst
  <2>1. /\ p \in Providers /\ mem.prov[p].attempt = disk.prov[p].attempt
        /\ mem.prov \in [Providers -> Entries]
    BY <1>1 DEF Providers, Inv, EntryInv, TypeOK, Records
  <2>2. disk.prov[p].attempt \in Nat
    BY <1>1, <2>1, EntriesOf DEF Inv
  <2>3. disk'.prov[p].attempt # disk.prov[p].attempt
    BY <2>2
  <2>4. cmd # Idle
    BY <1>1, <2>3, IdleSteps
  <2>5. CASE WritesOne
    <3>1. disk' # disk
      BY <2>3
    <3>2. PICK q, e : Written(q, e)
      BY <2>5, <3>1 DEF WritesOne, records
    <3>3. disk'.prov = [mem.prov EXCEPT ![q] = e] /\ q \in Providers
      BY <3>1, <3>2 DEF Written
    <3>4. q = p /\ e.attempt # mem.prov[p].attempt
      BY <2>1, <2>3, <3>3
    <3> QED
      BY <3>2, <3>4 DEF Written
  <2>6. CASE ~WritesOne
    BY <1>1, <2>1, <2>3, <2>4, <2>6, CommandSteps, OtherSteps
  <2> QED
    BY <2>5, <2>6
<1>2. Inv /\ [Next]_vars => [SessionEndsFirst]_vars
  BY <1>1
<1> QED
  BY <1>2, CampaignInvariant, PTL DEF Spec

\* A resume that gives up on a hosted provider has read every surface and found no
\* result: an unreadable page is not taken for silence.
THEOREM CampaignTimeoutIsSilence ==
    ASSUME CampaignAssumption PROVE Spec => [][TimeoutIsSilence]_vars
<1>1. ASSUME Inv, Next PROVE TimeoutIsSilence
  <2> SUFFICES ASSUME NEW p \in Hosted, mem.prov[p].state = "running",
                      mem'.prov[p].error = "timeout", ~PollOnly, cmd # Idle
               PROVE  ~Answered(p)
    BY DEF TimeoutIsSilence, TimesOut
  <2>1. /\ p \in Providers /\ mem.prov[p].error # "timeout" /\ disk.prov[p].error # "timeout"
        /\ mem.prov \in [Providers -> Entries]
    BY <1>1 DEF Providers, Inv, EntryInv, Fine, Sound, TypeOK, Records
  <2>2. mem'.prov # mem.prov /\ mem'.prov # disk.prov
    BY <2>1
  <2>3. WritesOne
    BY <1>1, <2>2, CommandSteps, OtherSteps
  <2>4. PICK q, e : Written(q, e)
    BY <2>2, <2>3 DEF WritesOne, records
  <2>5. q = p /\ e.error = "timeout"
    BY <2>1, <2>4 DEF Written
  <2> QED
    BY <2>1, <2>4, <2>5 DEF Written
<1>2. Inv /\ [Next]_vars => [TimeoutIsSilence]_vars
  BY <1>1
<1> QED
  BY <1>2, CampaignInvariant, PTL DEF Spec
-----------------------------------------------------------------------------
(* The headline, of any campaign and of the stored one.                    *)

\* What CampaignHeadline promises of any states holds of the stored record.
Stored == INSTANCE CampaignHeadline WITH
    state <- StateOf(disk.prov), info <- Informational, dry <- disk.dry

LEMMA HeadlineOf ==
    ASSUME NEW P, NEW st, DOMAIN st = P, \A p \in P : st[p] \in ProviderStates,
           NEW info \in SUBSET P, info # P, NEW dry \in BOOLEAN
    PROVE  /\ Aggregate(st, info, dry) = "complete" <=>
                /\ \A p \in P \ info : st[p] = "complete"
                /\ \A p \in info : st[p] \notin {"queued", "running"}
           /\ Aggregate(st, info, dry) = "queued" =>
                /\ \E p \in P : st[p] = "queued"
                /\ \A p \in P \ info : st[p] # "blocked"
<1>1. info \cap DOMAIN st = info
  OBVIOUS
<1>2. CASE info = {}
  <2>1. Aggregate(st, info, dry) = AllRequired(st)
    BY <1>1, <1>2 DEF Aggregate
  <2>2. AllRequired(st) = "complete" <=> \A p \in P : st[p] = "complete"
    BY DEF AllRequired, ProviderStates
  <2>3. AllRequired(st) = "queued" => (\E p \in P : st[p] = "queued") /\ \A p \in P : st[p] # "blocked"
    BY DEF AllRequired, ProviderStates
  <2> QED
    BY <1>2, <2>1, <2>2, <2>3
<1>3. CASE info # {}
  <2>1. Aggregate(st, info, dry) = WithInformational(st, info, dry)
    BY <1>1, <1>3 DEF Aggregate
  <2>2. PICK q \in P \ info : TRUE
    OBVIOUS
  <2>3. /\ InfoAfterPass(st, info) = "complete" <=> \A p \in info : st[p] \notin {"queued", "running"}
        /\ InfoAfterPass(st, info) = "queued" => \E p \in info : st[p] = "queued"
    BY DEF InfoAfterPass
  <2>4. WithInformational(st, info, dry) = "complete" <=>
           (\A p \in P \ info : st[p] = "complete") /\ InfoAfterPass(st, info) = "complete"
    BY <2>2 DEF WithInformational
  <2>5. WithInformational(st, info, dry) = "queued" =>
           /\ (\E p \in P : st[p] = "queued") \/ InfoAfterPass(st, info) = "queued"
           /\ \A p \in P \ info : st[p] # "blocked"
    BY DEF WithInformational
  <2> QED
    BY <2>1, <2>3, <2>4, <2>5
<1> QED
  BY <1>2, <1>3

LEMMA StoredHeadline ==
    ASSUME CampaignAssumption, Informational # Providers, Inv
    PROVE  Stored!CompleteIsEarned /\ Stored!QueuedIsDispatchable
<1> DEFINE st == StateOf(disk.prov)
<1>1. /\ DOMAIN st = Providers /\ \A p \in Providers : st[p] \in ProviderStates
      /\ disk.dry \in BOOLEAN /\ Informational \in SUBSET Providers
  <2>1. \A p \in Providers : disk.prov[p].state \in ProviderStates
    BY EntriesOf DEF Inv, Entries
  <2>2. disk.dry \in BOOLEAN /\ Informational \in SUBSET Providers
    BY DEF Inv, TypeOK, Records, CampaignAssumption
  <2> QED
    BY <2>1, <2>2 DEF StateOf
<1> HIDE DEF st
<1>2. /\ Aggregate(st, Informational, disk.dry) = "complete" <=>
            /\ \A p \in Providers \ Informational : st[p] = "complete"
            /\ \A p \in Informational : st[p] \notin {"queued", "running"}
      /\ Aggregate(st, Informational, disk.dry) = "queued" =>
            /\ \E p \in Providers : st[p] = "queued"
            /\ \A p \in Providers \ Informational : st[p] # "blocked"
  BY <1>1, HeadlineOf
<1>3. Stored!Headline = Aggregate(st, Informational, disk.dry)
  BY DEF st, Stored!Headline, Stored!Aggregate, Stored!AllRequired, Stored!WithInformational,
         Stored!InfoAfterPass, Aggregate, AllRequired, WithInformational, InfoAfterPass
<1> QED
  BY <1>2, <1>3 DEF st, Stored!CompleteIsEarned, Stored!QueuedIsDispatchable, Stored!Required

\* With a required provider, as --required-providers names one: the stored headline is
\* complete exactly when every required provider passed and no informational one is
\* still to come; nothing else publishes a pass (_aggregate_campaign_status).
THEOREM CampaignCompleteIsEarned ==
    ASSUME CampaignAssumption, Informational # Providers
    PROVE  Spec => [](HeadlineIsHonest /\ Stored!CompleteIsEarned)
<1>1. Inv => HeadlineIsHonest /\ Stored!CompleteIsEarned
  BY StoredHeadline DEF Inv
<1> QED
  BY <1>1, CampaignInvariant, PTL

\* "queued" promises that applying dispatches something: some provider is queued, and
\* no required one has failed.
THEOREM CampaignQueuedIsDispatchable ==
    ASSUME CampaignAssumption, Informational # Providers
    PROVE  Spec => [](HeadlineIsHonest /\ Stored!QueuedIsDispatchable)
<1>1. Inv => HeadlineIsHonest /\ Stored!QueuedIsDispatchable
  BY StoredHeadline DEF Inv
<1> QED
  BY <1>1, CampaignInvariant, PTL

(***************************************************************************)
(* Devin work orders                                                       *)
(***************************************************************************)
PCs == {"idle", "branch", "intend", "remote", "op", "get", "after", "judge", "discard"}
States == {"open", "bare", "complete", "uncertain"}
Sessions == [made : {"no", "reserved", "bound"}, ops : [Keys -> {"absent", "pending", "done"}],
             result : Claim \cup {Nothing}]
Provs == [exists : BOOLEAN, taken : Rounds]
Procs == [pc : PCs, cmd : OrderCommands \cup {Nothing}, req : Requests \cup {Nothing}, head : Heads \cup {Nothing},
          ack : BOOLEAN, state : States]
Lates == [o : Orders, k : Keys \cup {"create"}, round : Rounds]
Views == [pc : {"idle", "session", "pull", "told"}, o : Orders \cup {Nothing}, rec : Works \cup {Nothing},
          state : States, told : SUBSET Rounds, verified : BOOLEAN]

OrdersTypes ==
    /\ order \in [Orders -> Works \cup {Nothing}] /\ writer \in Orders \cup {Nothing}
    /\ sess \in [Orders -> Sessions] /\ prov \in [Orders -> Provs] /\ late \in SUBSET Lates
    /\ told \in [Orders -> SUBSET Rounds] /\ paid \in SUBSET Orders
    /\ proc \in [Orders -> Procs] /\ obs \in Views

\* The rounds up to the order's have been told, its own once the message is known
\* to be sent, which it is when it is no longer pending.
RoundsOk(o) ==
    LET r == order[o]  ops == sess[o].ops IN
    /\ r = Nothing => told[o] = {} /\ prov[o].taken = 0 /\ \A k \in Requests : ops[k] = "absent"
    /\ prov[o].taken # 0 => prov[o].taken \in told[o]
    /\ r # Nothing =>
         /\ r.msg # Nothing => r.round > 0
         /\ r.round > 0 => /\ r.msg \in Msgs /\ r.msg.req \in r.used
                           /\ ops[r.msg.req] = "absent" => r.round \notin told[o]
                           /\ ops[r.msg.req] = "done" => r.round \in told[o]
                           /\ ~r.pending => ops[r.msg.req] = "done"
         /\ \A n \in told[o] : 0 < n /\ n <= r.round
         /\ \A m \in 1..MaxRound : m < r.round => m \in told[o]
         /\ \A k \in Requests : ops[k] # "absent" => k \in r.used

\* Evidence is of the round and of the order's pull request.
EvidenceOk(o) ==
    order[o] # Nothing =>
       /\ order[o].claim # Nothing => /\ order[o].claim.round = order[o].round
                                      /\ order[o].claim.pr = order[o].pr
       /\ order[o].verified => ~order[o].rejected

\* A command past the reservation holds the branch; one that sends a message has it
\* in the record, and what it was told of the session still stands.
ProcOk(o) ==
    LET p == proc[o]  asks == p.cmd \in {"clarify", "fix"} IN
    /\ p.pc # "idle" => order[o] # Nothing /\ p.cmd \in OrderCommands /\ (asks => p.req \in Requests)
    /\ p.pc \notin {"idle", "branch"} => writer = o
    /\ p.pc = "intend" => asks
    /\ p.pc \in {"remote", "op", "get", "after"} /\ asks =>
          order[o].round > 0 /\ order[o].msg = Said(o)
    /\ p.pc = "op" => asks \/ p.cmd = "cancel"
    /\ p.pc = "get" /\ asks => sess[o].ops[p.req] = "done"
    /\ p.pc = "after" /\ asks /\ p.state # "uncertain" => sess[o].ops[p.req] = "done" /\ ~Unanswered(o)
    /\ p.pc = "judge" => ~order[o].verified

\* A message that may still arrive is the order's last, and nobody knows its fate.
LateOk(w) ==
    LET r == order[w.o] IN
    /\ r # Nothing /\ r.round > 0 /\ r.pending /\ w.k = r.msg.req /\ w.round = r.round
    /\ sess[w.o].ops[w.k] = "pending" /\ prov[w.o].taken # w.round /\ w.round \in told[w.o]
LateInv == \A w \in late : w.k \in Requests => LateOk(w)

\* A record whose message is settled had all of its rounds told when it was read.
ObsInv ==
    /\ obs.pc \in {"session", "pull"} => obs.o \in Orders /\ obs.rec \in Works
    /\ obs.pc = "session" /\ ~obs.rec.pending => \A m \in 1..obs.rec.round : m \in told[obs.o]
    /\ obs.pc = "pull" /\ ~obs.rec.pending => \A m \in 1..obs.rec.round : m \in obs.told

OrdersInv == /\ OrdersTypes /\ (\A o \in Orders : RoundsOk(o) /\ EvidenceOk(o) /\ ProcOk(o))
             /\ LateInv /\ OneWriter /\ ObsInv
-----------------------------------------------------------------------------
(* The state a step finds and leaves.                                      *)

LEMMA Constants ==
    ASSUME OrdersAssumption
    PROVE  /\ MaxRound \in Nat /\ 0 \in Rounds /\ Nothing \notin Orders /\ Nothing \notin Requests
           /\ Nothing \notin Works /\ "create" \notin Requests /\ "cancel" \notin Requests
           /\ Requests \subseteq Keys /\ "cancel" \in Keys
           /\ NewOrder \in Works /\ NoRemote \in Sessions /\ NoWork \in Provs /\ Free \in Procs
           /\ NoView \in Views
<1>1. /\ MaxRound \in Nat /\ 0 \in Rounds /\ Nothing \notin Orders /\ Nothing \notin Requests
      /\ Nothing \notin Works /\ "create" \notin Requests /\ "cancel" \notin Requests
      /\ Requests \subseteq Keys /\ "cancel" \in Keys
  BY DEF OrdersAssumption, Rounds, Keys
<1>2. NewOrder \in Works
  BY <1>1 DEF NewOrder, Works
<1>3. NoRemote \in Sessions /\ NoWork \in Provs
  BY <1>1 DEF NoRemote, NoWork, Sessions, Provs
<1>4. Free \in Procs
  BY DEF Free, Procs, PCs, States
<1>5. NoView \in Views
  BY DEF NoView, Views, States
<1> QED
  BY <1>1, <1>2, <1>3, <1>4, <1>5

\* What is known of an order before a step.
LEMMA At1 ==
    ASSUME OrdersInv, NEW o \in Orders
    PROVE  /\ OrdersTypes /\ RoundsOk(o) /\ EvidenceOk(o) /\ ProcOk(o) /\ LateInv
           /\ sess[o] \in Sessions /\ proc[o] \in Procs /\ prov[o] \in Provs /\ told[o] \in SUBSET Rounds
           /\ order[o] \in Works \cup {Nothing} /\ (order[o] # Nothing => order[o] \in Works)
           /\ sess[o].ops \in [Keys -> {"absent", "pending", "done"}]
           /\ (proc[o].pc # "idle" => order[o] \in Works)
<1>1. OrdersTypes /\ RoundsOk(o) /\ EvidenceOk(o) /\ ProcOk(o) /\ LateInv
  BY DEF OrdersInv
<1>2. /\ sess[o] \in Sessions /\ proc[o] \in Procs /\ prov[o] \in Provs /\ told[o] \in SUBSET Rounds
      /\ order[o] \in Works \cup {Nothing}
  BY <1>1 DEF OrdersTypes
<1>3. sess[o].ops \in [Keys -> {"absent", "pending", "done"}]
  BY <1>2 DEF Sessions
<1>4. proc[o].pc # "idle" => order[o] # Nothing
  BY <1>1 DEF ProcOk
<1> QED
  BY <1>1, <1>2, <1>3, <1>4

LEMMA Going ==
    ASSUME OrdersTypes, NEW o \in Orders, NEW STATE c, c \in PCs, Goes(o, c)
    PROVE  /\ proc' \in [Orders -> Procs] /\ \A q \in Orders \ {o} : proc'[q] = proc[q]
           /\ proc'[o].pc = c /\ proc'[o].cmd = proc[o].cmd /\ proc'[o].req = proc[o].req
           /\ proc'[o].head = proc[o].head /\ proc'[o].ack = proc[o].ack
           /\ proc'[o].state = proc[o].state
<1> DEFINE p == [proc[o] EXCEPT !.pc = c]
<1>1. proc[o] \in Procs /\ proc \in [Orders -> Procs]
  BY DEF OrdersTypes
<1>2. /\ p \in Procs /\ p.pc = c /\ p.cmd = proc[o].cmd /\ p.req = proc[o].req
      /\ p.head = proc[o].head /\ p.ack = proc[o].ack /\ p.state = proc[o].state
  BY <1>1 DEF Procs
<1>3. proc' = [proc EXCEPT ![o] = p]
  BY DEF Goes
<1> HIDE DEF p
<1> QED
  BY <1>1, <1>2, <1>3

LEMMA Reporting ==
    ASSUME OrdersTypes, NEW o \in Orders, NEW STATE s, s \in States,
           proc' = [proc EXCEPT ![o].pc = "after", ![o].state = s]
    PROVE  /\ proc' \in [Orders -> Procs] /\ \A q \in Orders \ {o} : proc'[q] = proc[q]
           /\ proc'[o].pc = "after" /\ proc'[o].cmd = proc[o].cmd /\ proc'[o].req = proc[o].req
           /\ proc'[o].head = proc[o].head /\ proc'[o].ack = proc[o].ack /\ proc'[o].state = s
<1> DEFINE p == [proc[o] EXCEPT !.pc = "after", !.state = s]
<1>1. proc[o] \in Procs /\ proc \in [Orders -> Procs]
  BY DEF OrdersTypes
<1>2. /\ p \in Procs /\ p.pc = "after" /\ p.cmd = proc[o].cmd /\ p.req = proc[o].req
      /\ p.head = proc[o].head /\ p.ack = proc[o].ack /\ p.state = s
  BY <1>1 DEF Procs, PCs
<1>3. proc' = [proc EXCEPT ![o] = p]
  BY <1>1
<1> HIDE DEF p
<1> QED
  BY <1>1, <1>2, <1>3

LEMMA Ending ==
    ASSUME OrdersAssumption, OrdersTypes, NEW o \in Orders, Ends(o)
    PROVE  /\ proc' \in [Orders -> Procs] /\ \A q \in Orders \ {o} : proc'[q] = proc[q]
           /\ proc'[o].pc = "idle" /\ ProcOk(o)'
<1>1. proc' \in [Orders -> Procs] /\ proc'[o] = Free /\ \A q \in Orders \ {o} : proc'[q] = proc[q]
  BY Constants DEF OrdersTypes, Ends
<1>2. Free.pc = "idle"
  BY DEF Free
<1> QED
  BY <1>1, <1>2 DEF ProcOk
-----------------------------------------------------------------------------
(* What a step of one order leaves alone.                                  *)

Only(o) == /\ \A q \in Orders \ {o} : /\ order'[q] = order[q] /\ sess'[q] = sess[q]
                                      /\ told'[q] = told[q] /\ proc'[q] = proc[q]
                                      /\ prov'[q].taken = prov[q].taken
           /\ writer' = writer \/ writer = Nothing
           /\ told[o] \subseteq told'[o] /\ UNCHANGED obs

LEMMA OnlyStep ==
    ASSUME OrdersAssumption, OrdersInv, OrdersTypes', NEW o \in Orders, Only(o), RoundsOk(o)', EvidenceOk(o)', ProcOk(o)',
           LateInv', OneWriter'
    PROVE  OrdersInv'
<1>1. ASSUME NEW q \in Orders \ {o} PROVE RoundsOk(q)' /\ EvidenceOk(q)' /\ ProcOk(q)'
  <2>1. RoundsOk(q) /\ EvidenceOk(q) /\ ProcOk(q)
    BY DEF OrdersInv
  <2>2. /\ order'[q] = order[q] /\ sess'[q] = sess[q] /\ told'[q] = told[q] /\ proc'[q] = proc[q]
        /\ prov'[q].taken = prov[q].taken
    BY DEF Only
  <2>3. RoundsOk(q)'
    BY <2>1, <2>2 DEF RoundsOk
  <2>4. EvidenceOk(q)'
    BY <2>1, <2>2 DEF EvidenceOk
  <2>5. ProcOk(q)'
    BY <2>1, <2>2, Constants DEF ProcOk, Said, Unanswered, Only
  <2> QED
    BY <2>3, <2>4, <2>5
<1>2. \A q \in Orders : told[q] \subseteq told'[q]
  BY DEF Only
<1>3. ObsInv'
  BY <1>2 DEF OrdersInv, ObsInv, Only
<1> QED
  BY <1>1, <1>3 DEF OrdersInv

\* A step that leaves the rounds of the order, and what is known of them, alone.
Settled(o) ==
    /\ prov'[o].taken = prov[o].taken /\ told'[o] = told[o] /\ sess'[o].ops = sess[o].ops
    /\ \A w \in late' : w \in late \/ w.k \notin Requests
    /\ \/ order'[o] = order[o]
       \/ /\ order[o] # Nothing /\ order'[o] # Nothing
          /\ order'[o].round = order[o].round /\ order'[o].msg = order[o].msg
          /\ order'[o].pending = order[o].pending /\ order'[o].used = order[o].used

LEMMA SettledStep ==
    ASSUME OrdersAssumption, OrdersInv, OrdersTypes', NEW o \in Orders, Only(o), Settled(o), EvidenceOk(o)', ProcOk(o)',
           OneWriter'
    PROVE  OrdersInv'
<1>1. RoundsOk(o)'
  BY At1 DEF RoundsOk, Settled
<1>2. LateInv'
  <2> SUFFICES ASSUME NEW w \in late', w.k \in Requests PROVE LateOk(w)'
    BY DEF LateInv
  <2>1. w \in late /\ w.o \in Orders /\ LateOk(w)
    BY DEF Settled, OrdersInv, OrdersTypes, Lates, LateInv
  <2>2. CASE w.o = o
    BY <2>1, <2>2 DEF LateOk, Settled
  <2>3. CASE w.o # o
    BY <2>1, <2>3 DEF LateOk, Only
  <2> QED
    BY <2>2, <2>3
<1> QED
  BY <1>1, <1>2, OnlyStep
-----------------------------------------------------------------------------
(* Steps of a command that leave its order's record and its messages alone. *)

Still(o) ==
    /\ UNCHANGED <<order, told, obs>> /\ writer' \in Orders \cup {Nothing}
    /\ writer' = writer \/ writer = Nothing
    /\ sess' \in [Orders -> Sessions] /\ sess'[o].ops = sess[o].ops
    /\ \A q \in Orders \ {o} : sess'[q] = sess[q] /\ proc'[q] = proc[q]
    /\ prov' \in [Orders -> Provs] /\ \A q \in Orders : prov'[q].taken = prov[q].taken
    /\ late' \in SUBSET Lates /\ \A w \in late' : w \in late \/ w.k \notin Requests
    /\ paid' = paid \/ (writer' = o /\ paid' \subseteq paid \cup {o})
    /\ proc' \in [Orders -> Procs]

LEMMA StillStep ==
    ASSUME OrdersAssumption, OrdersInv, NEW o \in Orders, Still(o), ProcOk(o)'
    PROVE  OrdersInv'
<1>1. OrdersTypes'
  BY DEF Still, OrdersInv, OrdersTypes
<1>2. Only(o) /\ Settled(o)
  BY DEF Still, Only, Settled
<1>3. EvidenceOk(o)'
  BY DEF OrdersInv, EvidenceOk, Still
<1>4. OneWriter'
  BY Constants DEF OrdersInv, OneWriter, Still, OrdersTypes
<1> QED
  BY <1>1, <1>2, <1>3, <1>4, SettledStep

LEMMA KilledStep ==
    ASSUME OrdersAssumption, OrdersInv, NEW o \in Orders, Killed(o)
    PROVE  OrdersInv'
<1>1. OrdersTypes /\ Ends(o) /\ UNCHANGED <<order, writer, sess, prov, late, told, paid, obs>>
  BY DEF Killed, remote, OrdersInv
<1>2. Still(o) /\ ProcOk(o)'
  BY <1>1, Ending DEF Still, OrdersTypes
<1> QED
  BY <1>2, StillStep

LEMMA BranchStep ==
    ASSUME OrdersAssumption, OrdersInv, NEW o \in Orders, Branch(o)
    PROVE  OrdersInv'
<1> USE At1
<1>1. /\ OrdersTypes /\ proc[o].pc = "branch" /\ UNCHANGED <<order, sess, prov, late, told, paid, obs>>
  BY DEF Branch, At, remote
<1>2. CASE Conflict(o)
  <2>1. Ends(o) /\ UNCHANGED writer
    BY <1>2 DEF Branch
  <2>2. Still(o) /\ ProcOk(o)'
    BY <1>1, <2>1, Ending DEF Still, OrdersTypes
  <2> QED
    BY <2>2, StillStep
<1>3. CASE ~Conflict(o)
  <2> DEFINE asks == proc[o].cmd \in {"clarify", "fix"}
  <2>1. writer' = o /\ (writer' = writer \/ writer = Nothing)
    BY <1>3 DEF Branch, Conflict
  <2>2. ProcOk(o) /\ order[o] # Nothing
    BY <1>1 DEF ProcOk
  <2>3. CASE asks
    <3>1. Goes(o, "intend")
      BY <1>3, <2>3 DEF Branch
    <3>2. /\ proc' \in [Orders -> Procs] /\ \A q \in Orders \ {o} : proc'[q] = proc[q]
          /\ proc'[o].pc = "intend" /\ proc'[o].cmd = proc[o].cmd /\ proc'[o].req = proc[o].req
      BY <1>1, <3>1, Going DEF PCs
    <3>3. ProcOk(o)'
      BY <1>1, <2>1, <2>2, <2>3, <3>2 DEF ProcOk
    <3>4. Still(o)
      BY <1>1, <2>1, <3>2 DEF Still, OrdersTypes
    <3> QED
      BY <3>3, <3>4, StillStep
  <2>4. CASE ~asks
    <3>1. Goes(o, "remote")
      BY <1>3, <2>4 DEF Branch
    <3>2. /\ proc' \in [Orders -> Procs] /\ \A q \in Orders \ {o} : proc'[q] = proc[q]
          /\ proc'[o].pc = "remote" /\ proc'[o].cmd = proc[o].cmd /\ proc'[o].req = proc[o].req
      BY <1>1, <3>1, Going DEF PCs
    <3>3. ProcOk(o)'
      BY <1>1, <2>1, <2>2, <2>4, <3>2 DEF ProcOk
    <3>4. Still(o)
      BY <1>1, <2>1, <3>2 DEF Still, OrdersTypes
    <3> QED
      BY <3>3, <3>4, StillStep
  <2> QED
    BY <2>3, <2>4
<1> QED
  BY <1>2, <1>3

\* Sending the same message again begins where the first command may have stopped.
LEMMA AgainStep ==
    ASSUME OrdersAssumption, OrdersInv, NEW o \in Orders, proc[o].pc = "intend", Again(o), order[o].msg = Said(o),
           Goes(o, "remote"), UNCHANGED <<order, writer, sess, prov, late, told, paid, obs>>
    PROVE  OrdersInv'
<1>1. OrdersTypes /\ ProcOk(o) /\ RoundsOk(o) /\ order[o] # Nothing
  BY At1, Constants
<1>2. /\ proc' \in [Orders -> Procs] /\ \A q \in Orders \ {o} : proc'[q] = proc[q]
      /\ proc'[o].pc = "remote" /\ proc'[o].cmd = proc[o].cmd /\ proc'[o].req = proc[o].req
      /\ proc'[o].head = proc[o].head
  BY <1>1, Going DEF PCs
<1>3. order[o].round > 0
  BY <1>1 DEF RoundsOk, Again
<1>4. Said(o)' = Said(o)
  BY <1>2 DEF Said
<1>5. ProcOk(o)'
  BY <1>1, <1>2, <1>3, <1>4 DEF ProcOk
<1>6. Still(o)
  BY <1>1, <1>2 DEF Still, OrdersTypes
<1> QED
  BY <1>5, <1>6, StillStep

LEMMA MadeTyped ==
    ASSUME OrdersTypes, NEW o \in Orders, NEW STATE h, h \in {"no", "reserved", "bound"}, Made(o, h)
    PROVE  /\ sess' \in [Orders -> Sessions] /\ sess'[o].ops = sess[o].ops
           /\ \A q \in Orders \ {o} : sess'[q] = sess[q]
<1> DEFINE r == [sess[o] EXCEPT !.made = h]
<1>1. sess[o] \in Sessions /\ sess \in [Orders -> Sessions]
  BY DEF OrdersTypes
<1>2. r \in Sessions /\ r.ops = sess[o].ops
  BY <1>1 DEF Sessions
<1>3. sess' = [sess EXCEPT ![o] = r]
  BY DEF Made
<1> HIDE DEF r
<1> QED
  BY <1>1, <1>2, <1>3

LEMMA ResultTyped ==
    ASSUME OrdersTypes, NEW o \in Orders, NEW STATE c, c \in Claim \cup {Nothing}, sess' = [sess EXCEPT ![o].result = c]
    PROVE  /\ sess' \in [Orders -> Sessions] /\ sess'[o].ops = sess[o].ops
           /\ \A q \in Orders \ {o} : sess'[q] = sess[q]
<1> DEFINE r == [sess[o] EXCEPT !.result = c]
<1>1. sess[o] \in Sessions /\ sess \in [Orders -> Sessions]
  BY DEF OrdersTypes
<1>2. r \in Sessions /\ r.ops = sess[o].ops
  BY <1>1 DEF Sessions
<1>3. sess' = [sess EXCEPT ![o] = r]
  OBVIOUS
<1> HIDE DEF r
<1> QED
  BY <1>1, <1>2, <1>3

LEMMA FindStep ==
    ASSUME OrdersAssumption, OrdersInv, NEW o \in Orders, Find(o)
    PROVE  OrdersInv'
<1>1. /\ OrdersTypes /\ ProcOk(o) /\ order[o] # Nothing /\ proc[o].pc = "remote" /\ proc[o] \in Procs
      /\ UNCHANGED <<order, writer, prov, late, told, paid, obs>>
  BY At1, Constants DEF Find, At, Mine
<1>2. /\ sess' \in [Orders -> Sessions] /\ sess'[o].ops = sess[o].ops
      /\ \A q \in Orders \ {o} : sess'[q] = sess[q]
  <2>1. CASE UNCHANGED sess
    BY <1>1, <2>1 DEF OrdersTypes
  <2>2. CASE Made(o, "bound")
    BY <1>1, <2>2, MadeTyped
  <2> QED
    BY <2>1, <2>2 DEF Find
<1>3. CASE Goes(o, Onward(o))
  <2>1. Onward(o) \in PCs /\ Onward(o) \in {"op", "get"}
    BY DEF Onward, PCs
  <2>2. /\ proc' \in [Orders -> Procs] /\ \A q \in Orders \ {o} : proc'[q] = proc[q]
        /\ proc'[o].pc = Onward(o) /\ proc'[o].cmd = proc[o].cmd /\ proc'[o].req = proc[o].req
        /\ proc'[o].head = proc[o].head
    BY <1>1, <1>3, <2>1, Going
  <2>3. Said(o)' = Said(o)
    BY <2>2 DEF Said
  <2>4. ProcOk(o)'
    BY <1>1, <2>1, <2>2, <2>3 DEF ProcOk, Onward
  <2>5. Still(o)
    BY <1>1, <1>2, <2>2 DEF Still, OrdersTypes
  <2> QED
    BY <2>4, <2>5, StillStep
<1>4. CASE proc' = [proc EXCEPT ![o].pc = "after", ![o].state = "uncertain"]
  <2>2. /\ proc' \in [Orders -> Procs] /\ \A q \in Orders \ {o} : proc'[q] = proc[q]
        /\ proc'[o].pc = "after" /\ proc'[o].cmd = proc[o].cmd /\ proc'[o].req = proc[o].req
        /\ proc'[o].head = proc[o].head /\ proc'[o].state = "uncertain"
    BY <1>1, <1>4, Reporting DEF States
  <2>3. Said(o)' = Said(o)
    BY <2>2 DEF Said
  <2>4. ProcOk(o)'
    BY <1>1, <2>2, <2>3 DEF ProcOk
  <2>5. Still(o)
    BY <1>1, <1>2, <2>2 DEF Still, OrdersTypes
  <2> QED
    BY <2>4, <2>5, StillStep
<1>5. CASE Ends(o)
  <2>1. Still(o) /\ ProcOk(o)'
    BY <1>1, <1>2, <1>5, Ending DEF Still, OrdersTypes
  <2> QED
    BY <2>1, StillStep
<1> QED
  BY <1>3, <1>4, <1>5 DEF Find

\* A session is created for the order that holds the branch.
LEMMA CreateStep ==
    ASSUME OrdersAssumption, OrdersInv, NEW o \in Orders, Create(o)
    PROVE  OrdersInv'
<1>1. /\ OrdersTypes /\ ProcOk(o) /\ order[o] # Nothing /\ proc[o].pc = "remote" /\ proc[o] \in Procs
      /\ proc[o].cmd = "dispatch" /\ UNCHANGED <<order, writer, told, obs>>
  BY At1, Constants DEF Create, At, Mine
<1>2. writer = o
  BY <1>1 DEF ProcOk
<1>3. /\ sess' \in [Orders -> Sessions] /\ sess'[o].ops = sess[o].ops
      /\ \A q \in Orders \ {o} : sess'[q] = sess[q]
  <2>1. Made(o, "bound") \/ Made(o, "reserved")
    BY DEF Create
  <2> QED
    BY <1>1, <2>1, MadeTyped
<1>4. paid' \subseteq paid \cup {o}
  BY DEF Create
<1>5. prov' \in [Orders -> Provs] /\ \A q \in Orders : prov'[q].taken = prov[q].taken
  <2>1. CASE UNCHANGED prov
    BY <1>1, <2>1 DEF OrdersTypes
  <2>2. CASE prov' = [prov EXCEPT ![o].exists = TRUE]
    BY <1>1, <2>2 DEF OrdersTypes, Provs
  <2> QED
    BY <2>1, <2>2 DEF Create
<1>6. late' \in SUBSET Lates /\ \A w \in late' : w \in late \/ w.k \notin Requests
  <2> DEFINE w == [o |-> o, k |-> "create", round |-> 0]
  <2>1. w \in Lates /\ w.k \notin Requests
    BY Constants DEF Lates
  <2>2. late' = late \/ late' = late \cup {w}
    BY DEF Create
  <2> QED
    BY <1>1, <2>1, <2>2 DEF OrdersTypes
<1>7. proc' \in [Orders -> Procs] /\ (\A q \in Orders \ {o} : proc'[q] = proc[q]) /\ ProcOk(o)'
  <2>1. CASE Ends(o)
    BY <1>1, <2>1, Ending
  <2>2. CASE Goes(o, "get")
    <3>1. /\ proc' \in [Orders -> Procs] /\ \A q \in Orders \ {o} : proc'[q] = proc[q]
          /\ proc'[o].pc = "get" /\ proc'[o].cmd = proc[o].cmd /\ proc'[o].req = proc[o].req
      BY <1>1, <2>2, Going DEF PCs
    <3>2. ProcOk(o)'
      BY <1>1, <1>2, <3>1 DEF ProcOk
    <3> QED
      BY <3>1, <3>2
  <2> QED
    BY <2>1, <2>2 DEF Create
<1>8. Still(o)
  BY <1>1, <1>2, <1>3, <1>4, <1>5, <1>6, <1>7 DEF Still, OrdersTypes
<1> QED
  BY <1>7, <1>8, StillStep

LEMMA GetStep ==
    ASSUME OrdersAssumption, OrdersInv, NEW o \in Orders, Get(o)
    PROVE  OrdersInv'
<1>1. /\ OrdersTypes /\ ProcOk(o) /\ order[o] # Nothing /\ proc[o].pc = "get" /\ proc[o] \in Procs
      /\ UNCHANGED <<order, writer, prov, late, told, paid, obs>>
  BY At1, Constants DEF Get, At, Mine
<1>2. ASSUME NEW say \in Says,
             sess' = [sess EXCEPT ![o].result =
                         IF ~say.complete THEN Nothing
                         ELSE IF proc[o].cmd = "collect" /\ @ = Nothing /\ ~Unanswered(o) THEN say.out ELSE @],
             proc' = [proc EXCEPT ![o].pc = "after", ![o].state = Shows(o, say)]
      PROVE  OrdersInv'
  <2> DEFINE c == IF ~say.complete THEN Nothing
                  ELSE IF proc[o].cmd = "collect" /\ sess[o].result = Nothing /\ ~Unanswered(o) THEN say.out
                       ELSE sess[o].result
  <2>1. c \in Claim \cup {Nothing}
    BY At1 DEF Says, Sessions
  <2>2. sess' = [sess EXCEPT ![o].result = c]
    BY <1>1, <1>2 DEF OrdersTypes
  <2> HIDE DEF c
  <2>3. /\ sess' \in [Orders -> Sessions] /\ sess'[o].ops = sess[o].ops
        /\ \A q \in Orders \ {o} : sess'[q] = sess[q]
    BY <1>1, <2>1, <2>2, ResultTyped
  <2>4. Shows(o, say) \in States /\ (Shows(o, say) # "uncertain" => ~Unanswered(o))
    BY DEF Shows, States
  <2>5. /\ proc' \in [Orders -> Procs] /\ \A q \in Orders \ {o} : proc'[q] = proc[q]
        /\ proc'[o].pc = "after" /\ proc'[o].cmd = proc[o].cmd /\ proc'[o].req = proc[o].req
        /\ proc'[o].head = proc[o].head /\ proc'[o].state = Shows(o, say)
    BY <1>1, <1>2, <2>4, Reporting
  <2>6. Said(o)' = Said(o) /\ (Unanswered(o)' <=> Unanswered(o))
    BY <2>3, <2>5 DEF Said, Unanswered
  <2>7. ProcOk(o)'
    BY <1>1, <2>3, <2>4, <2>5, <2>6 DEF ProcOk
  <2>8. Still(o)
    BY <1>1, <2>3, <2>5 DEF Still, OrdersTypes
  <2> QED
    BY <2>7, <2>8, StillStep
<1>3. CASE sess' = [sess EXCEPT ![o].result = Nothing] /\ Ends(o)
  <2>1. /\ sess' \in [Orders -> Sessions] /\ sess'[o].ops = sess[o].ops
        /\ \A q \in Orders \ {o} : sess'[q] = sess[q]
    BY <1>1, <1>3, ResultTyped
  <2>2. Still(o) /\ ProcOk(o)'
    BY <1>1, <1>3, <2>1, Ending DEF Still, OrdersTypes
  <2> QED
    BY <2>2, StillStep
<1> QED
  BY <1>2, <1>3 DEF Get

LEMMA DiscardStep ==
    ASSUME OrdersAssumption, OrdersInv, NEW o \in Orders, Discard(o)
    PROVE  OrdersInv'
<1>1. /\ OrdersTypes /\ Ends(o) /\ sess' = [sess EXCEPT ![o].result = Nothing]
      /\ UNCHANGED <<order, writer, prov, late, told, paid, obs>>
  BY DEF Discard, At, Mine, OrdersInv
<1>2. /\ sess' \in [Orders -> Sessions] /\ sess'[o].ops = sess[o].ops
      /\ \A q \in Orders \ {o} : sess'[q] = sess[q]
  BY <1>1, ResultTyped
<1>3. Still(o) /\ ProcOk(o)'
  BY <1>1, <1>2, Ending DEF Still, OrdersTypes
<1> QED
  BY <1>3, StillStep
-----------------------------------------------------------------------------
(* Steps that write the record.                                            *)

Wrote(o, r) == /\ r \in Works /\ order' = [order EXCEPT ![o] = r]
               /\ UNCHANGED <<writer, sess, prov, late, told, paid, obs>>
               /\ proc' \in [Orders -> Procs] /\ \A q \in Orders \ {o} : proc'[q] = proc[q]

LEMMA WroteFacts ==
    ASSUME OrdersAssumption, OrdersInv, NEW o \in Orders, NEW STATE r, Wrote(o, r)
    PROVE  OrdersTypes' /\ Only(o) /\ order'[o] = r /\ OneWriter'
<1>1. OrdersTypes' /\ order'[o] = r /\ \A q \in Orders \ {o} : order'[q] = order[q]
  BY DEF Wrote, OrdersInv, OrdersTypes
<1>2. Only(o) /\ OneWriter'
  BY <1>1 DEF Wrote, Only, OrdersInv, OneWriter
<1> QED
  BY <1>1, <1>2

\* Evidence comes and goes, the message and the round stay.
LEMMA EvidenceStep ==
    ASSUME OrdersAssumption, OrdersInv, NEW o \in Orders, order[o] # Nothing, NEW STATE r, Wrote(o, r),
           r.round = order[o].round, r.msg = order[o].msg, r.pending = order[o].pending,
           r.used = order[o].used,
           r.claim # Nothing => r.claim.round = r.round /\ r.claim.pr = r.pr,
           r.verified => ~r.rejected, ProcOk(o)'
    PROVE  OrdersInv'
<1>1. OrdersTypes' /\ Only(o) /\ order'[o] = r /\ OneWriter'
  BY WroteFacts
<1>2. Settled(o)
  BY <1>1, Constants DEF Settled, Wrote
<1>3. EvidenceOk(o)'
  BY <1>1 DEF EvidenceOk
<1> QED
  BY <1>1, <1>2, <1>3, SettledStep

LEMMA AfterStep ==
    ASSUME OrdersAssumption, OrdersInv, NEW o \in Orders, After(o)
    PROVE  OrdersInv'
<1>1. /\ OrdersTypes /\ RoundsOk(o) /\ ProcOk(o) /\ EvidenceOk(o) /\ order[o] \in Works /\ order[o] # Nothing
      /\ proc[o].pc = "after" /\ UNCHANGED <<writer, sess, prov, late, told, paid, obs>>
  BY At1, Constants DEF After, At, remote
<1>2. CASE proc[o].cmd \in {"clarify", "fix"}
  <2> DEFINE b == (proc[o].state = "uncertain")
             r == [order[o] EXCEPT !.pending = b]
  <2>1. order' = [order EXCEPT ![o] = r] /\ Ends(o)
    BY <1>2 DEF After, Writes
  <2>2. b \in BOOLEAN
    OBVIOUS
  <2>3. b <=> proc[o].state = "uncertain"
    OBVIOUS
  <2> HIDE DEF b
  <2>4. /\ r \in Works /\ r.round = order[o].round /\ r.msg = order[o].msg /\ r.used = order[o].used
        /\ r.claim = order[o].claim /\ r.pr = order[o].pr /\ r.verified = order[o].verified
        /\ r.rejected = order[o].rejected /\ r.pending = b
    BY <1>1, <2>2 DEF Works
  <2> HIDE DEF r
  <2>5. Wrote(o, r) /\ ProcOk(o)'
    BY <1>1, <2>1, <2>4, Ending DEF Wrote
  <2>6. OrdersTypes' /\ Only(o) /\ order'[o] = r /\ OneWriter'
    BY <2>5, WroteFacts
  <2>7. order[o].round > 0 /\ order[o].msg = Said(o) /\ order[o].msg.req = proc[o].req
    BY <1>1, <1>2 DEF ProcOk, Said
  <2>8. ~b => sess[o].ops[proc[o].req] = "done" /\ ~Unanswered(o)
    BY <1>1, <1>2, <2>3 DEF ProcOk
  <2>9. RoundsOk(o)'
    BY <1>1, <2>4, <2>6, <2>7, <2>8, Constants DEF RoundsOk
  <2>10. EvidenceOk(o)'
    BY <1>1, <2>4, <2>6 DEF EvidenceOk
  <2>11. LateInv'
    <3> SUFFICES ASSUME NEW w \in late, w.k \in Requests PROVE LateOk(w)'
      BY <1>1 DEF LateInv
    <3>1. w.o \in Orders /\ LateOk(w)
      BY <1>1 DEF OrdersInv, OrdersTypes, Lates, LateInv
    <3>2. CASE w.o = o
      <4>1. Unanswered(o)
        BY <3>1, <3>2, Constants DEF LateOk, Unanswered
      <4>2. b
        BY <2>8, <4>1
      <4> QED
        BY <1>1, <2>2, <2>4, <2>6, <3>1, <3>2, <4>2, Constants DEF LateOk
    <3>3. CASE w.o # o
      BY <1>1, <2>6, <3>1, <3>3 DEF LateOk, Only
    <3> QED
      BY <3>2, <3>3
  <2> QED
    BY <2>5, <2>6, <2>9, <2>10, <2>11, OnlyStep
<1>3. CASE proc[o].cmd = "collect"
  <2> DEFINE r == [order[o] EXCEPT !.verified = FALSE]
  <2>1. order' = [order EXCEPT ![o] = r] /\ (Goes(o, "judge") \/ Ends(o))
    BY <1>3 DEF After, Writes
  <2>2. /\ r \in Works /\ r.round = order[o].round /\ r.msg = order[o].msg /\ r.used = order[o].used
        /\ r.claim = order[o].claim /\ r.pr = order[o].pr /\ r.verified = FALSE
        /\ r.pending = order[o].pending
    BY <1>1 DEF Works
  <2> HIDE DEF r
  <2>3. order'[o] = r
    BY <1>1, <2>1 DEF OrdersTypes
  <2>4. proc' \in [Orders -> Procs] /\ (\A q \in Orders \ {o} : proc'[q] = proc[q]) /\ ProcOk(o)'
    <3>1. CASE Ends(o)
      BY <1>1, <3>1, Ending
    <3>2. CASE Goes(o, "judge")
      <4>1. /\ proc' \in [Orders -> Procs] /\ \A q \in Orders \ {o} : proc'[q] = proc[q]
            /\ proc'[o].pc = "judge" /\ proc'[o].cmd = proc[o].cmd
        BY <1>1, <3>2, Going DEF PCs
      <4>2. ProcOk(o)'
        BY <1>1, <1>3, <2>2, <2>3, <4>1, Constants DEF ProcOk
      <4> QED
        BY <4>1, <4>2
    <3> QED
      BY <2>1, <3>1, <3>2
  <2>5. Wrote(o, r)
    BY <1>1, <2>1, <2>2, <2>4 DEF Wrote
  <2> QED
    BY <1>1, <2>2, <2>4, <2>5, EvidenceStep DEF EvidenceOk
<1>4. CASE proc[o].cmd \in {"dispatch", "status", "cancel"}
  <2>1. Ends(o) /\ UNCHANGED order
    BY <1>4 DEF After
  <2>2. Still(o) /\ ProcOk(o)'
    BY <1>1, <2>1, Ending DEF Still, OrdersTypes
  <2> QED
    BY <2>2, StillStep
<1> QED
  BY <1>2, <1>3, <1>4 DEF After

LEMMA JudgeStep ==
    ASSUME OrdersAssumption, OrdersInv, NEW o \in Orders, Judge(o)
    PROVE  OrdersInv'
<1>1. /\ OrdersTypes /\ ProcOk(o) /\ EvidenceOk(o) /\ order[o] \in Works /\ order[o] # Nothing
      /\ proc[o].pc = "judge" /\ UNCHANGED <<writer, sess, prov, late, told, paid, obs>>
      /\ sess[o] \in Sessions
  BY At1, Constants DEF Judge, At, remote
<1>2. ASSUME NEW pull \in Shown, Accepts(o, pull), Ends(o),
             Writes(o, [order[o] EXCEPT !.claim = sess[o].result, !.verified = TRUE,
                                        !.pr = sess[o].result.pr, !.rejected = FALSE])
      PROVE  OrdersInv'
  <2> DEFINE c == sess[o].result
             r == [order[o] EXCEPT !.claim = c, !.verified = TRUE, !.pr = c.pr, !.rejected = FALSE]
  <2>1. c \in Claim /\ c.round = order[o].round
    BY <1>1, <1>2 DEF Accepts, Holds, Sessions
  <2>2. c.pr \in PRs
    BY <2>1 DEF Claim
  <2>3. order' = [order EXCEPT ![o] = r]
    BY <1>2 DEF Writes
  <2> HIDE DEF c
  <2>4. /\ r \in Works /\ r.round = order[o].round /\ r.msg = order[o].msg /\ r.used = order[o].used
        /\ r.claim = c /\ r.pr = c.pr /\ r.verified = TRUE /\ r.rejected = FALSE
        /\ r.pending = order[o].pending
    BY <1>1, <2>1, <2>2 DEF Works
  <2> HIDE DEF r
  <2>5. Wrote(o, r) /\ ProcOk(o)'
    BY <1>1, <1>2, <2>3, <2>4, Ending DEF Wrote
  <2> QED
    BY <1>1, <2>1, <2>4, <2>5, EvidenceStep
<1>3. CASE Ends(o) /\ UNCHANGED order
  <2>1. Still(o) /\ ProcOk(o)'
    BY <1>1, <1>3, Ending DEF Still, OrdersTypes
  <2> QED
    BY <2>1, StillStep
<1>4. CASE Writes(o, [order[o] EXCEPT !.rejected = TRUE]) /\ Goes(o, "discard")
  <2> DEFINE r == [order[o] EXCEPT !.rejected = TRUE]
  <2>1. /\ r \in Works /\ r.round = order[o].round /\ r.msg = order[o].msg /\ r.used = order[o].used
        /\ r.claim = order[o].claim /\ r.pr = order[o].pr /\ r.verified = order[o].verified
        /\ r.pending = order[o].pending
    BY <1>1 DEF Works
  <2>2. order' = [order EXCEPT ![o] = r]
    BY <1>4 DEF Writes
  <2> HIDE DEF r
  <2>3. order'[o] = r
    BY <1>1, <2>2 DEF OrdersTypes
  <2>4. /\ proc' \in [Orders -> Procs] /\ \A q \in Orders \ {o} : proc'[q] = proc[q]
        /\ proc'[o].pc = "discard" /\ proc'[o].cmd = proc[o].cmd /\ proc'[o].req = proc[o].req
    BY <1>1, <1>4, Going DEF PCs
  <2>5. ProcOk(o)'
    BY <1>1, <2>1, <2>3, <2>4, Constants DEF ProcOk
  <2>6. ~order[o].verified
    BY <1>1 DEF ProcOk
  <2>7. Wrote(o, r)
    BY <1>1, <2>1, <2>2, <2>4 DEF Wrote
  <2> QED
    BY <1>1, <2>1, <2>5, <2>6, <2>7, EvidenceStep DEF EvidenceOk
<1> QED
  BY <1>2, <1>3, <1>4 DEF Judge

LEMMA StartStep ==
    ASSUME OrdersAssumption, OrdersInv, NEW o \in Orders, Start(o)
    PROVE  OrdersInv'
<1>1. PICK what \in OrderCommands, req \in Requests \cup {Nothing}, head \in Heads \cup {Nothing}, ack \in BOOLEAN :
        /\ (req # Nothing) = (what \in {"clarify", "fix"})
        /\ (head # Nothing) = (what = "fix")
        /\ ack => what \in {"clarify", "fix", "cancel"}
        /\ (what = "dispatch" \/ order[o] # Nothing)
        /\ proc' = [proc EXCEPT ![o] = [Free EXCEPT !.pc = "branch", !.cmd = what, !.req = req,
                                                    !.head = head, !.ack = ack]]
  BY DEF Start
<1>2. /\ OrdersTypes /\ RoundsOk(o) /\ EvidenceOk(o) /\ UNCHANGED <<writer, sess, prov, late, told, paid, obs>>
      /\ (IF order[o] = Nothing THEN Writes(o, NewOrder) ELSE UNCHANGED order)
  BY At1 DEF Start, remote
<1> DEFINE p == [Free EXCEPT !.pc = "branch", !.cmd = what, !.req = req, !.head = head, !.ack = ack]
<1>3. p \in Procs /\ p.pc = "branch" /\ p.cmd = what /\ p.req = req
  BY <1>1 DEF Free, Procs, PCs, States
<1>4. proc' = [proc EXCEPT ![o] = p]
  BY <1>1
<1> HIDE DEF p
<1>5. proc' \in [Orders -> Procs] /\ proc'[o] = p /\ \A q \in Orders \ {o} : proc'[q] = proc[q]
  BY <1>2, <1>3, <1>4 DEF OrdersTypes
<1>6. what \in {"clarify", "fix"} => req \in Requests
  BY <1>1
<1>7. order'[o] # Nothing => ProcOk(o)'
  BY <1>1, <1>3, <1>5, <1>6 DEF ProcOk
<1>8. CASE order[o] # Nothing
  <2>1. UNCHANGED order
    BY <1>2, <1>8
  <2>2. Still(o)
    BY <1>2, <1>5, <2>1 DEF Still, OrdersTypes
  <2> QED
    BY <1>7, <1>8, <2>1, <2>2, StillStep
<1>9. CASE order[o] = Nothing
  <2>1. order' = [order EXCEPT ![o] = NewOrder]
    BY <1>2, <1>9 DEF Writes
  <2>2. Wrote(o, NewOrder)
    BY <1>2, <1>5, <2>1, Constants DEF Wrote
  <2>3. OrdersTypes' /\ Only(o) /\ order'[o] = NewOrder /\ OneWriter'
    BY <2>2, WroteFacts
  <2>4. /\ NewOrder # Nothing /\ NewOrder.round = 0 /\ NewOrder.claim = Nothing /\ NewOrder.verified = FALSE
        /\ NewOrder.msg = Nothing /\ NewOrder.pending = FALSE /\ NewOrder.used = {}
    BY Constants DEF NewOrder
  <2>5. RoundsOk(o)'
    BY <1>2, <1>9, <2>3, <2>4, Constants DEF RoundsOk
  <2>6. EvidenceOk(o)'
    BY <2>3, <2>4 DEF EvidenceOk
  <2>7. LateInv'
    <3> SUFFICES ASSUME NEW w \in late, w.k \in Requests PROVE LateOk(w)'
      BY <1>2 DEF LateInv
    <3>1. w.o \in Orders /\ LateOk(w)
      BY <1>2 DEF OrdersInv, OrdersTypes, Lates, LateInv
    <3>2. w.o # o
      BY <1>9, <3>1 DEF LateOk
    <3> QED
      BY <1>2, <2>3, <3>1, <3>2 DEF LateOk, Only
  <2> QED
    BY <1>7, <2>3, <2>4, <2>5, <2>6, <2>7, OnlyStep
<1> QED
  BY <1>8, <1>9

\* A new round is asked for only when the fate of the one before is known.
LEMMA IntendStep ==
    ASSUME OrdersAssumption, OrdersInv, NEW o \in Orders, Intend(o)
    PROVE  OrdersInv'
<1>1. /\ OrdersTypes /\ RoundsOk(o) /\ ProcOk(o) /\ order[o] \in Works /\ order[o] # Nothing
      /\ proc[o].pc = "intend" /\ UNCHANGED <<writer, sess, prov, late, told, paid, obs>>
      /\ proc[o] \in Procs /\ sess[o].ops \in [Keys -> {"absent", "pending", "done"}]
  BY At1, Constants DEF Intend, At, remote
<1>2. CASE Again(o) /\ order[o].msg = Said(o) /\ Goes(o, "remote") /\ UNCHANGED order
  BY <1>1, <1>2, AgainStep
<1>3. ASSUME NEW pull \in Shown, MayAsk(o, pull), Writes(o, Asked(order[o], Said(o))), Goes(o, "remote")
      PROVE  OrdersInv'
  <2> DEFINE q == Said(o)
             r == Asked(order[o], q)
  <2>1. proc[o].cmd \in {"clarify", "fix"} /\ proc[o].req \in Requests
    BY <1>1 DEF ProcOk
  <2>2. q \in Msgs /\ q.req = proc[o].req
    BY <1>1, <2>1 DEF Said, Msgs, Procs, OrderCommands
  <2>3. ~order[o].pending /\ proc[o].req \notin order[o].used /\ order[o].round < MaxRound
    BY <1>3 DEF MayAsk
  <2>4. order[o].round \in Nat /\ order[o].round + 1 \in Rounds /\ order[o].used \subseteq Requests
    BY <1>1, <2>3, Constants DEF Works, Rounds
  <2>5. order' = [order EXCEPT ![o] = r]
    BY <1>3 DEF Writes
  <2>6. /\ r \in Works /\ r.round = order[o].round + 1 /\ r.claim = Nothing /\ r.verified = FALSE
        /\ r.msg = q /\ r.pending = TRUE /\ r.used = order[o].used \cup {q.req}
    <3> HIDE DEF q
    <3> QED
      BY <1>1, <2>1, <2>2, <2>4 DEF Asked, Works
  <2>7. /\ proc' \in [Orders -> Procs] /\ \A x \in Orders \ {o} : proc'[x] = proc[x]
        /\ proc'[o].pc = "remote" /\ proc'[o].cmd = proc[o].cmd /\ proc'[o].req = proc[o].req
        /\ proc'[o].head = proc[o].head
    BY <1>1, <1>3, Going DEF PCs
  <2>8. Said(o)' = q
    BY <2>7 DEF Said
  <2> HIDE DEF q, r
  <2>9. Wrote(o, r)
    BY <1>1, <2>5, <2>6, <2>7 DEF Wrote
  <2>10. OrdersTypes' /\ Only(o) /\ order'[o] = r /\ OneWriter'
    BY <2>9, WroteFacts
  <2>11. ProcOk(o)'
    BY <1>1, <2>4, <2>6, <2>7, <2>8, <2>10, Constants DEF ProcOk
  <2>12. EvidenceOk(o)'
    BY <2>6, <2>10 DEF EvidenceOk
  <2>13. order[o].round > 0 => order[o].round \in told[o]
    BY <1>1, <2>3 DEF RoundsOk
  <2>14. sess[o].ops[q.req] = "absent"
    BY <1>1, <2>1, <2>2, <2>3, Constants DEF RoundsOk
  <2>15. RoundsOk(o)'
    <3>1. \A n \in told[o] : 0 < n /\ n <= order[o].round /\ n \in Rounds
      BY <1>1 DEF RoundsOk, OrdersTypes
    <3>2. order[o].round + 1 \notin told[o] /\ \A n \in told[o] : 0 < n /\ n <= order[o].round + 1
      BY <2>4, <3>1, Constants DEF Rounds
    <3>3. \A m \in 1..MaxRound : m < order[o].round + 1 => m \in told[o]
      BY <1>1, <2>4, <2>13 DEF RoundsOk
    <3>4. prov[o].taken # 0 => prov[o].taken \in told[o]
      BY <1>1 DEF RoundsOk
    <3>5. \A k \in Requests : sess[o].ops[k] # "absent" => k \in r.used
      BY <1>1, <2>6 DEF RoundsOk
    <3> QED
      BY <1>1, <2>2, <2>4, <2>6, <2>10, <2>14, <3>2, <3>3, <3>4, <3>5, Constants DEF RoundsOk
  <2>16. LateInv'
    <3> SUFFICES ASSUME NEW w \in late, w.k \in Requests PROVE LateOk(w)'
      BY <1>1 DEF LateInv
    <3>1. w.o \in Orders /\ LateOk(w)
      BY <1>1 DEF OrdersInv, OrdersTypes, Lates, LateInv
    <3>2. w.o # o
      BY <2>3, <3>1 DEF LateOk
    <3> QED
      BY <1>1, <2>10, <3>1, <3>2 DEF LateOk, Only
  <2> QED
    BY <2>10, <2>11, <2>12, <2>15, <2>16, OnlyStep
<1> QED
  BY <1>2, <1>3 DEF Intend
-----------------------------------------------------------------------------
(* Steps that move a message.                                              *)

\* The state of one request is written; the record is not.
MarkedAs(o, k, v) ==
    /\ UNCHANGED <<order, writer, paid, obs>>
    /\ sess' \in [Orders -> Sessions] /\ sess'[o].ops[k] = v
    /\ \A j \in Keys \ {k} : sess'[o].ops[j] = sess[o].ops[j]
    /\ \A q \in Orders \ {o} : sess'[q] = sess[q] /\ proc'[q] = proc[q] /\ told'[q] = told[q]
                               /\ prov'[q].taken = prov[q].taken
    /\ told[o] \subseteq told'[o] /\ proc' \in [Orders -> Procs]
    /\ prov' \in [Orders -> Provs] /\ told' \in [Orders -> SUBSET Rounds] /\ late' \in SUBSET Lates

LEMMA MarkedStep ==
    ASSUME OrdersAssumption, OrdersInv, NEW o \in Orders, NEW STATE k, NEW STATE v, MarkedAs(o, k, v),
           RoundsOk(o)', ProcOk(o)', LateInv'
    PROVE  OrdersInv'
<1>1. OrdersTypes' /\ Only(o) /\ OneWriter'
  BY DEF MarkedAs, OrdersInv, OrdersTypes, Only, OneWriter
<1>2. EvidenceOk(o)'
  BY DEF MarkedAs, OrdersInv, EvidenceOk
<1> QED
  BY <1>1, <1>2, OnlyStep

LEMMA KeyFacts ==
    ASSUME OrdersAssumption, OrdersInv, NEW o \in Orders, proc[o].pc = "op"
    PROVE  /\ Key(o) \in Keys
           /\ proc[o].cmd \in {"clarify", "fix"} =>
                 /\ Key(o) = proc[o].req /\ Key(o) \in Requests /\ order[o].round > 0
                 /\ order[o].msg.req = Key(o) /\ Key(o) # "cancel"
           /\ proc[o].cmd \notin {"clarify", "fix"} => Key(o) = "cancel" /\ Key(o) \notin Requests
<1>1. ProcOk(o)
  BY At1
<1>2. CASE proc[o].cmd \in {"clarify", "fix"}
  BY <1>1, <1>2, Constants DEF ProcOk, Key, Said
<1>3. CASE proc[o].cmd \notin {"clarify", "fix"}
  BY <1>1, <1>3, Constants DEF ProcOk, Key
<1> QED
  BY <1>2, <1>3

\* Whoever says that a message arrived has seen the provider work on its round.
LEMMA PriorStep ==
    ASSUME OrdersAssumption, OrdersInv, NEW o \in Orders, Prior(o)
    PROVE  OrdersInv'
<1> DEFINE k == Key(o)
           asks == proc[o].cmd \in {"clarify", "fix"}
<1>1. /\ OrdersTypes /\ RoundsOk(o) /\ ProcOk(o) /\ LateInv /\ order[o] \in Works /\ order[o] # Nothing
      /\ proc[o].pc = "op" /\ UNCHANGED <<order, writer, prov, late, told, paid, obs>>
      /\ sess[o] \in Sessions /\ sess[o].ops \in [Keys -> {"absent", "pending", "done"}]
  BY At1, Constants DEF Prior, At, Mine
<1>2. /\ k \in Keys
      /\ asks => /\ k = proc[o].req /\ k \in Requests /\ order[o].round > 0 /\ order[o].msg.req = k
      /\ ~asks => k = "cancel" /\ k \notin Requests
  BY <1>1, KeyFacts
<1>a. Goes(o, "get") => /\ proc' \in [Orders -> Procs] /\ \A q \in Orders \ {o} : proc'[q] = proc[q]
                        /\ proc'[o].pc = "get" /\ proc'[o].cmd = proc[o].cmd
                        /\ proc'[o].req = proc[o].req /\ proc'[o].head = proc[o].head
                        /\ Said(o)' = Said(o)
  BY <1>1, Going DEF PCs, Said
<1> HIDE DEF k
<1>3. CASE sess[o].ops[k] = "done" /\ Goes(o, "get") /\ UNCHANGED sess
  <2>1. ProcOk(o)'
    BY <1>1, <1>2, <1>3, <1>a DEF ProcOk
  <2>2. Still(o)
    BY <1>1, <1>3, <1>a DEF Still, OrdersTypes
  <2> QED
    BY <2>1, <2>2, StillStep
<1>4. CASE Ends(o) /\ UNCHANGED sess
  <2>1. Still(o) /\ ProcOk(o)'
    BY <1>1, <1>4, Ending DEF Still, OrdersTypes
  <2> QED
    BY <2>1, StillStep
<1>5. CASE /\ sess[o].ops[k] = "pending" /\ Arrived(o) /\ Goes(o, "get")
           /\ sess' = [sess EXCEPT ![o].ops[k] = "done"]
  <2> DEFINE f == [sess[o].ops EXCEPT ![k] = "done"]
             r == [sess[o] EXCEPT !.ops = f]
  <2>1. /\ f \in [Keys -> {"absent", "pending", "done"}] /\ f[k] = "done"
        /\ \A j \in Keys \ {k} : f[j] = sess[o].ops[j]
    BY <1>1, <1>2
  <2>2. sess' = [sess EXCEPT ![o] = r]
    BY <1>5
  <2> HIDE DEF f
  <2>3. r \in Sessions /\ r.ops = f
    BY <1>1, <2>1 DEF Sessions
  <2> HIDE DEF r
  <2>4. /\ sess' \in [Orders -> Sessions] /\ sess'[o].ops[k] = "done"
        /\ \A j \in Keys \ {k} : sess'[o].ops[j] = sess[o].ops[j]
        /\ \A q \in Orders \ {o} : sess'[q] = sess[q]
    BY <1>1, <2>1, <2>2, <2>3 DEF OrdersTypes
  <2>5. asks => prov[o].taken = order[o].round /\ order[o].round \in told[o]
    <3>1. asks => prov[o].taken = order[o].round
      BY <1>2, <1>5, Constants DEF Arrived, k
    <3> QED
      BY <1>1, <1>2, <3>1 DEF RoundsOk
  <2>6. MarkedAs(o, k, "done")
    BY <1>1, <1>5, <1>a, <2>4 DEF MarkedAs, OrdersTypes
  <2>7. ProcOk(o)'
    BY <1>1, <1>2, <1>5, <1>a, <2>4 DEF ProcOk
  <2>8. RoundsOk(o)'
    <3>1. order[o].round > 0 =>
            /\ order[o].msg.req \in Keys
            /\ sess'[o].ops[order[o].msg.req] = "absent" => sess[o].ops[order[o].msg.req] = "absent"
            /\ sess'[o].ops[order[o].msg.req] = "done" =>
                  order[o].round \in told[o]
            /\ sess[o].ops[order[o].msg.req] = "done" => sess'[o].ops[order[o].msg.req] = "done"
      <4> HAVE order[o].round > 0
      <4>1. order[o].msg.req \in Requests /\ order[o].msg.req \in Keys
        BY <1>1, Constants DEF RoundsOk, Msgs
      <4>2. CASE order[o].msg.req = k
        BY <1>1, <1>2, <2>4, <2>5, <4>1, <4>2
      <4>3. CASE order[o].msg.req # k
        BY <1>1, <2>4, <4>1, <4>3 DEF RoundsOk
      <4> QED
        BY <4>2, <4>3
    <3>2. \A j \in Requests : sess'[o].ops[j] # "absent" => j \in order[o].used
      BY <1>1, <1>2, <1>5, <2>4, Constants DEF RoundsOk
    <3> QED
      BY <1>1, <3>1, <3>2 DEF RoundsOk
  <2>9. LateInv'
    <3> SUFFICES ASSUME NEW w \in late, w.k \in Requests PROVE LateOk(w)'
      BY <1>1 DEF LateInv
    <3>1. w.o \in Orders /\ LateOk(w) /\ w.k \in Keys
      BY <1>1, Constants DEF OrdersTypes, Lates, LateInv
    <3>2. CASE w.o = o
      <4>1. w.k # k
        BY <1>2, <2>5, <3>1, <3>2 DEF LateOk
      <4> QED
        BY <1>1, <2>4, <3>1, <3>2, <4>1 DEF LateOk
    <3>3. CASE w.o # o
      BY <1>1, <2>4, <3>1, <3>3 DEF LateOk
    <3> QED
      BY <3>2, <3>3
  <2> QED
    BY <2>6, <2>7, <2>8, <2>9, MarkedStep
<1> QED
  BY <1>3, <1>4, <1>5 DEF Prior, k

\* A message leaves only after every earlier one has a known fate.
LEMMA SendStep ==
    ASSUME OrdersAssumption, OrdersInv, NEW o \in Orders, Send(o)
    PROVE  OrdersInv'
<1> DEFINE k == Key(o)
           n == order[o].round
           asks == proc[o].cmd \in {"clarify", "fix"}
           W == Write(o)
<1>1. /\ OrdersTypes /\ RoundsOk(o) /\ ProcOk(o) /\ LateInv /\ order[o] \in Works /\ order[o] # Nothing
      /\ proc[o].pc = "op" /\ UNCHANGED <<order, writer, paid, obs>>
      /\ sess[o].ops[k] = "absent" /\ ~Unanswered(o)
      /\ sess[o] \in Sessions /\ sess[o].ops \in [Keys -> {"absent", "pending", "done"}]
      /\ prov[o] \in Provs /\ told[o] \in SUBSET Rounds /\ n \in Rounds
  BY At1, Constants DEF Send, At, Mine, Works
<1>2. /\ k \in Keys
      /\ asks => /\ k = proc[o].req /\ k \in Requests /\ n > 0 /\ order[o].msg.req = k /\ k # "cancel"
      /\ ~asks => k = "cancel" /\ k \notin Requests
  BY <1>1, KeyFacts
<1>3. W \in Lates /\ W.o = o /\ W.k = k /\ W.round = n
  BY <1>1, <1>2 DEF Write, Lates
\* the outcomes of sending, apart from what becomes of the command
<1> DEFINE Takes == prov' = [prov EXCEPT ![o].taken = n]
           Tells == told' = [told EXCEPT ![o] = @ \cup {n}]
<1>4. Effect(W) => IF asks THEN Takes ELSE prov' = prov
  BY <1>2, <1>3, Constants DEF Effect
<1>5. Tell(o) => IF asks THEN Tells ELSE told' = told
  BY <1>2 DEF Tell
<1>6. /\ Takes => /\ prov' \in [Orders -> Provs] /\ prov'[o].taken = n
                  /\ \A q \in Orders \ {o} : prov'[q] = prov[q]
      /\ Tells => /\ told' \in [Orders -> SUBSET Rounds] /\ told'[o] = told[o] \cup {n}
                  /\ \A q \in Orders \ {o} : told'[q] = told[q]
  BY <1>1 DEF OrdersTypes, Provs
<1> HIDE DEF W, Takes, Tells
<1>7. PICK v \in {"pending", "done"} :
        /\ sess' = [sess EXCEPT ![o] = [sess[o] EXCEPT !.ops = [sess[o].ops EXCEPT ![k] = v], !.result = Nothing]]
        /\ \/ v = "done" /\ Effect(W) /\ Tell(o) /\ UNCHANGED late /\ Goes(o, "get")
           \/ /\ v = "pending" /\ Ends(o)
              /\ \/ UNCHANGED <<prov, late, told>>
                 \/ Tell(o) /\ UNCHANGED <<prov, late>>
                 \/ Tell(o) /\ Effect(W) /\ UNCHANGED late
                 \/ Tell(o) /\ late' = late \cup {W} /\ UNCHANGED prov
  <2>1. CASE /\ sess' = [sess EXCEPT ![o] = [Intent(o) EXCEPT !.ops[Key(o)] = "done"]]
             /\ Effect(W) /\ Tell(o) /\ UNCHANGED late /\ Goes(o, "get")
    <3>1. [Intent(o) EXCEPT !.ops[Key(o)] = "done"]
            = [sess[o] EXCEPT !.ops = [sess[o].ops EXCEPT ![k] = "done"], !.result = Nothing]
      BY <1>1, <1>2 DEF Intent, Sessions
    <3> QED
      BY <2>1, <3>1
  <2>2. CASE /\ sess' = [sess EXCEPT ![o] = Intent(o)] /\ Ends(o)
             /\ \/ UNCHANGED <<prov, late, told>>
                \/ Tell(o) /\ UNCHANGED <<prov, late>>
                \/ Tell(o) /\ Effect(W) /\ UNCHANGED late
                \/ Tell(o) /\ late' = late \cup {W} /\ UNCHANGED prov
    <3>1. Intent(o) = [sess[o] EXCEPT !.ops = [sess[o].ops EXCEPT ![k] = "pending"], !.result = Nothing]
      BY <1>1, <1>2 DEF Intent, Sessions
    <3> QED
      BY <2>2, <3>1
  <2> QED
    BY <2>1, <2>2 DEF Send, W
<1> DEFINE f == [sess[o].ops EXCEPT ![k] = v]
           r == [sess[o] EXCEPT !.ops = f, !.result = Nothing]
<1>8. /\ f \in [Keys -> {"absent", "pending", "done"}] /\ f[k] = v
      /\ \A j \in Keys \ {k} : f[j] = sess[o].ops[j]
  BY <1>1, <1>2
<1>9. sess' = [sess EXCEPT ![o] = r]
  BY <1>7
<1> HIDE DEF f
<1>10. r \in Sessions /\ r.ops = f
  BY <1>1, <1>8 DEF Sessions
<1> HIDE DEF r, k
<1>11. /\ sess' \in [Orders -> Sessions] /\ sess'[o].ops[k] = v
       /\ \A j \in Keys \ {k} : sess'[o].ops[j] = sess[o].ops[j]
       /\ \A q \in Orders \ {o} : sess'[q] = sess[q]
  BY <1>1, <1>8, <1>9, <1>10 DEF OrdersTypes
<1>12. /\ proc' \in [Orders -> Procs] /\ (\A q \in Orders \ {o} : proc'[q] = proc[q])
       /\ ProcOk(o)'
  <2>1. CASE Ends(o)
    BY <1>1, <2>1, Ending
  <2>2. CASE Goes(o, "get") /\ v = "done"
    <3>1. /\ proc' \in [Orders -> Procs] /\ \A q \in Orders \ {o} : proc'[q] = proc[q]
          /\ proc'[o].pc = "get" /\ proc'[o].cmd = proc[o].cmd
          /\ proc'[o].req = proc[o].req /\ proc'[o].head = proc[o].head
      BY <1>1, <2>2, Going DEF PCs
    <3>2. Said(o)' = Said(o)
      BY <3>1 DEF Said
    <3>3. ProcOk(o)'
      BY <1>1, <1>2, <1>11, <2>2, <3>1, <3>2 DEF ProcOk
    <3> QED
      BY <3>1, <3>3
  <2> QED
    BY <1>7, <2>1, <2>2
<1>13. /\ prov' \in [Orders -> Provs] /\ told' \in [Orders -> SUBSET Rounds]
       /\ \A q \in Orders \ {o} : told'[q] = told[q] /\ prov'[q].taken = prov[q].taken
       /\ told'[o] \in {told[o], told[o] \cup {n}}
       /\ prov'[o].taken \in {prov[o].taken, n}
       /\ prov'[o].taken # prov[o].taken => n \in told'[o]
       /\ asks /\ v = "done" => n \in told'[o]
       /\ ~asks => told' = told /\ prov' = prov
  <2>1. CASE asks
    BY <1>1, <1>4, <1>5, <1>6, <1>7, <2>1 DEF OrdersTypes
  <2>2. CASE ~asks
    BY <1>1, <1>4, <1>5, <1>7, <2>2 DEF OrdersTypes
  <2> QED
    BY <2>1, <2>2
<1>14. \/ late' = late
       \/ late' = late \cup {W} /\ v = "pending" /\ prov' = prov /\ (asks => n \in told'[o])
  BY <1>5, <1>6, <1>7
<1>15. late' \in SUBSET Lates
  BY <1>1, <1>3, <1>14 DEF OrdersTypes
<1>16. MarkedAs(o, k, v)
  BY <1>1, <1>11, <1>12, <1>13, <1>15 DEF MarkedAs
<1>17. order[o].round > 0 => order[o].msg.req \in Requests /\ order[o].msg.req \in Keys
  BY <1>1, Constants DEF RoundsOk, Msgs
<1>18. RoundsOk(o)'
  <2>1. CASE asks
    <3>1. n \notin told[o] /\ prov[o].taken # n
      BY <1>1, <1>2, <2>1 DEF RoundsOk
    <3>2. k \in order[o].used
      BY <1>1, <1>2, <2>1 DEF RoundsOk
    <3>3. \A j \in Requests : sess'[o].ops[j] # "absent" => j \in order[o].used
      BY <1>1, <1>11, <3>2, Constants DEF RoundsOk
    <3>4. \A x \in told'[o] : 0 < x /\ x <= n
      BY <1>1, <1>2, <1>13, <2>1, Constants DEF RoundsOk, Rounds
    <3>5. prov'[o].taken # 0 => prov'[o].taken \in told'[o]
      BY <1>1, <1>13, <3>1 DEF RoundsOk
    <3>6. order[o].pending
      BY <1>1, <1>2, <2>1 DEF RoundsOk
    <3>7. \A m \in 1..MaxRound : m < n => m \in told'[o]
      BY <1>1, <1>13 DEF RoundsOk
    <3> QED
      BY <1>1, <1>2, <1>7, <1>11, <1>13, <2>1, <3>3, <3>4, <3>5, <3>6, <3>7 DEF RoundsOk
  <2>2. CASE ~asks
    <3>1. \A j \in Requests : sess'[o].ops[j] = sess[o].ops[j]
      BY <1>2, <1>11, <2>2, Constants
    <3> QED
      BY <1>1, <1>13, <1>17, <2>2, <3>1 DEF RoundsOk
  <2> QED
    BY <2>1, <2>2
<1>19. LateInv'
  <2> SUFFICES ASSUME NEW w \in late', w.k \in Requests PROVE LateOk(w)'
    BY DEF LateInv
  <2>1. CASE w \in late
    <3>1. w.o \in Orders /\ LateOk(w) /\ w.k \in Keys
      BY <1>1, <2>1, Constants DEF OrdersTypes, Lates, LateInv
    <3>2. w.o # o
      BY <1>1, <3>1 DEF LateOk, Unanswered
    <3> QED
      BY <1>1, <1>11, <1>13, <3>1, <3>2 DEF LateOk
  <2>2. CASE w \notin late
    <3>1. w = W /\ v = "pending" /\ prov' = prov /\ (asks => n \in told'[o])
      BY <1>14, <2>2
    <3>2. asks
      BY <1>2, <1>3, <3>1
    <3>3. n \notin told[o] /\ prov[o].taken # n /\ order[o].pending
      BY <1>1, <1>2, <3>2 DEF RoundsOk
    <3> QED
      BY <1>1, <1>2, <1>3, <1>11, <3>1, <3>2, <3>3 DEF LateOk
  <2> QED
    BY <2>1, <2>2
<1> QED
  BY <1>12, <1>16, <1>18, <1>19, MarkedStep

\* A late message takes effect in the round it was sent for.
LEMMA ArriveStep ==
    ASSUME OrdersAssumption, OrdersInv, Arrive
    PROVE  OrdersInv'
<1>1. PICK w \in late : late' = late \ {w} /\ (Effect(w) \/ UNCHANGED prov)
  BY DEF Arrive
<1>2. UNCHANGED <<order, writer, sess, told, paid, proc, obs>>
  BY DEF Arrive
<1> DEFINE o == w.o
<1>3. /\ w \in Lates /\ o \in Orders /\ w.round \in Rounds /\ OrdersTypes /\ LateInv
      /\ (w.k \in Requests => LateOk(w))
  BY DEF OrdersInv, OrdersTypes, Lates, LateInv
<1>4. /\ prov' \in [Orders -> Provs] /\ \A q \in Orders \ {o} : prov'[q].taken = prov[q].taken
      /\ \/ prov'[o].taken = prov[o].taken
         \/ w.k \in Requests /\ prov'[o].taken = w.round
  <2>1. CASE UNCHANGED prov
    BY <1>3, <2>1 DEF OrdersTypes
  <2>2. CASE prov' = [prov EXCEPT ![o].exists = TRUE]
    BY <1>3, <2>2 DEF OrdersTypes, Provs
  <2>3. CASE w.k # "create" /\ w.k # "cancel" /\ prov' = [prov EXCEPT ![o].taken = w.round]
    <3>1. w.k \in Requests
      BY <1>3, <2>3 DEF Lates, Keys
    <3> QED
      BY <1>3, <2>3, <3>1 DEF OrdersTypes, Provs
  <2> QED
    BY <1>1, <2>1, <2>2, <2>3 DEF Effect
<1>5. /\ RoundsOk(o) /\ EvidenceOk(o) /\ ProcOk(o)
  BY <1>3 DEF OrdersInv
<1> HIDE DEF o
<1>6. OrdersTypes' /\ Only(o) /\ OneWriter'
  BY <1>1, <1>2, <1>3, <1>4 DEF OrdersInv, OrdersTypes, Only, OneWriter
<1>7. RoundsOk(o)'
  BY <1>2, <1>3, <1>4, <1>5 DEF RoundsOk, LateOk, o
<1>8. EvidenceOk(o)' /\ ProcOk(o)'
  BY <1>2, <1>5 DEF EvidenceOk, ProcOk, Said, Unanswered
<1>9. LateInv'
  <2> SUFFICES ASSUME NEW x \in late', x.k \in Requests PROVE LateOk(x)'
    BY DEF LateInv
  <2>1. x \in late /\ x # w /\ x \in Lates /\ LateOk(x) /\ x.o \in Orders
    BY <1>1, <1>3 DEF OrdersTypes, Lates, LateInv
  <2>2. CASE x.o = o /\ w.k \in Requests
    <3>1. x.k = w.k /\ x.round = w.round /\ x.o = w.o
      BY <1>3, <2>1, <2>2 DEF LateOk, o
    <3>2. x = w
      BY <1>3, <2>1, <3>1 DEF Lates
    <3> QED
      BY <2>1, <3>2
  <2>3. CASE ~(x.o = o /\ w.k \in Requests)
    <3>1. prov'[x.o].taken = prov[x.o].taken
      BY <1>4, <2>1, <2>3
    <3> QED
      BY <1>2, <2>1, <3>1 DEF LateOk
  <2> QED
    BY <2>2, <2>3
<1>10. o \in Orders
  BY <1>3 DEF o
<1> QED
  BY <1>6, <1>7, <1>8, <1>9, <1>10, OnlyStep
-----------------------------------------------------------------------------
(* Observations change nothing but what is seen.                           *)

LEMMA SeenStep ==
    ASSUME OrdersAssumption, OrdersInv, UNCHANGED <<order, writer, sess, prov, late, told, paid, proc>>,
           obs' \in Views, ObsInv'
    PROVE  OrdersInv'
<1>1. OrdersTypes' /\ LateInv' /\ OneWriter'
  BY DEF OrdersInv, OrdersTypes, LateInv, LateOk, OneWriter
<1>2. ASSUME NEW o \in Orders PROVE RoundsOk(o)' /\ EvidenceOk(o)' /\ ProcOk(o)'
  BY DEF OrdersInv, RoundsOk, EvidenceOk, ProcOk, Said, Unanswered
<1> QED
  BY <1>1, <1>2 DEF OrdersInv

\* A settled record that is read has had its rounds told.
LEMMA LookStep ==
    ASSUME OrdersAssumption, OrdersInv, NEW o \in Orders, Look(o)
    PROVE  OrdersInv'
<1>1. /\ OrdersTypes /\ RoundsOk(o) /\ order[o] \in Works
      /\ UNCHANGED <<order, writer, sess, prov, late, told, paid, proc>>
      /\ obs' = [NoView EXCEPT !.pc = "session", !.o = o, !.rec = order[o]]
  BY At1 DEF Look, Seen, remote
<1>2. /\ obs'.pc = "session" /\ obs'.o = o /\ obs'.rec = order[o] /\ obs' \in Views
  BY <1>1 DEF NoView, Views, States
<1>3. order[o].round \in Rounds
  BY <1>1 DEF Works
<1>4. ~order[o].pending => \A m \in 1..order[o].round : m \in told[o]
  BY <1>1, <1>3, Constants DEF RoundsOk, Rounds
<1>5. ObsInv'
  BY <1>1, <1>2, <1>4 DEF ObsInv
<1> QED
  BY <1>1, <1>2, <1>5, SeenStep

LEMMA LookSessionStep ==
    ASSUME OrdersAssumption, OrdersInv, NEW o \in Orders, LookSession(o)
    PROVE  OrdersInv'
<1>1. /\ OrdersTypes /\ ObsInv /\ obs.pc = "session" /\ obs.o = o
      /\ UNCHANGED <<order, writer, sess, prov, late, told, paid, proc>>
  BY DEF LookSession, Seen, remote, OrdersInv
<1>2. PICK say \in Says : obs' = [obs EXCEPT !.pc = "pull", !.state = Shows(o, say), !.told = told[o]]
  BY DEF LookSession
<1>3. Shows(o, say) \in States /\ told[o] \in SUBSET Rounds /\ obs \in Views
  BY <1>1 DEF Shows, States, OrdersTypes
<1>4. /\ obs'.pc = "pull" /\ obs'.o = o /\ obs'.rec = obs.rec /\ obs'.told = told[o] /\ obs' \in Views
  BY <1>1, <1>2, <1>3 DEF Views
<1>5. ObsInv'
  BY <1>1, <1>4 DEF ObsInv
<1> QED
  BY <1>1, <1>4, <1>5, SeenStep

\* What an observation that is told says of the record it read.
LEMMA ViewFacts ==
    ASSUME OrdersAssumption, OrdersInv, NEW pull \in Shown, obs.pc = "pull", obs' = View(pull)
    PROVE  /\ obs' \in Views /\ obs'.pc = "told" /\ obs'.told = obs.told
           /\ obs'.verified => obs.rec.verified
           /\ obs.rec.pending => obs'.state = "uncertain"
<1> DEFINE v == obs.rec.verified /\ Holds(obs.rec.claim, obs.rec.round, pull) /\ ~obs.rec.rejected
           unclear == \/ obs.rec.pending
                      \/ /\ obs.state \in {"bare", "complete"}
                         /\ obs.rec.rejected \/ ((obs.rec.round > 0 \/ obs.rec.verified) /\ ~v)
           st == IF unclear THEN "uncertain" ELSE obs.state
<1>1. obs \in Views /\ obs.state \in States
  BY DEF OrdersInv, OrdersTypes, Views
<1>2. obs' = [obs EXCEPT !.pc = "told", !.rec = Nothing, !.verified = v, !.state = st]
  BY <1>1 DEF View, Views
<1>3. v \in BOOLEAN /\ (v => obs.rec.verified)
  BY Zenon
<1>4. st \in States /\ (obs.rec.pending => st = "uncertain")
  BY <1>1 DEF States
<1> HIDE DEF v, st
<1>5. PICK c \in BOOLEAN : c = v /\ (c => obs.rec.verified)
  BY <1>3, Zenon
<1>6. obs' = [obs EXCEPT !.pc = "told", !.rec = Nothing, !.verified = c, !.state = st]
  BY <1>2, <1>5, Zenon
<1>7. /\ obs' \in Views /\ obs'.pc = "told" /\ obs'.told = obs.told /\ obs'.verified = c /\ obs'.state = st
  BY <1>1, <1>4, <1>6 DEF Views
<1>8. obs'.verified => obs.rec.verified
  BY <1>5, <1>7
<1> QED
  BY <1>4, <1>7, <1>8

LEMMA LookAgainStep ==
    ASSUME OrdersAssumption, OrdersInv, NEW o \in Orders, LookAgain(o)
    PROVE  OrdersInv'
<1>1. /\ obs.pc = "pull" /\ UNCHANGED <<order, writer, sess, prov, late, told, paid, proc>>
  BY DEF LookAgain, Seen, remote
<1>2. PICK pull \in Shown : obs' = IF SameOrder(o) THEN View(pull) ELSE NoView
  BY DEF LookAgain
<1>3. CASE SameOrder(o)
  <2>1. obs' \in Views /\ obs'.pc = "told"
    BY <1>1, <1>2, <1>3, ViewFacts
  <2> QED
    BY <1>1, <2>1, SeenStep DEF ObsInv
<1>4. CASE ~SameOrder(o)
  <2>1. obs' \in Views /\ obs'.pc = "idle"
    BY <1>2, <1>4, Constants DEF NoView
  <2> QED
    BY <1>1, <2>1, SeenStep DEF ObsInv
<1> QED
  BY <1>3, <1>4

LEMMA ForgetStep ==
    ASSUME OrdersAssumption, OrdersInv, Forget
    PROVE  OrdersInv'
<1>1. /\ UNCHANGED <<order, writer, sess, prov, late, told, paid, proc>> /\ obs' = NoView
  BY DEF Forget, remote
<1>2. obs' \in Views /\ obs'.pc = "idle"
  BY <1>1, Constants DEF NoView
<1> QED
  BY <1>1, <1>2, SeenStep DEF ObsInv
-----------------------------------------------------------------------------
(* The invariant is inductive.                                             *)

LEMMA OrdersInvInit ==
    ASSUME OrdersAssumption, OrdersInit
    PROVE  OrdersInv
<1>1. /\ order = [o \in Orders |-> Nothing] /\ writer = Nothing
      /\ sess = [o \in Orders |-> NoRemote] /\ prov = [o \in Orders |-> NoWork]
      /\ late = {} /\ told = [o \in Orders |-> {}] /\ paid = {}
      /\ proc = [o \in Orders |-> Free] /\ obs = NoView
  BY DEF OrdersInit
<1>2. OrdersTypes
  BY <1>1, Constants DEF OrdersTypes
<1>3. ASSUME NEW o \in Orders PROVE RoundsOk(o) /\ EvidenceOk(o) /\ ProcOk(o)
  <2>1. order[o] = Nothing /\ sess[o] = NoRemote /\ prov[o] = NoWork /\ told[o] = {} /\ proc[o] = Free
    BY <1>1
  <2>2. \A k \in Requests : NoRemote.ops[k] = "absent"
    BY Constants DEF NoRemote
  <2>3. RoundsOk(o)
    BY <2>1, <2>2 DEF RoundsOk, NoWork
  <2>4. EvidenceOk(o) /\ ProcOk(o)
    BY <2>1 DEF EvidenceOk, ProcOk, Free
  <2> QED
    BY <2>3, <2>4
<1>4. LateInv /\ OneWriter
  BY <1>1 DEF LateInv, OneWriter
<1>5. ObsInv
  BY <1>1 DEF ObsInv, NoView
<1> QED
  BY <1>2, <1>3, <1>4, <1>5 DEF OrdersInv

LEMMA OrdersInvNext ==
    ASSUME OrdersAssumption, OrdersInv, [OrdersNext]_orderVars
    PROVE  OrdersInv'
<1>1. ASSUME NEW o \in Orders, Step(o) PROVE OrdersInv'
  <2>1. CASE Start(o) \/ Branch(o) \/ Intend(o)
    BY <2>1, StartStep, BranchStep, IntendStep
  <2>2. CASE Create(o) \/ Find(o) \/ Prior(o) \/ Send(o) \/ Get(o)
    BY <2>2, CreateStep, FindStep, PriorStep, SendStep, GetStep
  <2>3. CASE After(o) \/ Judge(o) \/ Discard(o) \/ Killed(o)
    BY <2>3, AfterStep, JudgeStep, DiscardStep, KilledStep
  <2>4. CASE Look(o) \/ LookSession(o) \/ LookAgain(o)
    BY <2>4, LookStep, LookSessionStep, LookAgainStep
  <2> QED
    BY <1>1, <2>1, <2>2, <2>3, <2>4 DEF Step
<1>2. CASE Forget \/ Arrive
  BY <1>2, ForgetStep, ArriveStep
<1>3. CASE UNCHANGED orderVars
  <2>1. UNCHANGED <<order, writer, sess, prov, late, told, paid, proc, obs>>
    BY <1>3 DEF orderVars
  <2> QED
    BY <2>1, SeenStep DEF OrdersInv, OrdersTypes, ObsInv
<1> QED
  BY <1>1, <1>2, <1>3 DEF OrdersNext

LEMMA OrdersInvariant ==
    ASSUME OrdersAssumption
    PROVE  OrdersSpec => []OrdersInv
<1>1. OrdersInit => OrdersInv
  BY OrdersInvInit
<1>2. OrdersInv /\ [OrdersNext]_orderVars => OrdersInv'
  BY OrdersInvNext
<1> QED
  BY <1>1, <1>2, PTL DEF OrdersSpec
-----------------------------------------------------------------------------
(* What orders promise.                                                    *)

\* An order, its remote session and the command that holds it are always well formed
\* (devin_work_orders.py, the record that DevinWorkOrders._run stores).
THEOREM OrdersTypeCorrect ==
    ASSUME OrdersAssumption
    PROVE  OrdersSpec => []OrdersTypeOK
<1>1. OrdersInv => OrdersTypeOK
  BY DEF OrdersInv, OrdersTypes, OrdersTypeOK, Sessions, Provs, Procs, States
<1> QED
  BY <1>1, OrdersInvariant, PTL

\* Of the orders that go to one branch only the one whose writer is stored pays for a
\* session (devin_work_orders.py, DevinWorkOrders._run: the writer is reserved before the
\* remote session is asked), whatever commands run at once, are killed, or have a creation
\* arrive late.
THEOREM OneOrderPays ==
    ASSUME OrdersAssumption
    PROVE  OrdersSpec => []OneWriter
<1>1. OrdersInv => OneWriter
  BY DEF OrdersInv
<1> QED
  BY <1>1, OrdersInvariant, PTL

\* Evidence stands for the round and the pull request of its order, and no message of a
\* later round has left, since one is recorded, with the evidence dropped, before it is
\* sent (devin_work_orders.py, DevinWorkOrders._run, clarify, fix and collect).
THEOREM EvidenceStands ==
    ASSUME OrdersAssumption
    PROVE  OrdersSpec => []EvidenceIsCurrent
<1>1. OrdersInv => EvidenceIsCurrent
  <2> SUFFICES ASSUME OrdersInv, NEW o \in Orders, order[o] # Nothing, order[o].claim # Nothing
               PROVE  /\ order[o].claim.round = order[o].round /\ order[o].claim.pr = order[o].pr
                      /\ \A n \in told[o] : n <= order[o].claim.round
                      /\ order[o].verified => ~order[o].rejected
    BY DEF EvidenceIsCurrent
  <2>1. RoundsOk(o) /\ EvidenceOk(o)
    BY DEF OrdersInv
  <2> QED
    BY <2>1 DEF RoundsOk, EvidenceOk
<1> QED
  BY <1>1, OrdersInvariant, PTL

\* Messages leave in the order of their rounds, each once the fate of those before it is
\* known, so that one which arrives late is still the order's last
\* (devin_work_orders.py, DevinWorkOrders._run, clarify and fix, over the intents of
\* remote_session.py, RemoteSessions.run).
THEOREM RoundsGoOut ==
    ASSUME OrdersAssumption
    PROVE  OrdersSpec => []RoundsInOrder
<1>1. OrdersInv => RoundsInOrder
  <2> SUFFICES ASSUME OrdersInv, NEW o \in Orders
               PROVE  /\ (order[o] # Nothing /\ order[o].round > 0 /\ ~order[o].pending)
                           => order[o].round \in told[o]
                      /\ \A n \in told[o], m \in 1..MaxRound : m < n => m \in told[o]
                      /\ \A w \in late : w.o = o /\ w.k \in Requests => \A n \in told[o] : n <= w.round
    BY DEF RoundsInOrder
  <2>1. RoundsOk(o) /\ LateInv /\ told[o] \in SUBSET Rounds /\ order[o] \in Works \cup {Nothing}
    BY At1
  <2>2. ASSUME NEW n \in told[o] PROVE order[o] # Nothing /\ n \in Nat /\ n <= order[o].round /\ order[o].round \in Nat
    BY <2>1, Constants DEF RoundsOk, Works, Rounds
  <2>3. (order[o] # Nothing /\ order[o].round > 0 /\ ~order[o].pending) => order[o].round \in told[o]
    BY <2>1 DEF RoundsOk
  <2>4. ASSUME NEW n \in told[o], NEW m \in 1..MaxRound, m < n PROVE m \in told[o]
    <3>1. order[o] # Nothing /\ m < order[o].round
      BY <2>2, <2>4
    <3> QED
      BY <2>1, <3>1 DEF RoundsOk
  <2>5. ASSUME NEW w \in late, w.o = o, w.k \in Requests, NEW n \in told[o] PROVE n <= w.round
    BY <2>1, <2>2, <2>5 DEF LateInv, LateOk
  <2> QED
    BY <2>3, <2>4, <2>5
<1> QED
  BY <1>1, OrdersInvariant, PTL

\* Every step keeps the pull request that an order's evidence has named.
LEMMA PullRequestStep ==
    ASSUME OrdersAssumption, OrdersInv, [OrdersNext]_orderVars
    PROVE  OnePullRequest
<1> SUFFICES ASSUME NEW q \in Orders, order[q] # Nothing, order[q].pr # Nothing
             PROVE  order'[q].pr = order[q].pr
  BY DEF OnePullRequest
<1>1. order \in [Orders -> Works \cup {Nothing}] /\ order[q] \in Works
  BY DEF OrdersInv, OrdersTypes
<1>2. ASSUME NEW o \in Orders, NEW r, Writes(o, r), o = q => r.pr = order[q].pr
      PROVE  order'[q].pr = order[q].pr
  BY <1>1, <1>2 DEF Writes
<1>3. ASSUME NEW o \in Orders, Step(o) PROVE order'[q].pr = order[q].pr
  <2>1. CASE Start(o)
    BY <1>1, <2>1 DEF Start, Writes
  <2>2. CASE Intend(o)
    <3>1. CASE Writes(o, Asked(order[o], Said(o)))
      <4>1. o = q => Asked(order[o], Said(o)).pr = order[q].pr
        BY <1>1 DEF Asked, Works
      <4> HIDE DEF Asked
      <4> QED
        BY <1>2, <3>1, <4>1
    <3> QED
      BY <1>1, <2>2, <3>1 DEF Intend
  <2>3. CASE After(o)
    <3>1. ASSUME NEW b, Writes(o, [order[o] EXCEPT !.pending = b]) \/ Writes(o, [order[o] EXCEPT !.verified = b])
          PROVE  order'[q].pr = order[q].pr
      <4>1. o = q => /\ [order[o] EXCEPT !.pending = b].pr = order[q].pr
                     /\ [order[o] EXCEPT !.verified = b].pr = order[q].pr
        BY <1>1 DEF Works
      <4> QED
        BY <1>2, <3>1, <4>1
    <3> QED
      BY <1>1, <2>3, <3>1, Zenon DEF After
  <2>4. CASE Judge(o)
    <3>1. CASE UNCHANGED order
      BY <3>1
    <3>2. CASE Writes(o, [order[o] EXCEPT !.rejected = TRUE])
      <4>1. o = q => [order[o] EXCEPT !.rejected = TRUE].pr = order[q].pr
        BY <1>1 DEF Works
      <4> QED
        BY <1>2, <3>2, <4>1
    <3>3. CASE /\ \E pull \in Shown : Accepts(o, pull)
               /\ Writes(o, [order[o] EXCEPT !.claim = sess[o].result, !.verified = TRUE, !.pr = sess[o].result.pr,
                                             !.rejected = FALSE])
      <4>1. o = q => sess[o].result.pr = order[q].pr
        BY <3>3 DEF Accepts
      <4>2. o = q => [order[o] EXCEPT !.claim = sess[o].result, !.verified = TRUE, !.pr = sess[o].result.pr,
                                      !.rejected = FALSE].pr = order[q].pr
        BY <1>1, <4>1 DEF Works
      <4> QED
        BY <1>2, <3>3, <4>2
    <3> QED
      BY <2>4, <3>1, <3>2, <3>3 DEF Judge
  <2>5. CASE \/ Branch(o) \/ Create(o) \/ Find(o) \/ Prior(o) \/ Send(o) \/ Get(o) \/ Discard(o)
             \/ Killed(o) \/ Look(o) \/ LookSession(o) \/ LookAgain(o)
    BY <2>5 DEF Branch, Create, Find, Prior, Send, Get, Discard, Killed, Look, LookSession, LookAgain,
                Mine, Seen
  <2> QED
    BY <1>3, <2>1, <2>2, <2>3, <2>4, <2>5 DEF Step
<1>4. CASE Forget \/ Arrive \/ UNCHANGED orderVars
  BY <1>4 DEF Forget, Arrive, orderVars
<1> QED
  BY <1>3, <1>4 DEF OrdersNext

\* Once evidence named the pull request of an order no later collection replaces it, as
\* collect compares it with the one stored (devin_work_orders.py, DevinWorkOrders._run).
THEOREM OnePullRequestEver ==
    ASSUME OrdersAssumption
    PROVE  OrdersSpec => [][OnePullRequest]_orderVars
<1>1. OrdersInv /\ [OrdersNext]_orderVars => OnePullRequest
  BY PullRequestStep
<1> QED
  BY <1>1, OrdersInvariant, PTL DEF OrdersSpec

\* An observation that is told is of the record the order still has.
LEMMA ViewStep ==
    ASSUME OrdersAssumption, OrdersInv, [OrdersNext]_orderVars
    PROVE  ViewIsCurrent
<1> SUFFICES ASSUME obs.pc = "pull", obs'.pc = "told"
             PROVE  /\ obs'.verified => order[obs.o].verified
                    /\ obs'.state \in {"bare", "complete"} =>
                         \A n \in told[obs.o] : n \in obs.told /\ n <= order[obs.o].round
  BY DEF ViewIsCurrent
<1>1. PICK o \in Orders : LookAgain(o)
  <2>1. obs' # obs
    OBVIOUS
  <2>2. NoView.pc = "idle"
    BY DEF NoView
  <2>3. ~Forget /\ ~Arrive /\ ~UNCHANGED orderVars
    BY <2>1, <2>2 DEF Forget, Arrive, orderVars
  <2>4. ASSUME NEW o \in Orders, Step(o) PROVE LookAgain(o)
    <3>1. ~(Start(o) \/ Killed(o))
      BY <2>1 DEF Start, Killed
    <3>2. ~(Branch(o) \/ Intend(o) \/ Create(o) \/ Find(o) \/ Prior(o) \/ Send(o) \/ Get(o)
            \/ After(o) \/ Judge(o) \/ Discard(o))
      BY <2>1 DEF Branch, Intend, Create, Find, Prior, Send, Get, After, Judge, Discard, At
    <3>3. ~(Look(o) \/ LookSession(o))
      BY DEF Look, LookSession
    <3> QED
      BY <2>4, <3>1, <3>2, <3>3 DEF Step
  <2> QED
    BY <2>3, <2>4 DEF OrdersNext
<1>2. /\ obs.o = o /\ ObsInv /\ RoundsOk(o) /\ order[o] \in Works \cup {Nothing} /\ told[o] \in SUBSET Rounds
  BY <1>1, At1 DEF LookAgain, OrdersInv
<1>3. PICK pull \in Shown : obs' = IF SameOrder(o) THEN View(pull) ELSE NoView
  BY <1>1 DEF LookAgain
<1>4. SameOrder(o) /\ obs' = View(pull)
  BY <1>3 DEF NoView
<1>5. /\ obs'.verified => obs.rec.verified
      /\ obs.rec.pending => obs'.state = "uncertain"
  BY <1>4, ViewFacts
<1>6. order[o] = obs.rec /\ order[o] \in Works /\ order[o] # Nothing
  BY <1>2, <1>4, Constants DEF SameOrder, ObsInv
<1>7. ASSUME ~order[o].pending, NEW n \in told[o] PROVE n \in obs.told /\ n <= order[o].round
  <2>1. n \in 1..order[o].round
    BY <1>2, <1>6, <1>7, Constants DEF RoundsOk, Works, Rounds
  <2> QED
    BY <1>2, <1>6, <1>7, <2>1 DEF ObsInv, Works, Rounds
<1> QED
  BY <1>2, <1>5, <1>6, <1>7

\* What an observation tells of a finished or verified round is of the round the order is
\* in: the record is read again before anything is told, and one whose message's fate is
\* open is told as uncertain (devin_work_orders.py, DevinWorkOrders.observe).
THEOREM ViewsAreCurrent ==
    ASSUME OrdersAssumption
    PROVE  OrdersSpec => [][ViewIsCurrent]_orderVars
<1>1. OrdersInv /\ [OrdersNext]_orderVars => ViewIsCurrent
  BY ViewStep
<1> QED
  BY <1>1, OrdersInvariant, PTL DEF OrdersSpec
=============================================================================
