---------------------------- MODULE ContextSession ----------------------------
(***************************************************************************)
(* The guided private context of one work item: the record of a session    *)
(* (context_session.py), the packet it prepared (context_prepare.py,       *)
(* context_packets.py), its publication on the pull request                *)
(* (context_guided.py, context_delivery.py, context_review.py) and the     *)
(* review of it (context_audit.py).                                        *)
(*                                                                         *)
(* Commands check the session's lease once, when they begin.  A record is  *)
(* changed by compare and update on its generation; attachments of one     *)
(* work item exclude each other, and so do the users of one connection.    *)
(* Any command may be killed between two writes.                           *)
(***************************************************************************)
EXTENDS Naturals, FiniteSets

CONSTANTS
    Sessions,    \* sessions that select this work item
    Commands,    \* processes that run session context commands
    Owner,       \* who connects, verifies and disconnects
    MaxHead,     \* bound: heads of the pull request
    Revs,        \* attachment revisions
    Handles,     \* packets
    MaxListed,   \* deliveries a packet may have: 8 in _index
    Uses,        \* bound: the commands that are run
    Events,      \* bound: what comes between them
    None

(* The packet index, as far as it is of this request, and a private        *)
(* artifact.                                                               *)
Entries  == [handle: Handles, whole: BOOLEAN, current: BOOLEAN, listed: SUBSET Revs]
Bindings == [handle: Handles, published: BOOLEAN, feedback: BOOLEAN]

ContextAssumption ==
    /\ MaxHead \in Nat /\ MaxListed \in Nat \ {0}
    /\ Owner \notin Commands
    /\ Uses \subseteq {"attach", "retry", "prepare", "rebuild", "refresh", "deliver", "feedback"}
    /\ Events \subseteq {"crash", "loss", "outage", "push", "takeover", "disconnect", "review",
                  "rewind", "calm"}
    /\ None \notin Sessions \cup Commands \cup Revs \cup Handles \cup {Owner}
    /\ None \notin Entries \cup Bindings

Heads  == 0..MaxHead
Stages == {"selected", "preparing", "prepared", "attached", "reviewed"}
AttachmentStates == {"none", "reserving", "pending", "published", "uncertain"}
Intents == {"reserving", "pending", "uncertain"}

NewRecord == [stage |-> "selected", packet |-> None, att |-> "none", head |-> 0,
              rev |-> None, context |-> "unchecked"]
Idle == [pc |-> "idle", s |-> None, kind |-> "attach", mem |-> NewRecord, fresh |-> FALSE,
         head |-> 0, input |-> None, then |-> "stop", handle |-> None]
NoAudit == [pc |-> "idle", head |-> 0, rev |-> None]

VARIABLES
    head,     \* head of the pull request
    last,     \* the input of the latest trusted comment
    posted,   \* the inputs of all of them
    lease,    \* the session that holds the lease
    rec,      \* record of each session
    entry,    \* the packet index: what it says of this request, or None
    binding,  \* delivery bindings: the private artifact of each revision, or None
    auth,     \* state of the connection
    work,     \* who holds the lock of the work item
    conn,     \* who holds the lock of the connection
    cmd,      \* commands
    audit,    \* a reviewer
    owner,    \* where a disconnection stands
    minted,   \* the head each revision was minted for
    accepted, \* revisions a verdict was accepted for
    cut,      \* revisions whose removal was interrupted
    calm      \* no more trouble comes

remote == <<head, last, posted>>
local  == <<entry, binding, auth>>
locks  == <<work, conn>>
ghosts == <<minted, accepted, cut, calm>>
vars == <<remote, lease, rec, local, locks, cmd, audit, owner, ghosts>>

(* validate: a record it refuses can be neither written nor read again.    *)
ValidRecord(r) ==
    /\ r.stage \in Stages /\ r.att \in AttachmentStates
    /\ r.context \in {"unchecked", "ready", "failed"}
    /\ r.stage = "selected" => r = NewRecord
    /\ r.stage \in {"prepared", "attached", "reviewed"} => r.packet \in Handles
    /\ r.att = "none" => r.rev = None
    /\ r.att \in Intents => r.stage = "prepared" /\ r.rev \in Revs
    /\ r.att = "published" => r.stage \in {"attached", "reviewed"} /\ r.rev \in Revs

(* What the other private files must say to be read at all.                *)
WellListed(e) ==
    e # None => /\ e.handle \in Handles /\ e.listed \subseteq Revs
                /\ Cardinality(e.listed) <= MaxListed
WellBound(b) == b = None \/ b.handle \in Handles
ConnectionStates == {"verified", "needs_auth", "disconnected"}

TypeOK ==
    /\ head \in Heads /\ last \in posted \cup {None} /\ posted \subseteq Revs
    /\ lease \in Sessions /\ \A s \in Sessions : ValidRecord(rec[s])
    /\ WellListed(entry) /\ \A r \in Revs : WellBound(binding[r])
    /\ auth \in ConnectionStates
    /\ work \in Commands \cup {None} /\ conn \in Commands \cup {Owner, None}
    /\ \A c \in Commands : cmd[c].fresh => cmd[c].mem = rec[cmd[c].s]

Init ==
    /\ head = 0 /\ last = None /\ posted = {}
    /\ lease \in Sessions /\ rec = [s \in Sessions |-> NewRecord]
    /\ entry = None /\ binding = [r \in Revs |-> None] /\ auth = "verified"
    /\ work = None /\ conn = None
    /\ cmd = [c \in Commands |-> Idle] /\ audit = NoAudit /\ owner = "idle"
    /\ minted = [r \in Revs |-> 0] /\ accepted = {} /\ cut = {} /\ calm = FALSE

May(event) == ~calm /\ event \in Events

(***************************************************************************)
(* A command's own state                                                   *)
(***************************************************************************)
Now(c, v) == cmd' = [cmd EXCEPT ![c] = v]
Goes(c, pc) == Now(c, [cmd[c] EXCEPT !.pc = pc])
Leaves(c, lock) == IF lock = c THEN None ELSE lock
Ends(c) == Now(c, Idle) /\ work' = Leaves(c, work)

(* update: a record changed since it was read ends the command; some       *)
(* updates are skipped when they would change nothing.                     *)
Unchanged(c) == cmd[c].fresh
Save(c, r, v) ==
    IF Unchanged(c)
    THEN /\ rec' = [rec EXCEPT ![cmd[c].s] = r]
         /\ cmd' = [d \in Commands |->
                      IF d = c THEN (IF v.pc = "idle" THEN v ELSE [v EXCEPT !.mem = r, !.fresh = TRUE])
                      ELSE IF cmd[d].s = cmd[c].s THEN [cmd[d] EXCEPT !.fresh = FALSE]
                      ELSE cmd[d]]
         /\ work' = IF v.pc = "idle" THEN Leaves(c, work) ELSE work
    ELSE Ends(c) /\ UNCHANGED rec
SaveAndEnd(c, r) == Save(c, r, Idle)
Notes(c, r, v) == IF r = cmd[c].mem
                  THEN /\ Now(c, v) /\ UNCHANGED rec
                       /\ work' = IF v.pc = "idle" THEN Leaves(c, work) ELSE work
                  ELSE Save(c, r, v)
SaveAndGo(c, r, pc) == Save(c, r, [cmd[c] EXCEPT !.pc = pc])

Failed(c) == [cmd[c].mem EXCEPT !.context = "failed"]
Ready(c)  == [cmd[c].mem EXCEPT !.context = "ready"]
Kept(r)   == [r EXCEPT !.att = "none", !.head = 0, !.rev = None]
Bare(r)   == [r EXCEPT !.stage = "prepared", !.att = "none", !.head = 0, !.rev = None]

(* authorize_locked and _load: the account answers, or its saved           *)
(* authorization is invalid from now on and every packet of it with it.    *)
Loads(h) == auth = "verified" /\ entry # None /\ entry.handle = h /\ entry.whole /\ entry.current
NoLongerCurrent == entry' = IF entry = None THEN None ELSE [entry EXCEPT !.current = FALSE]
Outage == May("outage") /\ auth = "verified" /\ auth' = "needs_auth" /\ NoLongerCurrent
Denied(h) == \/ Outage
             \/ ~Loads(h) /\ UNCHANGED <<auth, entry>>
Granted(h) == Loads(h) /\ UNCHANGED auth

(***************************************************************************)
(* session context: the lease is checked when the command begins           *)
(***************************************************************************)
Begin(c) ==
    /\ cmd[c].pc = "idle"
    /\ \E kind \in Uses :
          /\ kind \in {"attach", "retry"} =>
                rec[lease].stage \in {"prepared", "attached", "reviewed"}
          /\ kind = "deliver" => rec[lease].packet # None
          /\ kind = "feedback" => rec[lease].att = "published"
          /\ Now(c, [Idle EXCEPT !.pc = CASE kind \in {"attach", "retry"} -> "lock"
                                          [] kind \in {"prepare", "rebuild", "refresh"} -> "prepare"
                                          [] OTHER -> IF rec[lease].att = "published" THEN "head"
                                                      ELSE "load",
                                 !.s = lease, !.kind = kind, !.mem = rec[lease],
                                 !.fresh = TRUE, !.then = "show"])
    /\ UNCHANGED <<remote, lease, rec, local, locks, audit, owner, ghosts>>

(***************************************************************************)
(* attach_session                                                          *)
(***************************************************************************)
Contended == FALSE
Excluded == work # None

Lock(c) ==
    /\ cmd[c].pc = "lock"
    /\ LET r == rec[cmd[c].s] IN
       \/ /\ ~Excluded /\ r.packet = cmd[c].mem.packet
          /\ work' = c
          /\ Now(c, [cmd[c] EXCEPT !.pc = "head", !.mem = r, !.fresh = TRUE, !.then = "decide"])
       \/ ~Excluded /\ r.packet # cmd[c].mem.packet /\ Ends(c)
       \/ work # None /\ Ends(c)   \* the lock timed out
    /\ UNCHANGED <<remote, lease, rec, local, conn, audit, owner, ghosts>>

(* _remote_input: the head, then the comments.                             *)
ReadHead(c) ==
    /\ cmd[c].pc = "head" /\ Now(c, [cmd[c] EXCEPT !.pc = "input", !.head = head])
    /\ UNCHANGED <<remote, lease, rec, local, locks, audit, owner, ghosts>>
ReadInput(c) ==
    /\ cmd[c].pc = "input" /\ Now(c, [cmd[c] EXCEPT !.pc = cmd[c].then, !.input = last])
    /\ UNCHANGED <<remote, lease, rec, local, locks, audit, owner, ghosts>>

Decide(c) ==
    /\ cmd[c].pc = "decide"
    /\ LET m == cmd[c].mem
           moved == m.head # cmd[c].head
       IN \/ m.att = "none" /\ Goes(c, "mint")
          \/ m.att = "reserving" /\ Goes(c, "reread")
          \/ m.att \notin {"none", "reserving"} /\ moved /\ Goes(c, "retire")
          \/ m.att = "published" /\ ~moved /\ Goes(c, "recheck")
          \/ m.att \in {"pending", "uncertain"} /\ ~moved /\ Goes(c, "reserve")
    /\ UNCHANGED <<remote, lease, rec, local, locks, audit, owner, ghosts>>

(* Attached at this head already: the same input, and a new authorization. *)
Recheck(c) ==
    /\ cmd[c].pc = "recheck" /\ conn = None
    /\ LET b == binding[cmd[c].mem.rev] IN
       \/ /\ b = None \/ cmd[c].input # cmd[c].mem.rev
          /\ Ends(c) /\ UNCHANGED <<rec, auth, entry>>
       \/ /\ b # None /\ cmd[c].input = cmd[c].mem.rev
          /\ \/ Granted(b.handle) /\ Ends(c) /\ UNCHANGED <<rec, entry>>
             \/ Denied(b.handle) /\ SaveAndEnd(c, Failed(c))
    /\ UNCHANGED <<remote, lease, binding, conn, audit, owner, ghosts>>

Unused(r) ==
    /\ r \notin posted /\ binding[r] = None
    /\ \A s \in Sessions : rec[s].rev # r
    /\ \A c \in Commands : cmd[c].mem.rev # r
    /\ entry # None => r \notin entry.listed
Mint(c) ==
    /\ cmd[c].pc = "mint"
    /\ \E r \in Revs :
          /\ Unused(r) /\ minted' = [minted EXCEPT ![r] = cmd[c].head]
          /\ cut' = cut \ {r}
          /\ SaveAndGo(c, [cmd[c].mem EXCEPT !.stage = "prepared", !.head = cmd[c].head,
                                             !.rev = r, !.att = "reserving"], "reserve")
    /\ UNCHANGED <<remote, lease, local, conn, audit, owner, accepted, calm>>

(* reserve_attachment: authorized, then listed, then bound.  A fresh       *)
(* reservation that is refused is abandoned; an older one is left alone.   *)
OneOver(r) == r \notin entry.listed /\ Cardinality(entry.listed) > MaxListed
Full(r) == r \notin entry.listed /\ Cardinality(entry.listed) >= MaxListed
Refused(c) == IF cmd[c].mem.att = "reserving" THEN SaveAndGo(c, Failed(c), "reread")
              ELSE SaveAndEnd(c, Failed(c))
Reserve(c) ==
    /\ cmd[c].pc = "reserve" /\ conn = None
    /\ LET m == cmd[c].mem IN
       \/ Denied(m.packet) /\ Refused(c) /\ UNCHANGED conn
       \/ Loads(m.packet) /\ Full(m.rev) /\ Refused(c) /\ UNCHANGED <<auth, entry, conn>>
       \/ /\ Granted(m.packet) /\ ~Full(m.rev)
          /\ entry' = [entry EXCEPT !.listed = @ \cup {m.rev}]
          /\ conn' = c /\ Goes(c, "bind") /\ UNCHANGED <<rec, work>>
    /\ UNCHANGED <<remote, lease, binding, audit, owner, ghosts>>

Reserved(h) == [handle |-> h, published |-> FALSE, feedback |-> FALSE]
Bind(c) ==
    /\ cmd[c].pc = "bind" /\ conn' = None
    /\ LET m == cmd[c].mem IN
       binding' = [binding EXCEPT ![m.rev] = IF @ = None THEN Reserved(m.packet) ELSE @]
    /\ Goes(c, "reserved")
    /\ UNCHANGED <<remote, lease, rec, entry, auth, work, audit, owner, ghosts>>

NeverRetries(c) == FALSE
Retries(c) == cmd[c].kind = "retry"
(* A fresh intent is pending now; an older one may be public already.      *)
Publishing(c) == [cmd[c] EXCEPT !.pc = "head", !.then = "again"]
AfterReserve(c) ==
    /\ cmd[c].pc = "reserved"
    /\ LET m == cmd[c].mem IN
       \/ m.att = "reserving" /\ Save(c, [m EXCEPT !.att = "pending"], Publishing(c))
       \/ /\ m.att # "reserving" /\ UNCHANGED rec
          /\ \/ cmd[c].input = m.rev /\ Goes(c, "mark") /\ UNCHANGED work
             \/ /\ cmd[c].input # m.rev /\ m.att = "uncertain" /\ ~Retries(c)
                /\ Ends(c)
             \/ /\ cmd[c].input # m.rev /\ (m.att = "pending" \/ Retries(c))
                /\ Now(c, Publishing(c)) /\ UNCHANGED work
    /\ UNCHANGED <<remote, lease, local, conn, audit, owner, ghosts>>

(* _finish_publication reads the remote again before it writes.            *)
Public(c) == cmd[c].input = cmd[c].mem.rev
Again(c) ==
    /\ cmd[c].pc = "again"
    /\ Goes(c, IF cmd[c].head # cmd[c].mem.head THEN "reread"
               ELSE IF Public(c) THEN "mark" ELSE "publish")
    /\ UNCHANGED <<remote, lease, rec, local, locks, audit, owner, ghosts>>

(* _publish: the gate's status, then the comment; either may fail, or be   *)
(* done and its answer lost.                                               *)
Publish(c) ==
    /\ cmd[c].pc = "publish"
    /\ \/ Goes(c, "comment")
       \/ May("loss") /\ Goes(c, "uncertain")
    /\ UNCHANGED <<remote, lease, rec, local, locks, audit, owner, ghosts>>

TakenAsSaid == "mark"
AfterLoss == "uncertain"
Says(c) == last' = cmd[c].mem.rev /\ posted' = posted \cup {cmd[c].mem.rev}
Comment(c) ==
    /\ cmd[c].pc = "comment"
    /\ \/ Says(c) /\ Goes(c, "mark")
       \/ /\ May("loss") /\ Goes(c, AfterLoss)
          /\ Says(c) \/ UNCHANGED <<last, posted>>
    /\ UNCHANGED <<head, lease, rec, local, locks, audit, owner, ghosts>>

SetUncertain(c) ==
    /\ cmd[c].pc = "uncertain"
    /\ SaveAndEnd(c, [cmd[c].mem EXCEPT !.att = "uncertain"])
    /\ UNCHANGED <<remote, lease, local, conn, audit, owner, ghosts>>

MarkPublished(c) ==
    /\ cmd[c].pc = "mark" /\ conn = None
    /\ LET r == cmd[c].mem.rev IN
       \/ binding[r] = None /\ Ends(c) /\ UNCHANGED binding
       \/ /\ binding[r] # None /\ Goes(c, "attached") /\ UNCHANGED work
          /\ binding' = [binding EXCEPT ![r].published = TRUE]
    /\ UNCHANGED <<remote, lease, rec, entry, auth, conn, audit, owner, ghosts>>

Attached(c) ==
    /\ cmd[c].pc = "attached"
    /\ SaveAndEnd(c, [Ready(c) EXCEPT !.stage = "attached", !.att = "published"])
    /\ UNCHANGED <<remote, lease, local, conn, audit, owner, ghosts>>

(* _abandon_and_clear reads the record again, _discard_stale_attachment    *)
(* does not; both take the revision off the index, delete its binding and  *)
(* clear the record.                                                       *)
Reread(c) ==
    /\ cmd[c].pc = "reread"
    /\ LET r == rec[cmd[c].s] IN
       \/ r.rev # cmd[c].mem.rev /\ Ends(c)
       \/ /\ r.rev = cmd[c].mem.rev /\ UNCHANGED work
          /\ Now(c, [cmd[c] EXCEPT !.pc = "abandon", !.mem = r, !.fresh = TRUE])
    /\ UNCHANGED <<remote, lease, rec, local, conn, audit, owner, ghosts>>

(* _remove_attachment                                                      *)
Unlists(r) == entry' = IF entry = None THEN None ELSE [entry EXCEPT !.listed = @ \ {r}]
Removable(c) ==
    LET b == binding[cmd[c].mem.rev] IN
    /\ b.handle = cmd[c].mem.packet
    /\ b.published => cmd[c].pc = "retire"
    /\ entry # None /\ entry.handle = b.handle
Unlist(c) ==
    /\ cmd[c].pc \in {"abandon", "retire"} /\ conn = None
    /\ LET r == cmd[c].mem.rev
           then == IF cmd[c].pc = "retire" THEN "mint" ELSE "idle"
       IN \/ /\ binding[r] = None /\ Unlists(r) /\ UNCHANGED <<conn, work>>
             /\ Now(c, [cmd[c] EXCEPT !.pc = "clear", !.then = then])
          \/ /\ binding[r] # None /\ Removable(c) /\ Unlists(r) /\ conn' = c /\ UNCHANGED work
             /\ Now(c, [cmd[c] EXCEPT !.pc = "unbind", !.then = then])
          \/ binding[r] # None /\ ~Removable(c) /\ Ends(c) /\ UNCHANGED <<entry, conn>>
    /\ UNCHANGED <<remote, lease, rec, binding, auth, audit, owner, ghosts>>

Unbind(c) ==
    /\ cmd[c].pc = "unbind" /\ conn' = None /\ Goes(c, "clear")
    /\ binding' = [binding EXCEPT ![cmd[c].mem.rev] = None]
    /\ cut' = cut \ {cmd[c].mem.rev}
    /\ UNCHANGED <<remote, lease, rec, entry, auth, work, audit, owner, minted, accepted, calm>>

Clear(c) ==
    /\ cmd[c].pc = "clear"
    /\ IF cmd[c].then = "mint" THEN SaveAndGo(c, Bare(cmd[c].mem), "mint")
       ELSE SaveAndEnd(c, Bare(cmd[c].mem))
    /\ UNCHANGED <<remote, lease, local, conn, audit, owner, ghosts>>

(***************************************************************************)
(* prepare                                                                 *)
(***************************************************************************)
Restart(c) == [Bare(cmd[c].mem) EXCEPT !.stage = "preparing", !.packet = None,
                                       !.context = "unchecked"]
Settled(m) == m.stage \in {"attached", "reviewed"} \/ m.att \in Intents
Prepare(c) ==
    /\ cmd[c].pc = "prepare" /\ conn = None
    /\ LET m == cmd[c].mem
           kind == cmd[c].kind
       IN \/ /\ Settled(m) \/ (kind # "refresh" /\ m.stage = "preparing" /\ m.packet = None)
             /\ Ends(c) /\ UNCHANGED <<rec, auth, entry>>
          \/ /\ ~Settled(m) /\ kind = "prepare" /\ m.stage = "prepared"
             /\ \/ Granted(m.packet) /\ Notes(c, Ready(c), Idle) /\ UNCHANGED entry
                \/ /\ Denied(m.packet)
                   /\ SaveAndEnd(c, [Failed(c) EXCEPT !.stage = "preparing", !.packet = None])
          \/ /\ ~Settled(m) /\ UNCHANGED <<auth, entry>>
             /\ \/ kind = "rebuild" /\ m.stage = "prepared"
                \/ kind # "refresh" /\ m.stage = "preparing" /\ m.packet # None
             /\ SaveAndGo(c, [m EXCEPT !.stage = "preparing"], "reload")
          \/ /\ ~Settled(m) /\ UNCHANGED <<auth, entry>>
             /\ kind = "refresh" \/ m.stage = "selected"
             /\ SaveAndGo(c, Restart(c), "fetch")
    /\ UNCHANGED <<remote, lease, binding, conn, audit, owner, ghosts>>

Reload(c) ==
    /\ cmd[c].pc = "reload" /\ conn = None
    /\ \/ Granted(cmd[c].mem.packet) /\ UNCHANGED entry
          /\ Notes(c, Ready(c), [cmd[c] EXCEPT !.pc = "order", !.mem = Ready(c)])
       \/ Denied(cmd[c].mem.packet) /\ SaveAndEnd(c, Failed(c))
    /\ UNCHANGED <<remote, lease, binding, conn, audit, owner, ghosts>>

(* fetch: authorized, it reuses the packet of this request, or deletes it  *)
(* with its bindings, writes the new index, and only then searches; the    *)
(* lock of the connection is held to the end.                              *)
Listed == IF entry = None THEN {} ELSE entry.listed
Reuses(c) == entry # None /\ cmd[c].kind # "refresh"
Fetch(c) ==
    /\ cmd[c].pc = "fetch" /\ conn = None
    /\ \/ /\ Outage \/ (auth # "verified" /\ UNCHANGED <<auth, entry>>)
          /\ SaveAndEnd(c, Failed(c)) /\ UNCHANGED <<conn, binding>>
       \/ /\ auth = "verified" /\ Reuses(c) /\ UNCHANGED <<auth, entry, conn, binding>>
          /\ IF Loads(entry.handle)
             THEN /\ Now(c, [cmd[c] EXCEPT !.pc = "record", !.handle = entry.handle])
                  /\ UNCHANGED <<rec, work>>
             ELSE SaveAndEnd(c, Failed(c))
       \/ /\ auth = "verified" /\ ~Reuses(c) /\ conn' = c /\ Goes(c, "index")
          /\ binding' = [r \in Revs |-> IF r \in Listed THEN None ELSE binding[r]]
          /\ UNCHANGED <<auth, entry, rec, work>>
    /\ UNCHANGED <<remote, lease, audit, owner, ghosts>>

New(h) ==
    /\ \A s \in Sessions : rec[s].packet # h
    /\ \A c \in Commands : cmd[c].mem.packet # h /\ cmd[c].handle # h
    /\ \A r \in Revs : binding[r] # None => binding[r].handle # h
    /\ entry # None => entry.handle # h
Index(c) ==
    /\ cmd[c].pc = "index"
    /\ \E h \in Handles :
          /\ New(h) /\ Now(c, [cmd[c] EXCEPT !.pc = "retrieve", !.handle = h])
          /\ entry' = [handle |-> h, whole |-> FALSE, current |-> TRUE, listed |-> {}]
    /\ UNCHANGED <<remote, lease, rec, binding, auth, locks, audit, owner, ghosts>>

Retrieve(c) ==
    /\ cmd[c].pc = "retrieve" /\ conn' = None
    /\ \/ entry' = [entry EXCEPT !.whole = TRUE] /\ Goes(c, "record") /\ UNCHANGED <<rec, work>>
       \/ May("outage") /\ SaveAndEnd(c, Failed(c)) /\ UNCHANGED entry
    /\ UNCHANGED <<remote, lease, binding, auth, audit, owner, ghosts>>

Record(c) ==
    /\ cmd[c].pc = "record"
    /\ SaveAndGo(c, [Ready(c) EXCEPT !.packet = cmd[c].handle], "order")
    /\ UNCHANGED <<remote, lease, local, conn, audit, owner, ghosts>>

(* The work order is drafted, and the record says so.                      *)
Order(c) ==
    /\ cmd[c].pc = "order"
    /\ SaveAndEnd(c, [cmd[c].mem EXCEPT !.stage = "prepared"])
    /\ UNCHANGED <<remote, lease, local, conn, audit, owner, ghosts>>

(***************************************************************************)
(* deliver_session and feedback_session                                    *)
(***************************************************************************)
Load(c) ==
    /\ cmd[c].pc = "load" /\ conn = None
    /\ \/ Granted(cmd[c].mem.packet) /\ Notes(c, Ready(c), Idle) /\ UNCHANGED entry
       \/ Denied(cmd[c].mem.packet) /\ SaveAndEnd(c, Failed(c))
    /\ UNCHANGED <<remote, lease, binding, conn, audit, owner, ghosts>>

(* deliver: published, the current input, of the current head.             *)
IsCurrent(r, input, h) ==
    binding[r] # None /\ binding[r].published /\ input = r /\ minted[r] = h
Show(c) ==
    /\ cmd[c].pc = "show" /\ conn = None
    /\ LET m == cmd[c].mem
           current == IsCurrent(m.rev, cmd[c].input, cmd[c].head)
       IN \/ ~current /\ SaveAndEnd(c, Failed(c)) /\ UNCHANGED <<auth, entry>>
          \/ current /\ Denied(binding[m.rev].handle) /\ SaveAndEnd(c, Failed(c))
          \/ /\ current /\ Granted(binding[m.rev].handle) /\ UNCHANGED entry
             /\ \/ cmd[c].kind = "deliver" /\ Notes(c, Ready(c), Idle)
                \/ /\ cmd[c].kind = "feedback" /\ binding[m.rev].feedback
                   /\ IF m.stage = "reviewed" THEN Ends(c) /\ UNCHANGED rec
                      ELSE SaveAndEnd(c, [Ready(c) EXCEPT !.stage = "reviewed"])
                \/ /\ cmd[c].kind = "feedback" /\ ~binding[m.rev].feedback
                   /\ Ends(c) /\ UNCHANGED rec
    /\ UNCHANGED <<remote, lease, binding, conn, audit, owner, ghosts>>

(***************************************************************************)
(* context_audit: prepare, the review, finish                              *)
(***************************************************************************)
Audits(v) == audit' = v
AuditBegin ==
    /\ May("review") /\ audit.pc = "idle" /\ Audits([NoAudit EXCEPT !.pc = "input", !.head = head])
    /\ UNCHANGED <<remote, lease, rec, local, locks, cmd, owner, ghosts>>
AuditInput ==
    /\ audit.pc = "input"
    /\ Audits(IF last = None THEN NoAudit ELSE [audit EXCEPT !.pc = "deliver", !.rev = last])
    /\ UNCHANGED <<remote, lease, rec, local, locks, cmd, owner, ghosts>>
Delivers(next) ==
    /\ conn = None
    /\ LET b == binding[audit.rev] IN
       \/ /\ ~IsCurrent(audit.rev, audit.rev, audit.head)
          /\ Audits(NoAudit) /\ UNCHANGED <<auth, entry>>
       \/ /\ IsCurrent(audit.rev, audit.rev, audit.head)
          /\ \/ Granted(b.handle) /\ Audits([audit EXCEPT !.pc = next]) /\ UNCHANGED entry
             \/ Denied(b.handle) /\ Audits(NoAudit)
    /\ UNCHANGED <<remote, lease, rec, binding, locks, cmd, owner, ghosts>>
AuditDeliver == audit.pc = "deliver" /\ Delivers("reread")
AuditReread ==
    /\ audit.pc = "reread"
    /\ Audits(IF last # audit.rev THEN NoAudit ELSE [audit EXCEPT !.pc = "verify"])
    /\ UNCHANGED <<remote, lease, rec, local, locks, cmd, owner, ghosts>>
AuditVerify == audit.pc = "verify" /\ Delivers("save")
AuditSave ==
    /\ audit.pc = "save" /\ conn = None /\ Audits(NoAudit)
    /\ \/ binding[audit.rev] = None /\ UNCHANGED <<binding, accepted>>
       \/ /\ binding[audit.rev] # None /\ accepted' = accepted \cup {audit.rev}
          /\ binding' = [binding EXCEPT ![audit.rev].feedback = TRUE]
    /\ UNCHANGED <<remote, lease, rec, entry, auth, locks, cmd, owner, minted, cut, calm>>

(***************************************************************************)
(* The connection                                                          *)
(***************************************************************************)
Verify ==
    /\ auth = "needs_auth" /\ conn = None /\ owner = "idle" /\ auth' = "verified"
    /\ UNCHANGED <<remote, lease, rec, entry, binding, locks, cmd, audit, owner, ghosts>>
Connect ==
    /\ auth = "disconnected" /\ conn = None /\ owner = "idle" /\ auth' = "verified"
    /\ UNCHANGED <<remote, lease, rec, entry, binding, locks, cmd, audit, owner, ghosts>>

(* disconnect: the tombstone first, then the artifacts, then the index; a  *)
(* cleanup that fails is reported and leaves the index.                    *)
Disconnect ==
    /\ May("disconnect") /\ conn = None /\ owner = "idle"
    /\ auth' = "disconnected" /\ NoLongerCurrent /\ owner' = "purge" /\ conn' = Owner
    /\ UNCHANGED <<remote, lease, rec, binding, work, cmd, audit, ghosts>>
Purge ==
    /\ owner = "purge" /\ owner' = "forget"
    /\ binding' = [r \in Revs |-> IF r \in Listed THEN None ELSE binding[r]]
    /\ UNCHANGED <<remote, lease, rec, entry, auth, locks, cmd, audit, ghosts>>
Forget ==
    /\ owner = "forget" /\ owner' = "idle" /\ conn' = None
    /\ entry' = None \/ UNCHANGED entry
    /\ UNCHANGED <<remote, lease, rec, binding, auth, work, cmd, audit, ghosts>>

(***************************************************************************)
(* What comes between                                                      *)
(***************************************************************************)
Push ==
    /\ May("push") /\ \E h \in Heads \ {head} : (h < head => "rewind" \in Events) /\ head' = h
    /\ UNCHANGED <<last, posted, lease, rec, local, locks, cmd, audit, owner, ghosts>>
Takeover ==
    /\ May("takeover") /\ lease' \in Sessions \ {lease}
    /\ UNCHANGED <<remote, rec, local, locks, cmd, audit, owner, ghosts>>
Crash(c) ==
    /\ May("crash") /\ cmd[c].pc # "idle"
    /\ Now(c, Idle) /\ work' = Leaves(c, work) /\ conn' = Leaves(c, conn)
    /\ cut' = IF cmd[c].pc = "unbind" THEN cut \cup {cmd[c].mem.rev} ELSE cut
    /\ UNCHANGED <<remote, lease, rec, local, audit, owner, minted, accepted, calm>>
Calm ==
    /\ May("calm") /\ calm' = TRUE
    /\ UNCHANGED <<remote, lease, rec, local, locks, cmd, audit, owner, minted, accepted, cut>>

Attach(c) ==
    \/ Lock(c) \/ ReadHead(c) \/ ReadInput(c) \/ Decide(c) \/ Recheck(c) \/ Mint(c)
    \/ Reserve(c) \/ Bind(c) \/ AfterReserve(c) \/ Again(c) \/ Publish(c) \/ Comment(c)
    \/ SetUncertain(c) \/ MarkPublished(c) \/ Attached(c)
    \/ Reread(c) \/ Unlist(c) \/ Unbind(c) \/ Clear(c)
Prepares(c) ==
    \/ Prepare(c) \/ Reload(c) \/ Fetch(c) \/ Index(c) \/ Retrieve(c) \/ Record(c) \/ Order(c)
Step(c) == Attach(c) \/ Prepares(c) \/ Load(c) \/ Show(c)
Audit == AuditBegin \/ AuditInput \/ AuditDeliver \/ AuditReread \/ AuditVerify \/ AuditSave

Next ==
    \/ \E c \in Commands : Begin(c) \/ Step(c) \/ Crash(c)
    \/ Audit \/ Verify \/ Connect \/ Disconnect \/ Purge \/ Forget
    \/ Push \/ Takeover \/ Calm
Spec == Init /\ [][Next]_vars

(* The operator reruns what did not finish: a packet first, then attach.   *)
Wanted(c) == LET r == rec[lease] IN
             IF r.packet = None \/ r.stage = "preparing" \/ (r.context = "failed" /\ r.att = "none")
             THEN "refresh" ELSE "retry"
Rerun(c) == Begin(c) /\ cmd'[c].kind = Wanted(c)

(***************************************************************************)
(* Properties                                                              *)
(***************************************************************************)
(* Evidence becomes usable, and a session attached, only after its input   *)
(* is on the pull request, whatever answer was lost (mark_published).      *)
PublishedIsPublic ==
    /\ \A r \in Revs : binding[r] # None /\ binding[r].published => r \in posted
    /\ \A s \in Sessions : rec[s].att = "published" => rec[s].rev \in posted

(* A publication replaces the input it read, never one another session     *)
(* declared since, and never declares the same input again on top of       *)
(* itself; a session whose lease was taken while it ran included           *)
(* (attach_session holds the work item's lock from its first read).        *)
ReplacesWhatItSaw ==
    \A c \in Commands :
        Comment(c) /\ (cmd'[c].pc = "mark" \/ last' # last) =>
            cmd[c].input = last /\ last # cmd[c].mem.rev

(* A session is reviewed only when a verdict was accepted for the input it *)
(* is attached with, not for an earlier one (feedback_session).            *)
ReviewedIsReviewed ==
    \A s \in Sessions : rec[s].stage = "reviewed" => rec[s].rev \in accepted

(* A binding, which keeps private findings, can be found by whoever is to  *)
(* delete it: the index of its packet lists it, unless its removal was cut *)
(* short (reserve_attachment, _remove_attachment).                         *)
Removing(r) == \E c \in Commands : cmd[c].pc = "unbind" /\ cmd[c].mem.rev = r
BindingIsFound ==
    \A r \in Revs : binding[r] # None =>
        \/ entry # None /\ r \in entry.listed /\ entry.handle = binding[r].handle
        \/ Removing(r) \/ r \in cut

(* A claim the code does not keep.  context-delivery.md: refresh and       *)
(* disconnect delete the packet's bindings and private findings.           *)
NoneOutlives ==
    \A r \in Revs : binding[r] # None => entry # None /\ entry.handle = binding[r].handle

(* Another it does not keep.  context_guided.py: pending always names a    *)
(* real, resumable reservation, never the ghost of one that was abandoned. *)
PendingIsReal ==
    \A s \in Sessions : rec[s].att = "pending" => binding[rec[s].rev] # None \/ \E c \in Commands : cmd[c].pc = "clear"

(* Crashes, lost answers and moved heads leave nothing that rerunning the  *)
(* command does not finish (attach_session).                               *)
AttachedHere == \E s \in Sessions : rec[s].att = "published" /\ rec[s].head = head
AttachEnds == [](calm => <>AttachedHere)

(* Nor this one.  status: verify the account, then rerun the guided        *)
(* command.                                                                *)
VerifiedAndRerun == [](calm /\ auth = "verified" => <>AttachedHere)
==============================================================================
