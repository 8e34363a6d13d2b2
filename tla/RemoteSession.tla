--------------------------- MODULE RemoteSession ----------------------------
(***************************************************************************)
(* One durable remote session of remote_session.py: dispatch, status,      *)
(* message, cancel, collect, discard and retire, run by processes that     *)
(* hold the session's store lock for a whole command and may be killed at  *)
(* any point, and the paid provider behind them, whose answers may be lost *)
(* and whose writes may arrive late. RemoteObserver adds the lock-free     *)
(* observer.                                                               *)
(*                                                                         *)
(* Every write to the provider is preceded by a durable intent. A command  *)
(* works on a copy of the stored record (mem) and writes it back; killing  *)
(* it loses the copy. A lost answer and a process killed before it records *)
(* the answer look the same afterwards and are one action here.            *)
(***************************************************************************)
EXTENDS Integers, FiniteSets

CONSTANTS Messages,    \* request keys of message commands
          Cancels,     \* request keys of cancel commands
          Inputs,      \* dispatch inputs: prompt, repository and limit
          OpLimit,     \* at most this many requests per session (128)
          NoRecord,    \* nothing stored under the session's key
          NoResult     \* no structured result

Requests == Messages \cup Cancels

\* A result is named by the round it answers: the number of messages the
\* provider had taken.
Results == Nat \cup {NoResult}

\* Lifecycle states of the provider, up to what remote_session tells apart:
\* "blocked" is failed or waiting for approval; "finished" has a live writer,
\* "exited" does not.
Raw == {"running", "blocked", "suspended", "finished", "exited", "terminated"}
Quiescent(raw) == raw \in {"suspended", "exited", "terminated"}

Record == [bound : BOOLEAN, checkpoint : BOOLEAN, input : Inputs,
           state : {"uncertain", "pending", "open", "complete"},
           reason : {"none", "provider_unavailable", "other"},
           ops : [Requests -> {"absent", "pending", "done"}],
           dispatched : {0, 1}, message : Nat, cancel : Nat,
           collect : {0, 1}, retired : BOOLEAN]

ASSUME RemoteAssumption == /\ IsFiniteSet(Messages) /\ IsFiniteSet(Cancels)
                           /\ Messages \cap Cancels = {}
                           /\ "create" \notin Requests
                           /\ OpLimit \in Nat
                           /\ NoResult \notin Nat
                           /\ NoRecord \notin Record

NoCommand == [name |-> "none"]
Command == [name : {"status", "collect"}]
             \cup [name : {"dispatch"}, input : Inputs]
             \cup [name : {"message"}, request : Messages, acknowledge : BOOLEAN]
             \cup [name : {"cancel"}, request : Cancels, acknowledge : BOOLEAN,
                   retiring : BOOLEAN]

VARIABLES record,      \* the stored record
          artifact,    \* the private result stored beside it
          pc,          \* where the process that holds the lock is; "idle": lock free
          mem,         \* its copy of the record
          cmd,         \* its command
          retire,      \* progress of a retire_writer call between its locked parts
          remote,      \* the provider's session; .kept is history: the result it
                       \* went on showing when it took its last message
          flight,      \* provider writes that may still take effect
          posts,       \* history: create requests sent
          sent,        \* history: how often each request was sent
          collectedAt  \* history: requests recorded when the artifact was collected

vars == <<record, artifact, pc, mem, cmd, retire, remote, flight, posts, sent, collectedAt>>
stored == <<record, artifact, collectedAt>>
provider == <<remote, flight, posts, sent>>

Steps == {"idle", "create", "post", "bind", "op", "intent", "send", "get", "save", "discard"}

\* The public counters count the requests that are done.
Done(r, keys) == {k \in keys : r.ops[k] = "done"}
CountsMatch(r) == /\ r.message = Cardinality(Done(r, Messages))
                  /\ r.cancel = Cardinality(Done(r, Cancels))

TypeOK == /\ record \in Record \cup {NoRecord}
          /\ artifact \in Results
          /\ pc \in Steps
          /\ mem \in Record \cup {NoRecord}
          /\ cmd \in Command \cup {NoCommand}
          /\ retire \in {"no", "cancel", "check"}
          /\ remote \in [exists : BOOLEAN, raw : Raw, result : Results, round : Nat,
                         kept : Results]
          /\ flight \in SUBSET (Requests \cup {"create"})
          /\ posts \in Nat
          /\ sent \in [Requests -> Nat]
          /\ collectedAt \in SUBSET Requests
          /\ \A r \in {record, mem} \ {NoRecord} : CountsMatch(r)

Pending(r) == \E k \in Requests : r.ops[k] = "pending"
Recorded(r) == {k \in Requests : r.ops[k] # "absent"}

Init == /\ record = NoRecord
        /\ artifact = NoResult
        /\ pc = "idle"
        /\ mem = NoRecord
        /\ cmd = NoCommand
        /\ retire = "no"
        /\ remote = [exists |-> FALSE, raw |-> "running", result |-> NoResult, round |-> 0,
                     kept |-> NoResult]
        /\ flight = {}
        /\ posts = 0
        /\ sent = [k \in Requests |-> 0]
        /\ collectedAt = {}
-----------------------------------------------------------------------------
(* Leaving a command. A retire_writer call goes on only if its cancel       *)
(* returned; an error or the death of the process ends it.                  *)

Retiring == cmd.name = "cancel" /\ cmd.retiring

Leave(r) == /\ pc' = "idle"
            /\ mem' = NoRecord
            /\ cmd' = NoCommand
            /\ retire' = r

Fail == Leave(IF Retiring THEN "no" ELSE retire)
Return == Leave(IF Retiring THEN "check" ELSE retire)

\* The process holding the lock is killed.
Crash == /\ pc # "idle"
         /\ Fail
         /\ UNCHANGED <<stored, provider>>

\* The process running retire_writer is killed between its locked parts.
RetireCrash == /\ pc = "idle" /\ retire # "no"
               /\ retire' = "no"
               /\ UNCHANGED <<stored, pc, mem, cmd, provider>>
-----------------------------------------------------------------------------
(* Dispatch: reserve, checkpoint, create.                                   *)

Fresh(i) == [bound |-> FALSE, checkpoint |-> FALSE, input |-> i, state |-> "uncertain",
             reason |-> "other", ops |-> [k \in Requests |-> "absent"],
             dispatched |-> 0, message |-> 0, cancel |-> 0, collect |-> 0, retired |-> FALSE]

\* A reservation, bound or not, rules out another create for good.
Unreserved(r) == r = NoRecord

\* The reservation is stored before the adapter is called at all.
Dispatch(i) ==
    /\ pc = "idle" /\ Unreserved(record)
    /\ record' = Fresh(i)
    /\ mem' = Fresh(i)
    /\ cmd' = [name |-> "dispatch", input |-> i]
    /\ pc' = "create"
    /\ UNCHANGED <<artifact, collectedAt, retire, provider>>

\* The adapter fails before it calls back.
AdapterFails == /\ pc = "create"
                /\ Fail
                /\ UNCHANGED <<stored, provider>>

Checkpoint == /\ pc = "create"
              /\ mem' = [mem EXCEPT !.checkpoint = TRUE]
              /\ record' = mem'
              /\ pc' = "post"
              /\ UNCHANGED <<artifact, collectedAt, cmd, retire, provider>>

PostAnswered == /\ pc = "post"
                /\ remote' = [remote EXCEPT !.exists = TRUE]
                /\ posts' = posts + 1
                /\ mem' = [mem EXCEPT !.bound = TRUE, !.dispatched = 1,
                                      !.state = "pending", !.reason = "none"]
                /\ record' = mem'
                /\ pc' = "get"
                /\ UNCHANGED <<artifact, collectedAt, cmd, retire, flight, sent>>

\* No answer: the session was created, will be, or never is.
PostLost == /\ pc = "post"
            /\ posts' = posts + 1
            /\ \/ (remote' = [remote EXCEPT !.exists = TRUE] /\ UNCHANGED flight)
               \/ (flight' = flight \cup {"create"} /\ UNCHANGED remote)
               \/ UNCHANGED <<remote, flight>>
            /\ Fail
            /\ UNCHANGED <<stored, sent>>
-----------------------------------------------------------------------------
(* A command on a stored session.                                           *)

MessageAllowed(r) == ~r.retired

\* The same key must come with the same input, and a retired writer takes no
\* message, not even an acknowledgement of one.
Admitted(c, r) == /\ c.name = "dispatch" => c.input = r.input
                  /\ c.name = "message" => MessageAllowed(r)

Start(c) == /\ pc = "idle" /\ record # NoRecord
            /\ Admitted(c, record)
            /\ cmd' = c
            /\ mem' = record
            /\ pc' = IF ~record.bound THEN "bind"
                     ELSE IF c.name \in {"message", "cancel"} THEN "op" ELSE "get"
            /\ UNCHANGED <<stored, provider>>

\* The operator asserts delivery only of a request whose fate is settled.
Settled(c) == c.acknowledge => c.request \notin flight

Enter == \E c \in Command : /\ Start(c)
                            /\ c.name = "cancel" => ~c.retiring
                            /\ c.name \in {"message", "cancel"} => Settled(c)
                            /\ UNCHANGED retire

\* An unbound session asks the provider which session its checkpoint created.
\* Only a match binds; nothing found, or no checkpoint, is left to the operator.
Reconcile ==
    /\ pc = "bind" /\ mem.checkpoint /\ remote.exists
    /\ mem' = [mem EXCEPT !.bound = TRUE, !.dispatched = 1]
    /\ record' = mem'
    /\ pc' = IF cmd.name \in {"message", "cancel"} THEN "op" ELSE "get"
    /\ UNCHANGED <<artifact, collectedAt, cmd, retire, provider>>

Unreconciled == /\ pc = "bind"
                /\ Return
                /\ UNCHANGED <<stored, provider>>

ReconcileFails == /\ pc = "bind" /\ mem.checkpoint
                  /\ Fail
                  /\ UNCHANGED <<stored, provider>>
-----------------------------------------------------------------------------
(* Message and cancel.                                                      *)

Counted(r, k) == IF k \in Messages THEN [r EXCEPT !.ops[k] = "done", !.message = @ + 1]
                                   ELSE [r EXCEPT !.ops[k] = "done", !.cancel = @ + 1]

AcknowledgedAgain(r, k) == Counted(r, k)

\* The operator's assertion that the request took effect changes a pending one.
AcknowledgedOnce(r, k) == IF r.ops[k] = "pending" THEN Counted(r, k) ELSE r

Acknowledge == /\ pc = "op" /\ cmd.acknowledge
               /\ mem.ops[cmd.request] # "absent"
               /\ mem' = AcknowledgedOnce(mem, cmd.request)
               /\ record' = mem'
               /\ pc' = "get"
               /\ UNCHANGED <<artifact, collectedAt, cmd, retire, provider>>

AlreadyDone == /\ pc = "op" /\ ~cmd.acknowledge
               /\ mem.ops[cmd.request] = "done"
               /\ pc' = "get"
               /\ UNCHANGED <<stored, mem, cmd, retire, provider>>

NoneChecked(r) == TRUE
NonePending(r) == ~Pending(r)

\* A request neither acknowledged nor done before: nothing else unresolved.
New == /\ ~cmd.acknowledge
       /\ mem.ops[cmd.request] = "absent"
       /\ NonePending(mem)
       /\ Cardinality(Recorded(mem)) < OpLimit

\* The request is refused: unresolved, unknown, blocked by another, beyond the
\* limit, or (for a recorded one) the key of a different request.
RefuseRequest == /\ pc = "op"
                 /\ ~New
                 /\ cmd.acknowledge => mem.ops[cmd.request] = "absent"
                 /\ Fail
                 /\ UNCHANGED <<stored, provider>>

\* Recording a request invalidates the completion before anything is sent: the
\* private result is deleted first, then the record is written.
Intent(r, a, k) == [record |-> [r EXCEPT !.ops[k] = "pending", !.collect = 0],
                    artifact |-> NoResult]

Intend == /\ pc = "op" /\ New
          /\ LET i == Intent(mem, artifact, cmd.request) IN
               /\ mem' = i.record
               /\ artifact' = i.artifact
          /\ pc' = "intent"
          /\ UNCHANGED <<record, collectedAt, cmd, retire, provider>>

IntentUnwritten == record

\* What the store holds once the intent is written.
Persisted == mem

WriteIntent == /\ pc = "intent"
               /\ record' = Persisted
               /\ pc' = "send"
               /\ UNCHANGED <<artifact, collectedAt, mem, cmd, retire, provider>>

\* The provider acts on a request: a message resumes the session for another
\* round and may or may not clear the result, a cancel ends it.
Effect(k) == IF k \in Messages
             THEN \E res \in {remote.result, NoResult} :
                    remote' = [remote EXCEPT !.raw = "running", !.round = @ + 1,
                                             !.result = res, !.kept = res]
             ELSE remote' = [remote EXCEPT !.raw = "terminated"]

SendAnswered == /\ pc = "send"
                /\ Effect(cmd.request)
                /\ sent' = [sent EXCEPT ![cmd.request] = @ + 1]
                /\ mem' = Counted(mem, cmd.request)
                /\ record' = mem'
                /\ pc' = "get"
                /\ UNCHANGED <<artifact, collectedAt, cmd, retire, flight, posts>>

\* No answer: the request took effect, may still, or never does.
SendLost == /\ pc = "send"
            /\ sent' = [sent EXCEPT ![cmd.request] = @ + 1]
            /\ \/ (Effect(cmd.request) /\ UNCHANGED flight)
               \/ (flight' = flight \cup {cmd.request} /\ UNCHANGED remote)
               \/ UNCHANGED <<remote, flight>>
            /\ Fail
            /\ UNCHANGED <<stored, posts>>
-----------------------------------------------------------------------------
(* Every command ends by reading the provider and saving what it saw.       *)

\* Failure, suspension and approval win over a result, a result over the rest.
Completes == /\ remote.raw \notin {"blocked", "suspended"}
             /\ remote.result # NoResult \/ remote.raw \in {"finished", "exited"}

\* The record after the read, but for the pending override made on saving.
Seen(complete) ==
    LET r == [mem EXCEPT !.state = IF complete THEN "complete" ELSE "open",
                         !.reason = IF complete THEN "none" ELSE "other",
                         !.collect = IF complete THEN @ ELSE 0]
    IN  IF cmd.name = "collect" /\ complete
        THEN IF remote.result = NoResult THEN [r EXCEPT !.reason = "other"]
             ELSE IF Pending(mem) THEN r ELSE [r EXCEPT !.collect = 1]
        ELSE r

Collects == /\ cmd.name = "collect" /\ Completes /\ remote.result # NoResult
            /\ mem.collect = 0 /\ ~Pending(mem)

Get == /\ pc = "get"
       /\ LET s == Seen(Completes) IN
            mem' = IF Pending(s) THEN [s EXCEPT !.state = "uncertain", !.reason = "other"]
                                 ELSE s
       /\ artifact' = IF Collects THEN remote.result
                      ELSE IF Completes THEN artifact ELSE NoResult
       /\ collectedAt' = IF Collects THEN Recorded(mem) ELSE collectedAt
       /\ pc' = "save"
       /\ UNCHANGED <<record, cmd, retire, provider>>

GetFails == /\ pc = "get"
            /\ mem' = [mem EXCEPT !.state = "uncertain", !.reason = "provider_unavailable",
                                  !.collect = 0]
            /\ artifact' = NoResult
            /\ pc' = "save"
            /\ UNCHANGED <<record, collectedAt, cmd, retire, provider>>

Save == /\ pc = "save"
        /\ record' = mem
        /\ IF mem.reason = "provider_unavailable" THEN Fail ELSE Return
        /\ UNCHANGED <<artifact, collectedAt, provider>>
-----------------------------------------------------------------------------
(* discard_private_result: the count first, then the result.                *)

Discard == /\ pc = "idle" /\ record # NoRecord
           /\ record.bound /\ record.collect = 1
           /\ record' = [record EXCEPT !.collect = 0]
           /\ mem' = record'
           /\ pc' = "discard"
           /\ UNCHANGED <<artifact, collectedAt, cmd, retire, provider>>

DeleteDiscarded == /\ pc = "discard"
                   /\ artifact' = NoResult
                   /\ Return
                   /\ UNCHANGED <<record, collectedAt, provider>>
-----------------------------------------------------------------------------
(* retire_writer: read the writer, cancel unless it is quiescent, and under *)
(* a fresh lock read it again and refuse further messages.                  *)

RetireStart ==
    /\ pc = "idle" /\ retire = "no" /\ record # NoRecord /\ record.bound
    /\ retire' = IF ~Pending(record) /\ Quiescent(remote.raw) THEN "check" ELSE "cancel"
    /\ UNCHANGED <<stored, pc, mem, cmd, provider>>

RetireCancel == /\ retire = "cancel"
                /\ \E k \in Cancels : Start([name |-> "cancel", request |-> k,
                                             acknowledge |-> FALSE, retiring |-> TRUE])
                /\ UNCHANGED retire

RetireVerify == /\ pc = "idle" /\ retire = "check"
                /\ NonePending(record) /\ Quiescent(remote.raw)
                /\ mem' = [record EXCEPT !.retired = TRUE]
                /\ retire' = "no"
                /\ pc' = "save"
                /\ UNCHANGED <<stored, cmd, provider>>

RetireUnverified == /\ pc = "idle" /\ retire = "check"
                    /\ retire' = "no"
                    /\ UNCHANGED <<stored, pc, mem, cmd, provider>>
-----------------------------------------------------------------------------
(* The provider.                                                            *)

\* The session works, blocks, ends, or reports the result of its round.
Progress == /\ remote.exists
            /\ \E raw \in Raw, res \in {remote.result, remote.round} :
                 remote' = [remote EXCEPT !.raw = raw, !.result = res]
            /\ UNCHANGED <<stored, pc, mem, cmd, retire, flight, posts, sent>>

\* A late write takes effect, or is dropped.
Arrive == \E w \in flight :
            /\ flight' = flight \ {w}
            /\ \/ (w = "create" /\ remote' = [remote EXCEPT !.exists = TRUE])
               \/ (w # "create" /\ Effect(w))
               \/ UNCHANGED remote
            /\ UNCHANGED <<stored, pc, mem, cmd, retire, posts, sent>>
-----------------------------------------------------------------------------
Next == \/ (\E i \in Inputs : Dispatch(i))
        \/ AdapterFails \/ Checkpoint \/ PostAnswered \/ PostLost
        \/ Enter \/ Reconcile \/ Unreconciled \/ ReconcileFails
        \/ Acknowledge \/ AlreadyDone \/ RefuseRequest \/ Intend \/ WriteIntent
        \/ SendAnswered \/ SendLost
        \/ Get \/ GetFails \/ Save
        \/ Discard \/ DeleteDiscarded
        \/ RetireStart \/ RetireCancel \/ RetireVerify \/ RetireUnverified
        \/ Crash \/ RetireCrash
        \/ Progress \/ Arrive

Spec == Init /\ [][Next]_vars
-----------------------------------------------------------------------------
(* Properties.                                                              *)

\* Whatever crashes, losses and repeated dispatches happen, the paid create
\* request is sent at most once under one session key, and only for a stored
\* reservation.
AtMostOneCreate == posts <= 1 /\ (posts = 1 => record # NoRecord)

\* No request key is ever sent to the provider twice, whichever commands repeat
\* it and whenever they are killed.
OncePerRequest == \A k \in Requests : sent[k] <= 1

\* No request is sent while the fate of an earlier one is open: the provider
\* holds no late write and every other recorded request is done.
NoBlindOp == [][\A k \in Requests : sent'[k] > sent[k] =>
                  /\ flight = {}
                  /\ \A j \in Recorded(record) \ {k} : record.ops[j] = "done"]_vars

\* What private_result hands out.
Visible == /\ record # NoRecord
           /\ record.state = "complete" /\ record.reason = "none"
           /\ NonePending(record) /\ record.collect = 1
           /\ artifact # NoResult

\* A private result a consumer can read was collected after the last message or
\* cancel of the session was recorded, and it answers the provider's last round.
\* The one other thing it can be is the result the provider itself went on
\* showing when it took the last message: _observe completes a session that is
\* running and shows a result, whichever round that result is of.
NoResultAcrossOps == Visible => /\ collectedAt = Recorded(record)
                                /\ artifact \in {remote.round, remote.kept}

\* Once a writer is retired no message reaches the provider any more, not even
\* one sent before and delivered late.
RetiredStaysQuiet == [][record # NoRecord /\ record.retired =>
                          remote'.round = remote.round]_vars

\* A claim the code does not keep.  docs/sessions.md: repeated collection keeps
\* the first result. A collect that reports a complete, collected session leaves
\* its result readable.
CollectKeepsResult == [][Save /\ cmd.name = "collect" /\ mem.collect = 1 =>
                           artifact # NoResult]_vars

\* The paid create and every request reach the provider at most once, and a
\* result that can be read was collected after the last of them: it is of the
\* last round, or what the provider still showed when that round began.
OnceAndCurrent == AtMostOneCreate /\ OncePerRequest /\ NoResultAcrossOps

\* A request is sent only when the fate of every other one is known, and no
\* message at all for a writer that was retired.
SendsAreSafe == NoBlindOp /\ RetiredStaysQuiet
=============================================================================
