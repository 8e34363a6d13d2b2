------------------------------ MODULE WorkOrders -------------------------------
(***************************************************************************)
(* Devin work orders (devin_work_orders.py): orders whose work goes to one *)
(* branch, each run by commands that hold the order's lock, over a remote  *)
(* session per order.  The remote session is RemoteSession, of which only  *)
(* the calls made here remain: its intents, lost answers, late writes and  *)
(* the result it keeps.  The provider's completion is a claim that GitHub  *)
(* has to confirm.  Anyone may observe an order without its lock.          *)
(***************************************************************************)
EXTENDS Naturals, FiniteSets

CONSTANTS Orders, Requests, PRs, Heads,
          MaxRound,   \* rounds an order may have (100)
          Nothing


VARIABLES
    order,    \* stored order, by order
    writer,   \* the order that has reserved the branch
    sess,     \* stored remote session, by order
    prov,     \* the provider's session, by order
    late,     \* writes to the provider that may still take effect
    told,     \* rounds whose message was sent, by order
    paid,     \* orders whose session creation was sent
    proc,     \* the command that holds an order's lock
    obs       \* an observation

orderVars == <<order, writer, sess, prov, late, told, paid, proc, obs>>
remote == <<sess, prov, late, told, paid>>

Rounds == 0..MaxRound
Claim == [round : Rounds, pr : PRs, head : Heads]
Pull == [pr : PRs, head : Heads, ours : BOOLEAN]   \* links, author, base and branch are the order's
Shown == Pull \cup {Nothing}
OrderCommands == {"dispatch", "status", "collect", "clarify", "fix", "cancel"}
Keys == Requests \cup {"cancel"}
Msgs == [cmd : OrderCommands, req : Requests, head : Heads \cup {Nothing}]
Works == [round : Rounds, claim : Claim \cup {Nothing}, verified : BOOLEAN, msg : Msgs \cup {Nothing},
          pending : BOOLEAN, used : SUBSET Requests, pr : PRs \cup {Nothing}, rejected : BOOLEAN]
OrdersAssumption ==
    /\ MaxRound \in Nat /\ {"create", "cancel"} \cap Requests = {}
    /\ Nothing \notin Orders \cup Requests \cup Works

NewOrder == [round |-> 0, claim |-> Nothing, verified |-> FALSE, msg |-> Nothing, pending |-> FALSE,
          used |-> {}, pr |-> Nothing, rejected |-> FALSE]
NoRemote == [made |-> "no", ops |-> [k \in Keys |-> "absent"], result |-> Nothing]
NoWork == [exists |-> FALSE, taken |-> 0]
Free == [pc |-> "idle", cmd |-> Nothing, req |-> Nothing, head |-> Nothing, ack |-> FALSE, state |-> "open"]
NoView == [pc |-> "idle", o |-> Nothing, rec |-> Nothing, state |-> "open", told |-> {}, verified |-> FALSE]

OrdersTypeOK ==
    /\ writer \in Orders \cup {Nothing} /\ paid \subseteq Orders
    /\ \A o \in Orders :
         /\ order[o] \in Works \cup {Nothing}
         /\ sess[o].made \in {"no", "reserved", "bound"} /\ sess[o].result \in Claim \cup {Nothing}
         /\ prov[o].taken \in Rounds /\ told[o] \subseteq Rounds
         /\ proc[o].cmd \in OrderCommands \cup {Nothing} /\ proc[o].state \in {"open", "bare", "complete", "uncertain"}

OrdersInit ==
    /\ order = [o \in Orders |-> Nothing] /\ writer = Nothing
    /\ sess = [o \in Orders |-> NoRemote] /\ prov = [o \in Orders |-> NoWork]
    /\ late = {} /\ told = [o \in Orders |-> {}] /\ paid = {}
    /\ proc = [o \in Orders |-> Free] /\ obs = NoView

At(o, pc) == proc[o].pc = pc /\ UNCHANGED obs
Goes(o, pc) == proc' = [proc EXCEPT ![o].pc = pc]
Ends(o) == proc' = [proc EXCEPT ![o] = Free]
Writes(o, r) == order' = [order EXCEPT ![o] = r]
Mine(o) == UNCHANGED <<order, writer>>

(***************************************************************************)
(* A command: what is checked and stored before the remote session is      *)
(* asked.  A command refused for its role, its context or its input leaves *)
(* what it has stored, as one that is killed there: Killed.                *)
(***************************************************************************)
Start(o) ==
    /\ proc[o].pc = "idle"
    /\ \E cmd \in OrderCommands, req \in Requests \cup {Nothing}, head \in Heads \cup {Nothing}, ack \in BOOLEAN :
         /\ (req # Nothing) = (cmd \in {"clarify", "fix"})
         /\ (head # Nothing) = (cmd = "fix")
         /\ ack => cmd \in {"clarify", "fix", "cancel"}
         /\ (cmd = "dispatch" \/ order[o] # Nothing)
         /\ proc' = [proc EXCEPT ![o] = [Free EXCEPT !.pc = "branch", !.cmd = cmd, !.req = req,
                                                     !.head = head, !.ack = ack]]
    /\ IF order[o] = Nothing THEN Writes(o, NewOrder) ELSE UNCHANGED order
    /\ UNCHANGED <<writer, remote, obs>>

Conflict(o) == writer \notin {Nothing, o}
Branch(o) ==
    /\ At(o, "branch") /\ UNCHANGED <<order, remote>>
    /\ IF Conflict(o) THEN UNCHANGED writer /\ Ends(o)
       ELSE writer' = o /\ Goes(o, IF proc[o].cmd \in {"clarify", "fix"} THEN "intend" ELSE "remote")

(* A claim holds if it is of the round and GitHub shows its pull request,  *)
(* with the order's links, author and branches, at its head.  GitHub is    *)
(* read anew each time and may show anything.                              *)
Holds(c, round, pull) ==
    /\ c # Nothing /\ pull # Nothing
    /\ c.round = round /\ c.pr = pull.pr /\ c.head = pull.head /\ pull.ours

Said(o) == [cmd |-> proc[o].cmd, req |-> proc[o].req, head |-> proc[o].head]
Again(o) == order[o].msg # Nothing /\ order[o].msg.req = proc[o].req   \* of other content: refused
MayAsk(o, pull) ==
    /\ ~order[o].pending /\ ~proc[o].ack
    /\ proc[o].req \notin order[o].used /\ order[o].round < MaxRound
    /\ IF proc[o].cmd = "fix"
       THEN order[o].claim # Nothing /\ proc[o].head = order[o].claim.head /\ Holds(order[o].claim, order[o].round, pull)
       ELSE order[o].claim = Nothing
KeepsEvidence(r, q) == [r EXCEPT !.round = @ + 1, !.msg = q, !.pending = TRUE, !.used = @ \cup {q.req}]
Asked(r, q) ==
    [r EXCEPT !.round = @ + 1, !.claim = Nothing, !.verified = FALSE, !.rejected = FALSE,
              !.msg = q, !.pending = TRUE, !.used = @ \cup {q.req}]
Intend(o) ==
    /\ At(o, "intend") /\ UNCHANGED <<writer, remote>>
    /\ \/ Again(o) /\ order[o].msg = Said(o) /\ Goes(o, "remote") /\ UNCHANGED order
       \/ ~Again(o) /\ (\E pull \in Shown : MayAsk(o, pull)) /\ Writes(o, Asked(order[o], Said(o))) /\ Goes(o, "remote")

(***************************************************************************)
(* The remote session: reserve and create, or find what was created; a     *)
(* request once, after its intent and with the kept result gone; the state *)
(* and for a collection the result.                                        *)
(***************************************************************************)
Unanswered(o) == \E k \in Keys : sess[o].ops[k] = "pending"
Onward(o) == IF proc[o].cmd \in {"clarify", "fix", "cancel"} THEN "op" ELSE "get"
Made(o, how) == sess' = [sess EXCEPT ![o].made = how]

Create(o) ==
    /\ At(o, "remote") /\ Mine(o) /\ sess[o].made = "no" /\ proc[o].cmd = "dispatch" /\ UNCHANGED told
    /\ \/ /\ Made(o, "bound") /\ paid' = paid \cup {o} /\ prov' = [prov EXCEPT ![o].exists = TRUE]
          /\ Goes(o, "get") /\ UNCHANGED late
       \/ /\ Made(o, "reserved") /\ Ends(o)
          /\ \/ UNCHANGED <<paid, prov, late>>
             \/ paid' = paid \cup {o} /\ UNCHANGED <<prov, late>>
             \/ paid' = paid \cup {o} /\ prov' = [prov EXCEPT ![o].exists = TRUE] /\ UNCHANGED late
             \/ paid' = paid \cup {o} /\ late' = late \cup {[o |-> o, k |-> "create", round |-> 0]} /\ UNCHANGED prov
Find(o) ==
    /\ At(o, "remote") /\ Mine(o) /\ UNCHANGED <<prov, late, told, paid>>
    /\ \/ sess[o].made = "bound" /\ Goes(o, Onward(o)) /\ UNCHANGED sess
       \/ sess[o].made = "reserved" /\ prov[o].exists /\ Made(o, "bound") /\ Goes(o, Onward(o))
       \/ sess[o].made = "reserved" /\ UNCHANGED sess
          /\ proc' = [proc EXCEPT ![o].pc = "after", ![o].state = "uncertain"]
       \/ sess[o].made = "no" /\ proc[o].cmd # "dispatch" /\ UNCHANGED sess /\ Ends(o)

Key(o) == IF proc[o].cmd = "cancel" THEN "cancel" ELSE proc[o].req
Write(o) == [o |-> o, k |-> Key(o), round |-> order[o].round]
Effect(w) ==
    IF w.k = "create" THEN prov' = [prov EXCEPT ![w.o].exists = TRUE]
    ELSE prov' = IF w.k = "cancel" THEN prov ELSE [prov EXCEPT ![w.o].taken = w.round]
Intent(o) == [sess[o] EXCEPT !.ops[Key(o)] = "pending", !.result = Nothing]
Tell(o) == told' = IF Key(o) = "cancel" THEN told ELSE [told EXCEPT ![o] = @ \cup {order[o].round}]
(* The operator acknowledges what has reached the provider.                *)
Arrived(o) ==
    IF Key(o) = "cancel" THEN ~\E w \in late : w.o = o ELSE prov[o].taken = order[o].round
Prior(o) ==
    /\ At(o, "op") /\ Mine(o) /\ UNCHANGED <<prov, late, told, paid>>
    /\ \/ sess[o].ops[Key(o)] = "done" /\ Goes(o, "get") /\ UNCHANGED sess
       \/ /\ sess[o].ops[Key(o)] = "pending" /\ proc[o].ack /\ Arrived(o)
          /\ sess' = [sess EXCEPT ![o].ops[Key(o)] = "done"] /\ Goes(o, "get")
       \/ sess[o].ops[Key(o)] = "pending" /\ ~proc[o].ack /\ Ends(o) /\ UNCHANGED sess
       \/ sess[o].ops[Key(o)] = "absent" /\ (proc[o].ack \/ Unanswered(o)) /\ Ends(o) /\ UNCHANGED sess
Send(o) ==
    /\ At(o, "op") /\ Mine(o) /\ sess[o].ops[Key(o)] = "absent" /\ ~proc[o].ack /\ ~Unanswered(o) /\ UNCHANGED paid
    /\ \/ /\ sess' = [sess EXCEPT ![o] = [Intent(o) EXCEPT !.ops[Key(o)] = "done"]]
          /\ Effect(Write(o)) /\ Tell(o) /\ UNCHANGED late /\ Goes(o, "get")
       \/ /\ sess' = [sess EXCEPT ![o] = Intent(o)] /\ Ends(o)
          /\ \/ UNCHANGED <<prov, late, told>>
             \/ Tell(o) /\ UNCHANGED <<prov, late>>
             \/ Tell(o) /\ Effect(Write(o)) /\ UNCHANGED late
             \/ Tell(o) /\ late' = late \cup {Write(o)} /\ UNCHANGED prov

(* The provider says what it likes: at work, or finished with or without a *)
(* result, which need not be of this round.                                *)
Says == [complete : BOOLEAN, out : Claim \cup {Nothing}]
Shows(o, say) == IF Unanswered(o) THEN "uncertain" ELSE IF ~say.complete THEN "open"
                 ELSE IF say.out = Nothing THEN "bare" ELSE "complete"
Get(o) ==
    /\ At(o, "get") /\ Mine(o) /\ UNCHANGED <<prov, late, told, paid>>
    /\ \/ \E say \in Says :
            /\ sess' = [sess EXCEPT ![o].result =
                          IF ~say.complete THEN Nothing
                          ELSE IF proc[o].cmd = "collect" /\ @ = Nothing /\ ~Unanswered(o) THEN say.out ELSE @]
            /\ proc' = [proc EXCEPT ![o].pc = "after", ![o].state = Shows(o, say)]
       \/ sess' = [sess EXCEPT ![o].result = Nothing] /\ Ends(o)

(***************************************************************************)
(* What follows: the message's fate, or the collection of evidence         *)
(***************************************************************************)
After(o) ==
    /\ At(o, "after") /\ UNCHANGED <<writer, remote>>
    /\ \/ /\ proc[o].cmd \in {"clarify", "fix"}
          /\ Writes(o, [order[o] EXCEPT !.pending = (proc[o].state = "uncertain")]) /\ Ends(o)
       \/ /\ proc[o].cmd = "collect" /\ Writes(o, [order[o] EXCEPT !.verified = FALSE])
          /\ IF proc[o].state = "complete" THEN Goes(o, "judge") ELSE Ends(o)
       \/ proc[o].cmd \in {"dispatch", "status", "cancel"} /\ Ends(o) /\ UNCHANGED order

Accepts(o, pull) == Holds(sess[o].result, order[o].round, pull) /\ order[o].pr \in {Nothing, sess[o].result.pr}
Judge(o) ==
    /\ At(o, "judge") /\ UNCHANGED <<writer, remote>>
    /\ \/ /\ (\E pull \in Shown : Accepts(o, pull)) /\ Ends(o)
          /\ Writes(o, [order[o] EXCEPT !.claim = sess[o].result, !.verified = TRUE, !.pr = sess[o].result.pr,
                                        !.rejected = FALSE])
       \/ Ends(o) /\ UNCHANGED order   \* GitHub does not answer, or shows several
       \/ (\E pull \in Shown : ~Accepts(o, pull)) /\ Writes(o, [order[o] EXCEPT !.rejected = TRUE]) /\ Goes(o, "discard")
Discard(o) ==
    /\ At(o, "discard") /\ Mine(o) /\ UNCHANGED <<prov, late, told, paid>>
    /\ sess' = [sess EXCEPT ![o].result = Nothing] /\ Ends(o)

Killed(o) == proc[o].pc # "idle" /\ Ends(o) /\ UNCHANGED <<order, writer, remote, obs>>

(***************************************************************************)
(* observe: the order, its session, the pull request, the order again      *)
(***************************************************************************)
Seen(o) == UNCHANGED <<order, writer, remote, proc>>
Look(o) ==
    /\ obs.pc = "idle" /\ order[o] # Nothing /\ Seen(o)
    /\ obs' = [NoView EXCEPT !.pc = "session", !.o = o, !.rec = order[o]]
LookSession(o) ==
    /\ obs.pc = "session" /\ obs.o = o /\ Seen(o)
    /\ \E say \in Says : obs' = [obs EXCEPT !.pc = "pull", !.state = Shows(o, say), !.told = told[o]]
(* GitHub answers as it likes, and then the order is read again.           *)
SameOrder(o) == order[o] = obs.rec
View(pull) ==
    LET v == obs.rec.verified /\ Holds(obs.rec.claim, obs.rec.round, pull) /\ ~obs.rec.rejected
        unclear == \/ obs.rec.pending
                   \/ /\ obs.state \in {"bare", "complete"}
                      /\ obs.rec.rejected \/ ((obs.rec.round > 0 \/ obs.rec.verified) /\ ~v)
    IN  [obs EXCEPT !.pc = "told", !.rec = Nothing, !.verified = v, !.state = IF unclear THEN "uncertain" ELSE @]
LookAgain(o) ==
    /\ obs.pc = "pull" /\ obs.o = o /\ Seen(o)
    /\ \E pull \in Shown : obs' = IF SameOrder(o) THEN View(pull) ELSE NoView
Forget == obs.pc = "told" /\ obs' = NoView /\ UNCHANGED <<order, writer, remote, proc>>

(* A late write takes effect, or never does.                               *)
Arrive ==
    /\ \E w \in late : late' = late \ {w} /\ (Effect(w) \/ UNCHANGED prov)
    /\ UNCHANGED <<order, writer, sess, told, paid, proc, obs>>

Step(o) ==
    \/ Start(o) \/ Branch(o) \/ Intend(o)
    \/ Create(o) \/ Find(o) \/ Prior(o) \/ Send(o) \/ Get(o)
    \/ After(o) \/ Judge(o) \/ Discard(o) \/ Killed(o)
    \/ Look(o) \/ LookSession(o) \/ LookAgain(o)
OrdersNext == (\E o \in Orders : Step(o)) \/ Forget \/ Arrive
OrdersSpec == OrdersInit /\ [][OrdersNext]_orderVars

(***************************************************************************)
(* What orders promise                                                     *)
(***************************************************************************)
(* A session is paid for only by the one order that reserved the branch.   *)
OneWriter == paid \subseteq {writer}
(* Evidence is of the order's round, of its pull request, and no message   *)
(* of a later round has been sent.                                         *)
EvidenceIsCurrent ==
    \A o \in Orders : (order[o] # Nothing /\ order[o].claim # Nothing) =>
        /\ order[o].claim.round = order[o].round /\ order[o].claim.pr = order[o].pr
        /\ \A n \in told[o] : n <= order[o].claim.round
        /\ order[o].verified => ~order[o].rejected
(* Rounds go out one after the other: none is skipped or sent while the    *)
(* fate of an earlier one is open, and an order that awaits no message's   *)
(* fate has sent that of its round.                                        *)
RoundsInOrder ==
    \A o \in Orders :
        /\ (order[o] # Nothing /\ order[o].round > 0 /\ ~order[o].pending) => order[o].round \in told[o]
        /\ \A n \in told[o], m \in 1..MaxRound : m < n => m \in told[o]
        /\ \A w \in late : w.o = o /\ w.k \in Requests => \A n \in told[o] : n <= w.round
(* Once evidence named the pull request of an order, none names another.   *)
OnePullRequest ==
    \A o \in Orders : (order[o] # Nothing /\ order[o].pr # Nothing) => order'[o].pr = order[o].pr
(* What an observation tells of a finished or verified round is of the     *)
(* round the order is in.                                                  *)
ViewIsCurrent ==
    (obs.pc = "pull" /\ obs'.pc = "told") =>
        /\ obs'.verified => order[obs.o].verified
        /\ obs'.state \in {"bare", "complete"} => \A n \in told[obs.o] : n \in obs.told /\ n <= order[obs.o].round
===============================================================================
