---------------------------- MODULE CommentHistory -----------------------------
(***************************************************************************)
(* Reading the whole comment history of a pull request while people write, *)
(* edit and delete comments (audit_labeler_lib.lineage_history).  GitHub   *)
(* serves pages, so a comment deleted between two requests moves the later *)
(* ones under the reader.  The reader halves its page when a response is   *)
(* too large, starts over, and accepts a history it has read twice.        *)
(***************************************************************************)
EXTENDS Naturals, FiniteSets, Sequences, SequencesExt

CONSTANTS PageSize,     \* comments asked for at first
          MaxItems,     \* comments a history may have
          MaxResponse,  \* bytes of one response
          MaxTotal,     \* bytes of all of them
          MaxRequests,  \* requests of one history
          Sizes,        \* bytes a comment may have
          MaxStart,     \* comments there may be at the start
          MaxChanges    \* changes during the reading, a bound of the model

HistoryAssumption ==
    /\ PageSize \in Nat \ {0} /\ MaxItems \in Nat \ {0} /\ MaxRequests \in Nat \ {0}
    /\ MaxResponse \in Nat \ {0} /\ MaxTotal \in Nat /\ MaxTotal >= MaxResponse
    /\ Sizes \subseteq Nat \ {0} /\ MaxStart \in Nat /\ MaxChanges \in Nat

VARIABLES
    comments,  \* the comments, oldest first
    written,   \* comments ever written
    moments,   \* every history the pull request has had since the reading began
    reader     \* the reading

historyVars == <<comments, written, moments, reader>>
github == <<comments, written, moments>>

Comment(i, v, n) == [id |-> i, rev |-> v, size |-> n]
Histories(n) == {[i \in 1..n |-> Comment(i, 0, s[i])] : s \in [1..n -> Sizes]}
Begun(size) == [pc |-> "reading", pass |-> 1, size |-> size, page |-> 1, items |-> <<>>,
                observed |-> {}, first |-> <<>>, requests |-> 0, bytes |-> 0]

HistoryTypeOK ==
    /\ written \in Nat /\ \A i, j \in DOMAIN comments : i < j => comments[i].id < comments[j].id
    /\ reader.pc \in {"reading", "done", "changed", "refused"} /\ reader.pass \in {1, 2}
    /\ reader.size \in 1..PageSize /\ reader.requests <= MaxRequests
    /\ Len(reader.items) <= MaxItems

HistoryInit ==
    /\ comments \in UNION {Histories(n) : n \in 0..MaxStart}
    /\ written = Len(comments) /\ moments = {comments} /\ reader = Begun(PageSize)

(***************************************************************************)
(* The pull request                                                        *)
(***************************************************************************)
Shows(list) ==
    /\ reader.pc = "reading" /\ Cardinality(moments) <= MaxChanges
    /\ comments' = list /\ moments' = moments \cup {list} /\ UNCHANGED reader
AddComment == \E n \in Sizes :
    /\ Shows(Append(comments, Comment(written + 1, 0, n))) /\ written' = written + 1
ReviseComment == \E i \in DOMAIN comments, n \in Sizes :
    /\ Shows([comments EXCEPT ![i] = Comment(@.id, @.rev + 1, n)]) /\ UNCHANGED written
RemoveComment == \E i \in DOMAIN comments :
    /\ Shows(RemoveAt(comments, i)) /\ UNCHANGED written

(***************************************************************************)
(* The reader                                                              *)
(***************************************************************************)
Raw == LET from == (reader.page - 1) * reader.size IN
       SubSeq(comments, from + 1, Min({from + reader.size, Len(comments)}))
Weight(list) == FoldSeq(LAMBDA c, n : c.size + n, 0, list)
Bytes == Weight(Raw)
Fits == Bytes <= MaxResponse
Ids(list) == {list[i].id : i \in DOMAIN list}

(* request: the budgets of requests and of bytes come before the page.     *)
Asks == reader.pc = "reading" /\ reader.requests < MaxRequests
Charged == [reader EXCEPT !.requests = @ + 1, !.bytes = @ + Bytes]
Becoming(r) == reader' = r /\ UNCHANGED github
Over == Charged.bytes > MaxTotal

(* attempt: a page may not repeat an id, contradict what any attempt saw,  *)
(* or make the history too long.                                           *)
Repeats == Ids(Raw) \cap Ids(reader.items) # {}
Contradicts == \E c \in ToSet(Raw), o \in reader.observed : c.id = o.id /\ c # o
TooMany == Len(reader.items) + Len(Raw) > MaxItems
Taken == [Charged EXCEPT !.items = @ \o Raw, !.observed = @ \cup ToSet(Raw)]

(* What a finished attempt leads to: the first must have found everything  *)
(* ever observed, the second must be the first again.                      *)
Omits(r) == ~ r.observed \subseteq ToSet(r.items)
Unstable(r) == IF r.pass = 1 THEN Omits(r) ELSE r.items # r.first
ReadAgain(r) == [r EXCEPT !.pass = 2, !.page = 1, !.first = r.items, !.items = <<>>]
ReadOnce(r) == [r EXCEPT !.pc = "done"]
Accepted(r) == IF r.pass = 1 THEN ReadAgain(r) ELSE [r EXCEPT !.pc = "done"]
Accept(r) == Becoming(IF Unstable(r) THEN [r EXCEPT !.pc = "changed"] ELSE Accepted(r))

Ends(how, r) == Becoming([r EXCEPT !.pc = how])
Smallest == reader.size = 1 /\ reader.pass = 1
TooLarge ==
    /\ Asks /\ ~Fits
    /\ \/ (Over \/ Smallest) /\ Ends("refused", Charged)
       \/ ~Over /\ reader.pass = 2 /\ Ends("changed", Charged)
       \/ /\ ~Over /\ ~Smallest /\ reader.pass = 1
          /\ Becoming([Charged EXCEPT !.size = @ \div 2, !.page = 1, !.items = <<>>])
Page ==
    /\ Asks /\ Fits
    /\ \/ Over /\ Ends("refused", Charged)
       \/ ~Over /\ (Repeats \/ Contradicts) /\ Ends("changed", Charged)
       \/ /\ ~Over /\ ~Repeats /\ ~Contradicts
          /\ \/ TooMany /\ Ends("refused", Charged)
             \/ /\ ~TooMany /\ Len(Raw) = reader.size
                /\ Becoming([Taken EXCEPT !.page = @ + 1])
             \/ ~TooMany /\ Len(Raw) < reader.size /\ Accept(Taken)
Exhausted ==
    /\ reader.pc = "reading" /\ reader.requests = MaxRequests
    /\ Ends("refused", reader)

(* A request that fails ends the reading.                                  *)
Lost == Asks /\ Becoming([reader EXCEPT !.pc = "refused", !.requests = @ + 1])

HistoryNext ==
    \/ AddComment \/ ReviseComment \/ RemoveComment
    \/ TooLarge \/ Page \/ Exhausted \/ Lost
HistorySpec == HistoryInit /\ [][HistoryNext]_historyVars

(***************************************************************************)
(* Properties                                                              *)
(***************************************************************************)
(* A history that is returned is the history the pull request had at one   *)
(* moment of the reading, whatever was written, edited or deleted between  *)
(* its requests (lineage_history).                                         *)
HistoryIsOneMoment == reader.pc = "done" => reader.items \in moments

(* The reader says that a history changed only when it did: starting over  *)
(* with a smaller page is never taken for a change (lineage_history).      *)
BlamesAChange == reader.pc = "changed" => Cardinality(moments) > 1

(* What is read is what there was, or that it changed is so.               *)
HistoryIsWhole == HistoryIsOneMoment /\ BlamesAChange
===============================================================================
