------------------------------- MODULE MCContext -------------------------------
(***************************************************************************)
(* Private context at one checkout: a session that prepares, attaches and  *)
(* reviews it (ContextSession), the repository graph it may quote          *)
(* (GraphLifecycle), one question to that graph (GraphQuery) and the       *)
(* verdict that the graph is complete (GraphCompleteness).  A behaviour is *)
(* of one of them and "scope" says which, and with which bounds.           *)
(***************************************************************************)
EXTENDS GraphLifecycle, FiniteSetsExt, TLC

CONSTANTS s1, s2, c1, c2, owner, r1, r2, p1, p2,
          b1, b2, remover, reader,   \* for Builders, Remover and Readers
          n1, n2, n3, elsewhere, missing,
          file, twin, third, other, None

VARIABLES scope,
          head, last, posted, lease, rec, entry, binding, auth, work, conn, cmd, audit,
          purge, minted, accepted, cut, calm,
          doc, question, target, limit, budget, walk, edges, hollow, seeds, overflow,
          frontier, at, expanded, reported, relations, overBudget, beyondDepth, incomplete,
          census, manifest, result

session == <<head, last, posted, lease, rec, entry, binding, auth, work, conn, cmd, audit,
             purge, minted, accepted, cut, calm>>
query == <<doc, question, target, limit, budget, walk, edges, hollow, seeds, overflow,
           frontier, at, expanded, reported, relations, overBudget, beyondDepth, incomplete>>
verdict == <<census, manifest, result>>
vars == <<scope, session, graphVars, query, verdict>>

(* Two sessions of one work item, and a takeover between them; a head that *)
(* moves and comes back under a review; a packet that is rebuilt and       *)
(* disconnected; two commands at once.                                     *)
Taken == INSTANCE ContextSession WITH
             Sessions <- {s1, s2}, Commands <- {c1}, Owner <- owner, MaxHead <- 0,
             Revs <- {r1, r2}, Handles <- {p1, p2}, MaxListed <- 1,
             Uses <- {"retry", "prepare", "refresh"},
             Events <- {"crash", "loss", "takeover"}, owner <- purge
Reviewed == INSTANCE ContextSession WITH
             Sessions <- {s1}, Commands <- {c1}, Owner <- owner, MaxHead <- 1,
             Revs <- {r1, r2}, Handles <- {p1}, MaxListed <- 2,
             Uses <- {"retry", "prepare", "feedback"},
             Events <- {"crash", "outage", "push", "rewind", "review"}, owner <- purge
Purged == INSTANCE ContextSession WITH
             Sessions <- {s1}, Commands <- {c1}, Owner <- owner, MaxHead <- 1,
             Revs <- {r1, r2}, Handles <- {p1, p2}, MaxListed <- 2,
             Uses <- {"retry", "rebuild", "refresh", "deliver"},
             Events <- {"crash", "loss", "push", "disconnect"}, owner <- purge
Contended == INSTANCE ContextSession WITH
             Sessions <- {s1, s2}, Commands <- {c1, c2}, Owner <- owner, MaxHead <- 0,
             Revs <- {r1, r2}, Handles <- {p1}, MaxListed <- 2,
             Uses <- {"attach", "retry", "prepare"},
             Events <- {"crash", "loss", "takeover"}, owner <- purge

(* Every document of at most three of these relationships between three    *)
(* code nodes, one id of another corpus and one never declared.  A target  *)
(* is a label, a callable without its arguments or a path.                 *)
Link(s, t, k) == [source |-> s, target |-> t, kind |-> k, ambiguous |-> s = n2 /\ t = n1]
Links == {Link(s, t, "calls") : s, t \in {n1, n2, n3}}
         \cup {Link(n1, n2, "other"), Link(n2, n3, "inherits"), Link(n3, n1, "tests")}
         \cup {Link(n1, missing, "calls"), Link(missing, n2, "calls"), Link(n3, elsewhere, "calls")}
Small == UNION {kSubset(n, Links) : n \in 0..3}
Query == INSTANCE GraphQuery WITH
             Nodes <- {n1, n2, n3}, Tests <- {n3}, Excluded <- {elsewhere},
             Undeclared <- {missing},
             Documents <- Small,
             Targets <- {<<{n1}, {n2, n3}, {n1}>>, <<{}, {n1, n2}, {n3}>>,
                         <<{}, {}, {n1, n2, n3}>>, <<{}, {}, {}>>},
             Budgets <- {1, 2, 40}, MaxDepth <- 2, MaxSeeds <- 2, pc <- walk

(* Every copy of two files whose names are alike up to normalization, with *)
(* or without a third, and every manifest over three spellings.            *)
Classes == {"code", "nothing", "unsupported", "doubtful", "unclassified"}
AnyFile == [class: Classes, bytes: {"x", "y", "unreadable"}]
Third   == {f \in AnyFile : f.class = "code" /\ f.bytes = "x"}
AllCopies == UNION {[s -> AnyFile] : s \in SUBSET {file, twin}}
             \cup UNION {[s \cup {other} -> Third] : s \in SUBSET {file, twin}}
AllManifests == UNION {[s -> {"x", "y", "blank", "malformed"}] :
                          s \in SUBSET {file, third, other}}
Verdict == INSTANCE GraphCompleteness WITH
             Paths <- {file, twin, third, other},
             Folds <- {<<file, twin>>, <<file, third>>, <<twin, third>>},
             Copies <- AllCopies, Manifests <- AllManifests

ASSUME /\ Taken!ContextAssumption /\ Reviewed!ContextAssumption
       /\ Purged!ContextAssumption /\ Contended!ContextAssumption
       /\ GraphAssumption /\ Query!QueryAssumption /\ Verdict!CompletenessAssumption

NoSession == Reviewed!Init
NoQuery ==
    /\ doc = {} /\ question = "impact" /\ target = <<{}, {}, {}>> /\ limit = 1 /\ budget = 1
    /\ Query!Init
IdleVerdict == census = <<>> /\ manifest = <<>> /\ Verdict!Init

Init ==
    \/ scope = "taken" /\ Taken!Init /\ GraphInit /\ NoQuery /\ IdleVerdict
    \/ scope = "reviewed" /\ Reviewed!Init /\ GraphInit /\ NoQuery /\ IdleVerdict
    \/ scope = "purged" /\ Purged!Init /\ GraphInit /\ NoQuery /\ IdleVerdict
    \/ scope = "contended" /\ Contended!Init /\ GraphInit /\ NoQuery /\ IdleVerdict
    \/ scope = "asked" /\ GraphInit /\ NoSession /\ NoQuery /\ IdleVerdict
    \/ scope = "built" /\ GraphInit /\ NoSession /\ NoQuery /\ IdleVerdict
    \/ scope = "query" /\ Query!Init /\ NoSession /\ GraphInit /\ IdleVerdict
    \/ scope = "verdict" /\ Verdict!Init /\ NoSession /\ GraphInit /\ NoQuery

Guided ==
    \/ scope = "taken" /\ Taken!Next
    \/ scope = "reviewed" /\ Reviewed!Next
    \/ scope = "purged" /\ Purged!Next
    \/ scope = "contended" /\ Contended!Next
(* A reader among the builds of one builder, removals and new commits,     *)
(* until it has answered; or two builders and the remover.                 *)
Answered == reads = MaxReads /\ \A x \in Readers : read[x].pc = "idle"
Lifecycle ==
    \/ scope = "asked" /\ ~Answered /\ GraphNext /\ builder'[b2] = builder[b2]
    \/ scope = "built" /\ GraphNext /\ UNCHANGED <<tip, read>>

Next ==
    \/ Guided /\ UNCHANGED <<scope, graphVars, query, verdict>>
    \/ Lifecycle /\ UNCHANGED <<scope, session, query, verdict>>
    \/ scope = "query" /\ Query!Next /\ UNCHANGED <<scope, session, graphVars, verdict>>
    \/ scope = "verdict" /\ Verdict!Next /\ UNCHANGED <<scope, session, graphVars, query>>

Spec == Init /\ [][Next]_vars

(* Revisions and commands are interchangeable where a scope has two.       *)
Symmetry == Permutations({r1, r2}) \cup Permutations({c1, c2})

TypeOK ==
    /\ scope = "taken" => Taken!TypeOK
    /\ scope = "reviewed" => Reviewed!TypeOK
    /\ scope = "purged" => Purged!TypeOK
    /\ scope = "contended" => Contended!TypeOK
    /\ scope \in {"asked", "built"} => GraphTypeOK
    /\ scope = "query" => Query!TypeOK
    /\ scope = "verdict" => Verdict!TypeOK

(* Evidence is usable, and a session attached, only after its input is on  *)
(* the pull request; reviewed, only with a verdict for that input; and the *)
(* private artifact of a revision can always be found by whoever is to     *)
(* delete it (context_guided.py, context_delivery.py).                     *)
AttachmentIsPublic ==
    /\ scope = "taken" => Taken!PublishedIsPublic
    /\ scope = "reviewed" => Reviewed!PublishedIsPublic /\ Reviewed!ReviewedIsReviewed
    /\ scope = "purged" => Purged!PublishedIsPublic /\ Purged!BindingIsFound
    /\ scope = "contended" => Contended!PublishedIsPublic

(* What an answer says of itself is so: uncut it is the whole              *)
(* neighbourhood, cut it left something out and the furthest first,        *)
(* complete it rests on stated relationships only, and a graph called      *)
(* complete has a row of its own for every file (run_query, build_packet,  *)
(* _read_completeness).                                                    *)
AnswersAreHonest ==
    /\ scope = "query" => /\ Query!UncutIsWhole /\ Query!TruncatedIsTrue /\ Query!CutsFurthest
                          /\ Query!CompleteIsStated /\ Query!RelationsAreStated
    /\ scope = "verdict" => Verdict!CompleteIsEvidence /\ Verdict!CountsAreRows

(* A publication replaces the input it read, never one another session     *)
(* declared since (attach_session, _publish).                              *)
ReplacesWhatItSaw ==
    [][/\ scope = "taken" => Taken!ReplacesWhatItSaw
       /\ scope = "contended" => Contended!ReplacesWhatItSaw]_vars
==============================================================================
