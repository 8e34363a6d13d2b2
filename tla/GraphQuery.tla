------------------------------ MODULE GraphQuery ------------------------------
(***************************************************************************)
(* One question to the local graph: the reading of the provider's document *)
(* (load_graph), the bounded breadth-first walk (run_query) and what the   *)
(* packet says of its own completeness (build_packet), all of              *)
(* context_graph_query.py.                                                 *)
(*                                                                         *)
(* Init chooses a document and a question; each step is one turn of the    *)
(* walk's loops.  The invariants compare the result with the whole graph.  *)
(***************************************************************************)
EXTENDS Naturals, FiniteSets, Sequences, SequencesExt

CONSTANTS
    Nodes,       \* code nodes the document declares
    Tests,       \* those in a test layout
    Excluded,    \* ids declared as another corpus
    Undeclared,  \* ids only relationships name
    Documents,   \* sets of relationships the document may carry
    Targets,     \* what each target names, in its three tiers
    Budgets,     \* node budgets
    MaxDepth,    \* MAX_DEPTH
    MaxSeeds     \* MAX_SEEDS

QueryAssumption ==
    /\ Tests \subseteq Nodes /\ Budgets \subseteq Nat \ {0}
    /\ MaxDepth \in Nat \ {0} /\ MaxSeeds \in Nat \ {0}
    /\ \A t \in Targets : t \in Seq(SUBSET Nodes) /\ Len(t) = 3
    /\ \A d \in Documents : \A e \in d :
          /\ {e.source, e.target} \subseteq Nodes \cup Excluded \cup Undeclared
          /\ e.kind \in {"calls", "tests", "inherits", "other"} /\ e.ambiguous \in BOOLEAN

Questions == {"impact", "dependency", "symbol", "related_tests"}

VARIABLES
    doc,        \* the relationships of the document
    question, target, limit, budget,
    pc,         \* load, walk, node, done
    edges,      \* relationships between code nodes
    hollow,     \* code nodes whose neighbourhood the document does not state
    seeds, overflow,
    frontier,   \* nodes still to walk through, each with its seed and level
    at,         \* the node being walked through
    expanded, reported,
    relations,  \* relationship, origin, seed, node reached, depth
    overBudget, beyondDepth, incomplete

asked == <<doc, question, target, limit, budget>>
graph == <<edges, hollow, seeds, overflow>>
vars == <<asked, graph, pc, frontier, at, expanded, reported, relations,
          overBudget, beyondDepth, incomplete>>

Start(n) == [node |-> n, seed |-> n, level |-> 0]
Nowhere == Start(CHOOSE n \in Nodes : TRUE)

Init ==
    /\ doc \in Documents /\ question \in Questions /\ target \in Targets
    /\ limit \in 1..MaxDepth /\ budget \in Budgets
    /\ pc = "load" /\ edges = {} /\ hollow = {} /\ seeds = {} /\ overflow = FALSE
    /\ frontier = <<>> /\ at = Nowhere /\ expanded = {} /\ reported = {}
    /\ relations = <<>> /\ overBudget = FALSE /\ beyondDepth = FALSE
    /\ incomplete = FALSE

(***************************************************************************)
(* load_graph, _edge, seed_matches                                         *)
(***************************************************************************)
Ends(e) == {e.source, e.target}

(* A relationship whose other end was never declared costs its surviving   *)
(* end its completeness; one onto another corpus is out of scope.          *)
Loses(e) == IF Ends(e) \subseteq Nodes \cup Excluded THEN {} ELSE Ends(e) \cap Nodes

Tier(t) == CHOOSE i \in 1..3 : (t[i] # {} \/ i = 3) /\ \A j \in 1..(i - 1) : t[j] = {}
Matches == target[Tier(target)]

FirstOf(s) == SubSeq(s, 1, IF Len(s) > MaxSeeds THEN MaxSeeds ELSE Len(s))

Load ==
    /\ pc = "load"
    /\ edges' = {e \in doc : Ends(e) \subseteq Nodes}
    /\ hollow' = UNION {Loses(e) : e \in doc}
    /\ LET starts == FirstOf(SetToSeq(Matches)) IN
       /\ seeds' = Range(starts)
       /\ frontier' = [i \in DOMAIN starts |-> Start(starts[i])]
    /\ overflow' = (Cardinality(Matches) > MaxSeeds)
    /\ expanded' = seeds'
    /\ incomplete' = (seeds' \cap hollow' # {})
    /\ pc' = IF Matches = {} THEN "done" ELSE "walk"
    /\ UNCHANGED <<asked, at, reported, relations, overBudget, beyondDepth>>

(***************************************************************************)
(* run_query                                                               *)
(***************************************************************************)
(* _TRAVERSALS: "calls" stands for imports and references too, "other" for *)
(* definitions and for words the table does not know.                      *)
Filter == [impact |-> {"calls", "tests", "inherits"}, dependency |-> {"calls", "inherits"},
           symbol |-> {"calls", "tests", "inherits", "other"},
           related_tests |-> {"calls", "tests"}]
Eligible(e) == e.kind \in Filter[question]
Onward  == question \in {"dependency", "symbol"}
Against == question \in {"impact", "related_tests", "symbol"}

(* _neighbours: the relationships read at a node, and where each leads.    *)
Neighbours(n) ==
    {<<e, e.target>> : e \in {e \in edges : Onward /\ Eligible(e) /\ e.source = n}}
    \cup {<<e, e.source>> : e \in {e \in edges : Against /\ Eligible(e) /\ e.target = n}}
Pending(n) == {p \in Neighbours(n) : p[1] \notin reported}

Step == at' = Head(frontier) /\ frontier' = Tail(frontier)

(* The walk stops at the requested depth, and says so when the node has    *)
(* relationships the answer does not carry.                                *)
HasMore(n) == Pending(n) # {}

Boundary ==
    /\ pc = "walk" /\ frontier # <<>> /\ Head(frontier).level >= limit
    /\ Step
    /\ beyondDepth' = (beyondDepth \/ HasMore(Head(frontier).node))
    /\ UNCHANGED <<asked, graph, pc, expanded, reported, relations, overBudget, incomplete>>

Visit ==
    /\ pc = "walk" /\ frontier # <<>> /\ Head(frontier).level < limit
    /\ Step /\ pc' = "node"
    /\ UNCHANGED <<asked, graph, expanded, reported, relations, overBudget,
                   beyondDepth, incomplete>>

(* The order of a node's relationships is fixed by their identities, which *)
(* the model does not have: any of them is next.                           *)
Origin   == at.node
Queued(x) == Append(frontier, x)
WalkedThrough(p) == p[1] \in reported \/ p[2] \in expanded
Skips(p) == p[1] \in reported

Report ==
    /\ pc = "node" /\ Len(relations) < budget
    /\ \E p \in Neighbours(at.node) :
          LET deeper == [node |-> p[2], seed |-> at.seed, level |-> at.level + 1] IN
          /\ ~Skips(p)
          /\ reported' = reported \cup {p[1]}
          /\ relations' = Append(relations, [via |-> p[1], origin |-> Origin, seed |-> at.seed,
                                             node |-> p[2], depth |-> at.level + 1])
          /\ incomplete' = (incomplete \/ p[2] \in hollow)
          /\ IF p[2] \in expanded THEN UNCHANGED <<expanded, frontier>>
             ELSE expanded' = expanded \cup {p[2]} /\ frontier' = Queued(deeper)
    /\ UNCHANGED <<asked, graph, pc, at, overBudget, beyondDepth>>

OverBudget ==
    /\ pc = "node" /\ Pending(at.node) # {} /\ Len(relations) >= budget
    /\ overBudget' = TRUE /\ pc' = "done"
    /\ UNCHANGED <<asked, graph, frontier, at, expanded, reported, relations,
                   beyondDepth, incomplete>>

Leave ==
    /\ pc = "node" /\ pc' = "walk"
    /\ \A p \in Neighbours(at.node) : Skips(p)
    /\ UNCHANGED <<asked, graph, frontier, at, expanded, reported, relations,
                   overBudget, beyondDepth, incomplete>>

Finish ==
    /\ pc = "walk" /\ frontier = <<>> /\ pc' = "done"
    /\ UNCHANGED <<asked, graph, frontier, at, expanded, reported, relations,
                   overBudget, beyondDepth, incomplete>>

Next == Load \/ Boundary \/ Visit \/ Report \/ OverBudget \/ Leave \/ Finish
Spec == Init /\ [][Next]_vars

(* The answer of related_tests is only the tests the walk reached.         *)
Answer == IF question = "related_tests"
          THEN SelectSeq(relations, LAMBDA x : x.node \in Tests) ELSE relations
Truncated == overBudget \/ overflow \/ beyondDepth
Ambiguous == Cardinality(seeds) > 1 \/ overflow
Unresolved == seeds = {} \/ Ambiguous \/ \E i \in DOMAIN Answer : Answer[i].via.ambiguous
(* build_packet, for a complete generation whose documents all fit         *)
Complete == ~(Truncated \/ Unresolved \/ incomplete)

(***************************************************************************)
(* Reference: everything the question is about                             *)
(***************************************************************************)
Around(from) == from \cup {p[2] : p \in UNION {Neighbours(n) : n \in from}}
Within[k \in Nat] == IF k = 0 THEN seeds ELSE Around(Within[k - 1])
Reachable == Within[Cardinality(Nodes)]
Behind(from) == {p[1] : p \in UNION {Neighbours(n) : n \in from}}
Distance(n) == CHOOSE k \in 0..Cardinality(Nodes) :
                   n \in Within[k] /\ \A j \in 0..(k - 1) : n \notin Within[j]

TypeOK ==
    /\ pc \in {"load", "walk", "node", "done"}
    /\ edges \subseteq doc /\ hollow \subseteq Nodes /\ seeds \subseteq Nodes
    /\ Cardinality(seeds) <= MaxSeeds
    /\ expanded \subseteq Nodes /\ reported \subseteq edges
    /\ Len(relations) <= budget /\ Len(frontier) <= Cardinality(Nodes)
    /\ at.level <= MaxDepth

(* An answer that does not call itself truncated carries every             *)
(* relationship of the question that can be reached from the target at     *)
(* all, also those between nodes already walked (run_query).               *)
UncutIsWhole ==
    pc = "done" /\ ~Truncated => seeds = Matches /\ reported = Behind(Reachable)

(* And one that does, left something out: a relationship of the question,  *)
(* or a definition it never started from.                                  *)
TruncatedIsTrue ==
    pc = "done" /\ Truncated => overflow \/ reported # Behind(Reachable)

(* A budget cut removes the furthest relationships: nothing left out was   *)
(* nearer to the target than what the answer carries                       *)
(* (docs/context-graph-queries.md, run_query).                             *)
CutsFurthest ==
    \A i \in DOMAIN relations : relations[i].depth > 1 =>
        Behind(Within[relations[i].depth - 2]) \subseteq reported

(* A packet calls itself complete only if the document itself states every *)
(* relationship of each node its answer touches (_edge, build_packet).     *)
CompleteIsStated ==
    pc = "done" /\ Complete =>
        \A i \in DOMAIN Answer : \A e \in doc :
            Ends(e) \cap {Answer[i].origin, Answer[i].node} # {}
                => Ends(e) \subseteq Nodes \cup Excluded

(* A relation of the answer names the relationship between its own two     *)
(* ends, at the distance of the walk: never one between a far node and     *)
(* the seed (Relation).                                                    *)
RelationsAreStated ==
    \A i \in DOMAIN relations : LET x == relations[i] IN
        /\ <<x.via, x.node>> \in Neighbours(x.origin)
        /\ Distance(x.origin) = x.depth - 1
==============================================================================
