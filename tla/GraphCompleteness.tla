-------------------------- MODULE GraphCompleteness --------------------------
(***************************************************************************)
(* Whether a provider run over a materialized copy was complete:           *)
(* _provider_inputs, _materialized_digests and _read_completeness of       *)
(* context_graph_lifecycle.py.                                             *)
(*                                                                         *)
(* The copy and what the provider made of each file are chosen in Init;    *)
(* the manifest it leaves follows from them, or is somebody else's.  A     *)
(* path is a spelling; two spellings may have one Unicode normal form.     *)
(***************************************************************************)
EXTENDS Naturals, FiniteSets

CONSTANTS
    Paths,     \* spellings, tracked or written by the provider
    Folds,     \* pairs of spellings with one normal form
    Copies,    \* what the build may have handed over: functions on paths
    Manifests  \* what the provider may leave: functions on paths

(* "doubtful" is code whose extractor the bytes should have decided.       *)
Classes == {"code", "nothing", "unsupported", "doubtful", "unclassified"}
Bytes   == {"x", "y"}
Files   == [class: Classes, bytes: Bytes \cup {"unreadable"}]
Rows    == Bytes \cup {"blank", "malformed"}

CompletenessAssumption ==
    /\ Folds \subseteq Paths \X Paths
    /\ \A c \in Copies : DOMAIN c \subseteq Paths /\ \A p \in DOMAIN c :
          c[p] \in Files
    /\ \A m \in Manifests : DOMAIN m \subseteq Paths /\ \A p \in DOMAIN m : m[p] \in Rows

VARIABLES
    census,    \* class of each tracked file, and the bytes of its copy
    manifest,  \* row of each key: the bytes it is the digest of
    result     \* Idle, or the verdict
vars == <<census, manifest, result>>

Idle == [done |-> FALSE]

Init == census \in Copies /\ manifest \in Manifests /\ result = Idle

Same(p, q) == p = q \/ <<p, q>> \in Folds \/ <<q, p>> \in Folds

(* _provider_inputs: the classification the pin would make, from the copy  *)
(* before the launch.                                                      *)
Of(classes)  == {p \in DOMAIN census : census[p].class \in classes}
Dispatched   == Of({"code", "unsupported", "doubtful"})
Unsupported  == Of({"unsupported"})
Unclassified == Of({"doubtful", "unclassified"})
Indexable    == Dispatched \ Unsupported

(* _materialized_digests                                                   *)
Digests == {p \in Dispatched : census[p].bytes \in Bytes}

(* _census_normalization_collisions                                        *)
Collides(p) == \E q \in DOMAIN census : q # p /\ Same(p, q)

(* _manifest_keys_for: the exact spelling first, then the folded ones      *)
WellFormed == {k \in DOMAIN manifest : manifest[k] # "malformed"}
KeysFor(p) == IF p \in WellFormed THEN {p} ELSE {k \in WellFormed : Same(p, k)}

RowMatches(p, k) == p \in Digests /\ manifest[k] = census[p].bytes

OneKey(p) == Cardinality(KeysFor(p)) = 1
Proved(p) ==
    /\ ~Collides(p) /\ OneKey(p)
    /\ \A k \in KeysFor(p) : RowMatches(p, k)

AllClassified == Unclassified = {}

ReadCompleteness ==
    /\ result = Idle
    /\ result' = [done |-> TRUE,
                  indexed |-> Cardinality({p \in Indexable : Proved(p)}),
                  unsupported |-> Cardinality({p \in Unsupported : Proved(p)}),
                  complete |-> /\ DOMAIN manifest = WellFormed
                               /\ \A p \in Dispatched : Proved(p)
                               /\ AllClassified /\ Dispatched # {}]
    /\ UNCHANGED <<census, manifest>>

Next == ReadCompleteness
Spec == Init /\ [][Next]_vars

TypeOK ==
    result = Idle \/ /\ result.indexed \in 0..Cardinality(DOMAIN census)
                     /\ result.indexed + result.unsupported <= Cardinality(DOMAIN census)

(***************************************************************************)
(* Reference: the provider's evidence about one input, from the outside.   *)
(* A row speaks for an input when nothing else in the copy could have      *)
(* written it and it is the digest of that input's bytes.                  *)
(***************************************************************************)
CouldWrite(k) == {q \in DOMAIN census : Same(q, k)}
Speaks(k, p)  == CouldWrite(k) = {p} /\ manifest[k] = census[p].bytes

(* A run called complete left, for every file the provider may call code,  *)
(* one row that only this file can have written, with the digest of its    *)
(* bytes (_read_completeness).                                             *)
CompleteIsEvidence ==
    result.done /\ result.complete =>
        /\ \A p \in DOMAIN census : census[p].class # "nothing" =>
              \E k \in DOMAIN manifest : Speaks(k, p)
        /\ \A p, q \in DOMAIN census : census[p].class # "nothing" /\ Same(p, q) => p = q

(* No row is counted for two inputs, so that the counts of the manifest    *)
(* never exceed the rows the provider stamped.                             *)
CountsAreRows ==
    result.done =>
        result.indexed + result.unsupported
            <= Cardinality({k \in DOMAIN manifest : manifest[k] \in Bytes})
==============================================================================
