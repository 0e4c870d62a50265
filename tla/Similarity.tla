----------------------------- MODULE Similarity ------------------------------
(* What is derived from the content observed: which items are duplicates or      *)
(* near each other, kept in memory and stored after every observation, next to   *)
(* a graph of the content that shares its budget.  An observation waits for      *)
(* fingerprints, for an embedding and for evidence, while others run and while   *)
(* the user suppresses a relation or turns the whole thing off.                  *)
EXTENDS Nothing, Naturals, FiniteSets, Relation

CONSTANTS
  SimilarItems, \* the content items, all of one platform, surface and language
  Exact,       \* the pairs that are exact duplicates
  Near,        \* the pairs whose embeddings are near enough to be related
  Stable,      \* the items with a stable identity
  Jobs,        \* the observations under way at once
  MaxVectors,  \* the vectors the index holds
  MaxBytes,    \* the budget of the vectors and the graph, a vector being one
  MaxObserved, \* bounds the observations
  MaxSwitches  \* bounds the times it is turned off, reset or restarted

VARIABLES
  memory,      \* the service: what it observed, related and suppressed, and its index
  job,         \* the observation each job is at
  stored,      \* the derived state in the database
  graphBytes,  \* the bytes of the graph in the database
  clearing,    \* the database is about to be cleared after it was turned off
  observes, switches

similarityVars == <<memory, job, stored, graphBytes, clearing, observes, switches>>

Pairs == {{i, j} : i \in SimilarItems, j \in SimilarItems} \ {{i} : i \in SimilarItems}

\* Duplicates and neighbours are pairs of the items, of which there are finitely many.
SimilarityAssumption ==
  Exact \subseteq Pairs /\ Near \subseteq Pairs /\ IsFiniteSet(SimilarItems) /\ MaxBytes \in Nat

IndexStates == {"ready", "degraded", "disabled"}
Phases == {"idle", "comparing", "embedding", "classifying", "relating", "deriving", "storing"}

\* What is in memory: the vectors are those of the index.
Memory == [enabled : BOOLEAN, observed : SUBSET SimilarItems, relations : SUBSET Pairs,
           suppressed : SUBSET Pairs, index : IndexStates, vectors : SUBSET SimilarItems]

FreshMemory(observed) ==
  [enabled |-> TRUE, observed |-> observed, relations |-> {}, suppressed |-> {},
   index |-> "ready", vectors |-> {}]

NoJob == [phase |-> "idle", item |-> None, todo |-> {}, aborted |-> FALSE, draft |-> None]

-----------------------------------------------------------------------------
(* The service (application/similarity/service.ts, ai/similarity).            *)

\* The items observed that an item is an exact duplicate of.
ExactMatches(i, observed) == {p \in Exact : i \in p /\ p \ {i} \subseteq observed}

\* The index answers with the vectors near the new one; those of items that were not
\* observed are passed over.
Queried(i, m) ==
  IF m.index # "ready" THEN {}
  ELSE {p \in Near : i \in p /\ p \ {i} \subseteq m.vectors \cap m.observed}

ActiveRelations(m) == {p \in m.relations : p \notin m.suppressed}

\* The items connected by active relations, where one is stable.
Clusters(m) ==
  LET active == ActiveRelations(m)
      items == UNION active
      linked == TransitiveClosure([ij \in items \X items |-> {ij[1], ij[2]} \in active], items)
      component(i) == {i} \cup {j \in items : linked[<<i, j>>]}
  IN {c \in {component(i) \cap m.observed : i \in items} :
        Cardinality(c) > 1 /\ c \cap Stable # {}}

\* What is derived, as it is stored; an index that is not ready gives no vectors.
DerivedState(m) ==
  [relations |-> ActiveRelations(m), suppressed |-> m.suppressed, clusters |-> Clusters(m),
   vectors |-> IF m.index = "ready" THEN m.vectors ELSE {}]

SlipInsert(m, i) == {[m EXCEPT !.vectors = @ \cup {i}]}

\* An index that is disabled takes nothing; one that is full drops what was not used
\* for longest (any vector, here).
Insert(m, i) ==
  IF m.index = "disabled" THEN {m}
  ELSE LET next == m.vectors \cup {i}
       IN IF Cardinality(next) <= MaxVectors THEN {[m EXCEPT !.vectors = next]}
          ELSE {[m EXCEPT !.vectors = next \ {j}] : j \in next}

\* The service as it is when it is turned off: the observations stay.
TurnedOff(m) == [FreshMemory(m.observed) EXCEPT !.enabled = FALSE, !.index = "disabled"]

\* And as it is restored: whatever it was, it is turned on.
RestoreDerived(observed, s) ==
  [FreshMemory(observed) EXCEPT !.relations = s.relations, !.suppressed = s.suppressed, !.vectors = s.vectors]

-----------------------------------------------------------------------------
(* An observation.                                                            *)

Proceed(j, next) ==
  /\ job' = [job EXCEPT ![j] = next]
  /\ UNCHANGED <<stored, graphBytes, clearing, observes, switches>>

\* Nothing is compared while it is turned off, but the result is stored all the same.
ObserveItem(j, i) ==
  /\ job[j].phase = "idle" /\ observes < MaxObserved /\ observes' = observes + 1
  /\ job' = [job EXCEPT ![j] = [NoJob EXCEPT !.item = i,
       !.phase = IF memory.enabled THEN "comparing" ELSE "deriving",
       !.todo = IF memory.enabled THEN ExactMatches(i, memory.observed) ELSE {}]]
  /\ UNCHANGED <<memory, stored, graphBytes, clearing, switches>>

\* The fingerprints were compared: an exact duplicate needs no embedding.
Compared(j) ==
  /\ job[j].phase = "comparing"
  /\ memory' = [memory EXCEPT !.observed = @ \cup {job[j].item}]
  /\ Proceed(j, [job[j] EXCEPT !.phase = IF job[j].todo = {} THEN "embedding" ELSE "relating"])

\* The embedding fails, or was cancelled.
EmbeddingFails(j) ==
  /\ job[j].phase = "embedding" /\ Proceed(j, [job[j] EXCEPT !.phase = "deriving"])
  /\ UNCHANGED memory

\* It is there, and the index is asked what is near it.
Embedded(j) ==
  /\ job[j].phase = "embedding" /\ ~job[j].aborted
  /\ Proceed(j, [job[j] EXCEPT !.phase = "classifying", !.todo = Queried(job[j].item, memory)])
  /\ UNCHANGED memory

\* After the evidence and the fingerprint were waited for, the vector is inserted.
Classified(j) ==
  /\ job[j].phase = "classifying"
  /\ memory' \in Insert(memory, job[j].item)
  /\ Proceed(j, [job[j] EXCEPT !.phase = "relating"])

\* The relations are stored one after the other, those that are suppressed left out;
\* nothing asks whether it was turned off meanwhile.
StoreActiveRelation(j) ==
  /\ job[j].phase = "relating" /\ job[j].todo # {}
  /\ \E p \in job[j].todo :
       /\ memory' = [memory EXCEPT !.relations = IF p \in memory.suppressed THEN @ ELSE @ \cup {p}]
       /\ Proceed(j, [job[j] EXCEPT !.todo = @ \ {p}])

Related(j) ==
  /\ job[j].phase = "relating" /\ job[j].todo = {}
  /\ Proceed(j, [job[j] EXCEPT !.phase = "deriving"]) /\ UNCHANGED memory

\* What is derived is taken from the memory, and stored after the clusters were
\* fingerprinted.
Derive(j) ==
  /\ job[j].phase = "deriving"
  /\ Proceed(j, [job[j] EXCEPT !.phase = "storing", !.draft = DerivedState(memory)])
  /\ UNCHANGED memory

\* The vectors and the graph share a budget that each of the two writes checks.
Fits(vectors, bytes) == vectors + bytes <= MaxBytes

\* The transaction replaces all that was derived, or leaves it.
ReplaceSimilarityDerivedState(j) ==
  /\ job[j].phase = "storing"
  /\ stored' = IF Fits(Cardinality(job[j].draft.vectors), graphBytes) THEN job[j].draft ELSE stored
  /\ job' = [job EXCEPT ![j] = NoJob]
  /\ UNCHANGED <<memory, graphBytes, clearing, observes, switches>>

-----------------------------------------------------------------------------
(* Around the observations.                                                   *)

ReplaceGraphDerivedState(bytes) ==
  /\ bytes # graphBytes
  /\ graphBytes' = IF Fits(IF stored = None THEN 0 ELSE Cardinality(stored.vectors), bytes)
              THEN bytes ELSE graphBytes
  /\ UNCHANGED <<memory, job, stored, clearing, observes, switches>>

\* The user says that two items are not related; it is stored with the next
\* observation.
Suppress(p) ==
  /\ p \in memory.relations \ memory.suppressed
  /\ memory' = [memory EXCEPT !.suppressed = @ \cup {p}]
  /\ UNCHANGED <<job, stored, graphBytes, clearing, observes, switches>>

\* The observations under way are aborted, and what they derived goes; then the
\* database is cleared.
Disable ==
  /\ switches < MaxSwitches /\ switches' = switches + 1
  /\ memory' = TurnedOff(memory) /\ clearing' = TRUE
  /\ job' = [j \in Jobs |->
       IF job[j].phase \in {"comparing", "embedding", "classifying", "relating"}
       THEN [job[j] EXCEPT !.aborted = TRUE] ELSE job[j]]
  /\ UNCHANGED <<stored, graphBytes, observes>>

ClearDerivedIntelligence ==
  /\ clearing /\ clearing' = FALSE /\ stored' = None /\ graphBytes' = 0
  /\ UNCHANGED <<memory, job, observes, switches>>

Reset ==
  /\ switches < MaxSwitches /\ switches' = switches + 1
  /\ memory' = FreshMemory(memory.observed)
  /\ UNCHANGED <<job, stored, graphBytes, clearing, observes>>

\* The worker is stopped, and starts from the recent content and what was stored.
Restart(content) ==
  /\ switches < MaxSwitches /\ switches' = switches + 1
  /\ job' = [j \in Jobs |-> NoJob] /\ clearing' = FALSE
  /\ IF stored = None
     THEN memory' = FreshMemory(content) /\ stored' = DerivedState(FreshMemory(content))
     ELSE memory' = RestoreDerived(content, stored) /\ UNCHANGED stored
  /\ UNCHANGED <<graphBytes, observes>>

SimilarityInit ==
  /\ memory = FreshMemory({}) /\ job = [j \in Jobs |-> NoJob]
  /\ stored = None /\ graphBytes = 0 /\ clearing = FALSE /\ observes = 0 /\ switches = 0

SimilarityStep(j) ==
  \/ \E i \in SimilarItems : ObserveItem(j, i)
  \/ Compared(j) \/ EmbeddingFails(j) \/ Embedded(j) \/ Classified(j)
  \/ StoreActiveRelation(j) \/ Related(j) \/ Derive(j) \/ ReplaceSimilarityDerivedState(j)

SimilarityNext ==
  \/ \E j \in Jobs : SimilarityStep(j)
  \/ \E bytes \in 0 .. MaxBytes : ReplaceGraphDerivedState(bytes)
  \/ \E p \in Pairs : Suppress(p)
  \/ Disable \/ ClearDerivedIntelligence \/ Reset
  \/ \E content \in SUBSET SimilarItems : Restart(content)

SimilaritySpec == SimilarityInit /\ [][SimilarityNext]_similarityVars

-----------------------------------------------------------------------------
\* Memory, jobs and what is stored are well formed.
SimilarityTypeOK ==
  /\ memory \in Memory /\ graphBytes \in 0 .. MaxBytes
  /\ \A j \in Jobs : job[j].phase \in Phases /\ job[j].item \in SimilarItems \cup {None}
  /\ stored # None => stored.vectors \subseteq SimilarItems /\ stored.relations \subseteq Pairs

\* While it is turned off no vector is kept, although an observation that was under
\* way may end after it: the index it inserts into is disabled (index.ts:53).
NoVectorWhileDisabled == ~memory.enabled => memory.vectors = {}

\* What the vectors and the graph take in the database never exceeds the budget they
\* share, in whatever order the two are replaced (database.ts:2455, database.ts:2578).
CombinedBudget == graphBytes + (IF stored = None THEN 0 ELSE Cardinality(stored.vectors)) <= MaxBytes

=============================================================================
