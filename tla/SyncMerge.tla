----------------------------- MODULE SyncMerge -----------------------------
(***************************************************************************)
(* The three-way merge of ContentLens synchronization envelopes, with the  *)
(* operations around it: the deletion markers a local projection receives, *)
(* the resolution of conflicts by the user, and the check a merged         *)
(* envelope must pass before a device can store it.                        *)
(*                                                                         *)
(* An envelope is its lineage (sync profile and generation) and one state  *)
(* per stable entity id: absent, a value, or a tombstone.  The seven       *)
(* collections of the code are one id space here, since a collection name  *)
(* is part of every id.  The digest is left out: it is injective over the  *)
(* envelope, so equal digests are equal envelopes.                         *)
(***************************************************************************)
CONSTANTS
  Ids,          \* stable entity ids, across the seven collections
  Bodies,       \* entity contents; a body stands for its fingerprint too
  Profiles,     \* sync profile ids
  Generations,  \* envelope generations
  Stamps,       \* deletion timestamps
  References    \* <<referring id, referred id>>: bindings and models name providers

ASSUME ReferencesAssumption == References \subseteq Ids \X Ids

-----------------------------------------------------------------------------
(* Entity states and envelopes *)

Absent == [kind |-> "absent"]
Value(body) == [kind |-> "value", body |-> body]
Tombstone(generation, body, at) ==
  [kind |-> "tombstone", deletedInGeneration |-> generation,
   baseFingerprint |-> body, deletedAt |-> at]

States ==
  {Absent} \cup [kind : {"value"}, body : Bodies]
           \cup [kind : {"tombstone"}, deletedInGeneration : Generations,
                 baseFingerprint : Bodies, deletedAt : Stamps]

Envelopes ==
  [syncProfileId : Profiles, generation : Generations, entity : [Ids -> States]]

IsValue(state) == state.kind = "value"
IsTombstone(state) == state.kind = "tombstone"

\* Two tombstones are the same deletion whatever their timestamps.
EqualState(left, right) ==
  IF IsTombstone(left) /\ IsTombstone(right)
  THEN /\ left.deletedInGeneration = right.deletedInGeneration
       /\ left.baseFingerprint = right.baseFingerprint
  ELSE left = right

SameLineage(left, right) ==
  /\ left.syncProfileId = right.syncProfileId
  /\ left.generation = right.generation

-----------------------------------------------------------------------------
(* mergeSyncEnvelopes *)

ConflictingState(base, local, remote) ==
  /\ ~EqualState(local, remote)
  /\ ~EqualState(base, local)
  /\ ~EqualState(base, remote)

\* Mutated form: the local side always wins.
MergedStateLocalWins(base, local, remote) ==
  local

MergedState(base, local, remote) ==
  IF ~EqualState(local, remote) /\ EqualState(base, local) THEN remote ELSE local

ConflictIds(base, local, remote) ==
  {id \in Ids :
     ConflictingState(base.entity[id], local.entity[id], remote.entity[id])}

Comparable(base, local, remote) ==
  SameLineage(base, local) /\ SameLineage(base, remote)

Mergeable(base, local, remote) ==
  Comparable(base, local, remote) /\ ConflictIds(base, local, remote) = {}

\* The candidate of a merge without conflicts.
Merge(base, local, remote) ==
  [local EXCEPT !.entity =
     [id \in Ids |->
        MergedState(base.entity[id], local.entity[id], remote.entity[id])]]

-----------------------------------------------------------------------------
(* resolveSyncConflicts: a choice for every conflicting id, and for no other *)

Choices == [choice : {"local", "remote"}] \cup [choice : {"custom"}, body : Bodies]

ChosenState(choice, local, remote) ==
  CASE choice.choice = "local"  -> local
    [] choice.choice = "remote" -> remote
    [] choice.choice = "custom" -> Value(choice.body)

Resolvable(base, local, remote, resolutions) ==
  /\ Comparable(base, local, remote)
  /\ DOMAIN resolutions = ConflictIds(base, local, remote)

Resolve(base, local, remote, resolutions) ==
  [local EXCEPT !.entity =
     [id \in Ids |->
        IF id \in DOMAIN resolutions
        THEN ChosenState(resolutions[id], local.entity[id], remote.entity[id])
        ELSE MergedState(base.entity[id], local.entity[id], remote.entity[id])]]

-----------------------------------------------------------------------------
(* reconcileLocalProjection: what disappeared locally becomes a tombstone *)

\* Mutated form: an id that was deleted may come back.
ReconcilableAnyId(previous, projection) == SameLineage(previous, projection)

\* The projection is refused: another lineage, or an id that was deleted.
Reconcilable(previous, projection) ==
  /\ SameLineage(previous, projection)
  /\ \A id \in Ids :
       IsValue(projection.entity[id]) => ~IsTombstone(previous.entity[id])

ReconciledState(previous, projected, generation, at) ==
  IF IsValue(projected) THEN projected
  ELSE IF IsValue(previous) THEN Tombstone(generation, previous.body, at)
  ELSE previous

Reconcile(previous, projection, at) ==
  [projection EXCEPT !.entity =
     [id \in Ids |->
        ReconciledState(previous.entity[id], projection.entity[id],
                        projection.generation, at)]]

-----------------------------------------------------------------------------
(* materializeImportedSyncEnvelope refuses a dangling reference *)

Materializable(envelope) ==
  \A pair \in References :
    IsValue(envelope.entity[pair[1]]) => IsValue(envelope.entity[pair[2]])

\* The values of an envelope: what is left of it in the local profile.
Projection(envelope) ==
  [envelope EXCEPT !.entity =
     [id \in Ids |-> IF IsValue(envelope.entity[id])
                     THEN envelope.entity[id] ELSE Absent]]
=============================================================================
