--------------------------- MODULE SyncCas_proofs ---------------------------
(***************************************************************************)
(* Type correctness of SyncCas, the facts a confirmed base and a           *)
(* conditional write rest on, that no deletion is undone and that the      *)
(* journal is legal, for every set of devices, ids and bodies and every    *)
(* bound.                                                                  *)
(*                                                                         *)
(* Neither ConfirmedBase nor NoLostUpdate is inductive: both depend on     *)
(* what a run holds between its awaits.  IInv adds, per device, which of   *)
(* its volatile envelopes exist at each point (Shape), that a candidate in *)
(* flight was merged with the content its write names (Merged), and that a *)
(* candidate under confirmation has been published (Pushed).  JInv adds    *)
(* what the journal says at each point, DInv that a deletion carries over  *)
(* from each envelope to those derived from it, and RefInv that what is    *)
(* committed names nothing missing.                                        *)
(***************************************************************************)
EXTENDS SyncCas, TLAPS

-----------------------------------------------------------------------------
(* What the merge, the resolution and the local reconciliation keep, for every *)
(* envelope over every set of ids, bodies, generations and stamps.              *)

\* Being the same state is reflexive and symmetric.
LEMMA EqualStateReflexive == \A s : EqualState(s, s)
  BY DEF EqualState

LEMMA EqualStateSymmetric ==
  ASSUME NEW s, NEW t, EqualState(s, t) PROVE EqualState(t, s)
  BY DEF EqualState

\* A resolution's choice, a merge and a tombstone are entity states.
LEMMA MergedStateType ==
  ASSUME NEW old, NEW mine \in States, NEW theirs \in States
  PROVE  MergedState(old, mine, theirs) \in States
  BY DEF MergedState

LEMMA ChosenStateType ==
  ASSUME NEW choice \in Choices, NEW mine \in States, NEW theirs \in States
  PROVE  ChosenState(choice, mine, theirs) \in States
  <1>1. CASE choice \in [choice : {"local", "remote"}]
    BY <1>1 DEF ChosenState
  <1>2. CASE choice \in [choice : {"custom"}, body : Bodies]
    BY <1>2 DEF ChosenState, Value, States
  <1> QED BY <1>1, <1>2 DEF Choices

LEMMA ReconciledStateType ==
  ASSUME NEW previous \in States, NEW projected \in States,
         NEW generation \in Generations, NEW at \in Stamps
  PROVE  ReconciledState(previous, projected, generation, at) \in States
  <1>1. CASE IsValue(projected)
    BY <1>1 DEF ReconciledState
  <1>2. CASE ~IsValue(projected) /\ IsValue(previous)
    <2>1. previous.body \in Bodies
      BY <1>2 DEF IsValue, States, Absent
    <2> QED BY <1>2, <2>1 DEF ReconciledState, Tombstone, States
  <1>3. CASE ~IsValue(projected) /\ ~IsValue(previous)
    BY <1>3 DEF ReconciledState
  <1> QED BY <1>1, <1>2, <1>3

LEMMA MergeType ==
  ASSUME NEW old, NEW mine \in Envelopes, NEW theirs \in Envelopes
  PROVE  Merge(old, mine, theirs) \in Envelopes
  <1>1. \A id \in Ids : mine.entity[id] \in States /\ theirs.entity[id] \in States
    BY DEF Envelopes
  <1>2. [id \in Ids |-> MergedState(old.entity[id], mine.entity[id], theirs.entity[id])]
          \in [Ids -> States]
    BY <1>1, MergedStateType
  <1> QED BY <1>2 DEF Merge, Envelopes

LEMMA ResolveType ==
  ASSUME NEW old, NEW mine \in Envelopes, NEW theirs \in Envelopes,
         NEW C, NEW resolutions \in [C -> Choices]
  PROVE  Resolve(old, mine, theirs, resolutions) \in Envelopes
  <1>1. \A id \in Ids : mine.entity[id] \in States /\ theirs.entity[id] \in States
    BY DEF Envelopes
  <1>2. ASSUME NEW id \in Ids
        PROVE  (IF id \in DOMAIN resolutions
                THEN ChosenState(resolutions[id], mine.entity[id], theirs.entity[id])
                ELSE MergedState(old.entity[id], mine.entity[id], theirs.entity[id]))
                 \in States
    <2>1. CASE id \in DOMAIN resolutions
      <3>1. resolutions[id] \in Choices
        BY <2>1
      <3> QED BY <1>1, <2>1, <3>1, ChosenStateType
    <2>2. CASE id \notin DOMAIN resolutions
      BY <1>1, <2>2, MergedStateType
    <2> QED BY <2>1, <2>2
  <1> QED BY <1>2 DEF Resolve, Envelopes

LEMMA ReconcileType ==
  ASSUME NEW previous \in Envelopes, NEW projection \in Envelopes, NEW at \in Stamps
  PROVE  Reconcile(previous, projection, at) \in Envelopes
  <1>1. /\ \A id \in Ids : /\ previous.entity[id] \in States
                           /\ projection.entity[id] \in States
        /\ projection.generation \in Generations
    BY DEF Envelopes
  <1>2. [id \in Ids |-> ReconciledState(previous.entity[id], projection.entity[id],
                                        projection.generation, at)]
          \in [Ids -> States]
    BY <1>1, ReconciledStateType
  <1> QED BY <1>2 DEF Reconcile, Envelopes

\* Per entity: where there is no conflict, what the remote changed since the
\* base is in the merge, and so is what changed locally.
LEMMA MergedStateKeepsRemote ==
  ASSUME NEW old, NEW mine, NEW theirs,
         ~ConflictingState(old, mine, theirs)
  PROVE  EqualState(old, theirs) \/ EqualState(MergedState(old, mine, theirs), theirs)
  BY EqualStateReflexive DEF ConflictingState, MergedState

LEMMA MergedStateKeepsLocal ==
  ASSUME NEW old, NEW mine, NEW theirs,
         ~ConflictingState(old, mine, theirs)
  PROVE  EqualState(old, mine) \/ EqualState(MergedState(old, mine, theirs), mine)
  BY EqualStateReflexive DEF ConflictingState, MergedState

\* A merge without conflicts drops no change of either side: every entity that
\* one side changed since the base has that side's state in the candidate
\* (mergeSyncEnvelopes may neither lose an edit nor undo a deletion).
THEOREM MergeKeepsBothSides ==
  ASSUME NEW old \in Envelopes, NEW mine \in Envelopes, NEW theirs \in Envelopes,
         Mergeable(old, mine, theirs), NEW id \in Ids
  PROVE  LET merged == Merge(old, mine, theirs).entity[id]
         IN /\ EqualState(old.entity[id], theirs.entity[id])
                 \/ EqualState(merged, theirs.entity[id])
            /\ EqualState(old.entity[id], mine.entity[id])
                 \/ EqualState(merged, mine.entity[id])
  <1>1. ~ConflictingState(old.entity[id], mine.entity[id], theirs.entity[id])
    BY DEF Mergeable, ConflictIds
  <1>2. Merge(old, mine, theirs).entity[id]
          = MergedState(old.entity[id], mine.entity[id], theirs.entity[id])
    BY DEF Merge, Envelopes
  <1> QED BY <1>1, <1>2, MergedStateKeepsRemote, MergedStateKeepsLocal

\* The two devices of a conflict see the same conflict: which ids conflict does
\* not depend on which side is called local.
THEOREM ConflictsAreSymmetric ==
  ASSUME NEW old, NEW mine, NEW theirs
  PROVE  ConflictIds(old, mine, theirs) = ConflictIds(old, theirs, mine)
  BY EqualStateSymmetric DEF ConflictIds, ConflictingState

\* And without conflicts both devices compute the same states, up to the
\* timestamps of tombstones.
THEOREM MergesAgree ==
  ASSUME NEW old \in Envelopes, NEW mine \in Envelopes, NEW theirs \in Envelopes,
         Mergeable(old, mine, theirs), NEW id \in Ids
  PROVE  EqualState(Merge(old, mine, theirs).entity[id],
                    Merge(old, theirs, mine).entity[id])
  <1> DEFINE B == old.entity[id]
             L == mine.entity[id]
             R == theirs.entity[id]
  <1>1. ~ConflictingState(B, L, R)
    BY DEF Mergeable, ConflictIds
  <1>2. /\ Merge(old, mine, theirs).entity[id] = MergedState(B, L, R)
        /\ Merge(old, theirs, mine).entity[id] = MergedState(B, R, L)
    BY DEF Merge, Envelopes
  <1>3. EqualState(MergedState(B, L, R), MergedState(B, R, L))
    <2>1. CASE EqualState(L, R)
      BY <2>1, EqualStateSymmetric DEF MergedState
    <2>2. CASE ~EqualState(L, R) /\ EqualState(B, L)
      <3>1. ~EqualState(R, L)
        BY <2>2, EqualStateSymmetric
      <3>2. MergedState(B, L, R) = R
        BY <2>2 DEF MergedState
      <3>3. MergedState(B, R, L) = R \/ EqualState(B, R)
        BY DEF MergedState
      <3>4. ~EqualState(B, R)
        BY <2>2 DEF EqualState, IsTombstone
      <3> QED BY <3>2, <3>3, <3>4, EqualStateReflexive
    <2>3. CASE ~EqualState(L, R) /\ ~EqualState(B, L)
      <3>1. EqualState(B, R)
        BY <1>1, <2>3 DEF ConflictingState
      <3>2. ~EqualState(R, L)
        BY <2>3, EqualStateSymmetric
      <3>3. MergedState(B, L, R) = L /\ MergedState(B, R, L) = L
        BY <2>3, <3>1, <3>2 DEF MergedState
      <3> QED BY <3>3, EqualStateReflexive
    <2> QED BY <2>1, <2>2, <2>3
  <1> QED BY <1>2, <1>3

\* A deletion a device knows of survives its local reads: reconciling any
\* projection the code accepts leaves every tombstone in place.
THEOREM ReconcileKeepsTombstones ==
  ASSUME NEW previous \in Envelopes, NEW projection \in Envelopes, NEW at,
         Reconcilable(previous, projection),
         NEW id \in Ids, IsTombstone(previous.entity[id])
  PROVE  Reconcile(previous, projection, at).entity[id] = previous.entity[id]
  <1>1. ~IsValue(projection.entity[id])
    BY DEF Reconcilable
  <1>2. ~IsValue(previous.entity[id])
    BY DEF IsTombstone, IsValue
  <1>3. Reconcile(previous, projection, at).entity[id]
          = ReconciledState(previous.entity[id], projection.entity[id],
                            projection.generation, at)
    BY DEF Reconcile, Envelopes
  <1> QED BY <1>1, <1>2, <1>3 DEF ReconciledState

-----------------------------------------------------------------------------
(* What a synchronization run keeps.                                             *)

Pushing == {"markPush", "push", "confirm", "confirmBase", "complete", "clearDraft"}
Reading == {"readLocal", "readRemote"}

\* What a run holds at each point.
Shape(r) ==
  /\ r.pc \in PCs \ {"idle", "down"} => r.base \in Envelopes
  /\ r.pc \in PCs \ ({"idle", "down", "adopt"} \cup Reading) => r.remote \in Envelopes
  /\ r.pc \in {"adopt", "clearDraft"} => r.kind = "resolve"
  /\ r.pc \in Reading \cup {"conflict"} => r.kind = "sync"
  /\ (r.kind = "sync" /\ r.pc \in PCs \ {"idle", "down"}) =>
       r.at \in Stamps /\ r.chosen = {}
  /\ (r.kind = "sync" /\ r.pc \in {"readRemote", "validate", "merge", "conflict"}) =>
       r.local \in Envelopes
  /\ (r.kind = "resolve" /\ r.pc \in PCs \ {"idle", "down"}) =>
       r.remote \in Envelopes /\ r.candidate \in Envelopes
  /\ r.pc \in Pushing => r.candidate \in Envelopes

\* A candidate keeps what the content it was merged with changed.
Merged(d) ==
  (run[d].pc \in Pushing
     \/ (run[d].kind = "resolve" /\ run[d].pc \in PCs \ {"idle", "down"}))
    => KeepsChanges(Request(d))

\* A candidate under confirmation is a content the remote has held.
Pushed(d) ==
  /\ run[d].pc \in {"confirm", "confirmBase", "complete"} =>
       run[d].candidate \in published
  /\ (run[d].pc = "complete" /\ d \notin moved) => base[d] = active[d]

\* What ConfirmedBase says of one device.
Based(d) ==
  /\ base[d] \in published \cup (IF d \in moved THEN Files ELSE {})
  /\ (journal[d].phase = "completed" /\ d \notin moved) => base[d] = active[d]

\* The base an undo would bring back is a content the remote has held, or a file.
Saved(d) == imported[d] # None => imported[d].base \in published \cup Files

IInv ==
  /\ TypeOK
  /\ \A d \in Devices : Shape(run[d]) /\ Merged(d) /\ Pushed(d) /\ Saved(d)
  /\ \A request \in wire : KeepsChanges(request)
  /\ remote \in published
  /\ ConfirmedBase

-----------------------------------------------------------------------------
(* Lemmas *)

\* The profile as an envelope has the type of an envelope.
LEMMA LocalProjectionType ==
  ASSUME TypeOK, NEW d \in Devices
  PROVE  LocalProjection(d) \in Envelopes
  <1>1. active[d] \in Envelopes /\ profile[d] \in [Ids -> Bodied]
    BY DEF TypeOK, aside
  <1>2. Bodied \subseteq States
    BY DEF Bodied, States, Value, Absent
  <1>3. profile[d] \in [Ids -> States]
    BY <1>1, <1>2
  <1> QED BY <1>1, <1>3 DEF LocalProjection, Envelopes

\* The values of an envelope are a profile.
LEMMA ProjectionType ==
  ASSUME NEW e \in Envelopes
  PROVE  Projection(e).entity \in [Ids -> Bodied]
  <1>1. Projection(e).entity
          = [id \in Ids |-> IF IsValue(e.entity[id]) THEN e.entity[id] ELSE Absent]
    BY DEF Projection, Envelopes
  <1>2. ASSUME NEW id \in Ids, IsValue(e.entity[id])
        PROVE  e.entity[id] \in Bodied
    <2>1. e.entity[id] \in States
      BY DEF Envelopes
    <2>2. e.entity[id] \in [kind : {"value"}, body : Bodies]
      BY <1>2, <2>1 DEF IsValue, States, Absent
    <2> QED BY <2>2 DEF Bodied, Value
  <1>3. Absent \in Bodied
    BY DEF Bodied
  <1> QED BY <1>1, <1>2, <1>3

\* A clean merge keeps every change of the remote.
LEMMA MergeKeeps ==
  ASSUME NEW b \in Envelopes, NEW l \in Envelopes, NEW r \in Envelopes,
         Mergeable(b, l, r), NEW who, NEW c
  PROVE  KeepsChanges([expected |-> r, envelope |-> Merge(b, l, r),
                       by |-> who, base |-> b, chosen |-> c])
  <1>1. \A id \in Ids : EqualState(b.entity[id], r.entity[id])
                          \/ EqualState(Merge(b, l, r).entity[id], r.entity[id])
    BY MergeKeepsBothSides
  <1> QED BY <1>1 DEF KeepsChanges

\* A resolution keeps every change of the remote the user was not asked about.
LEMMA ResolveKeeps ==
  ASSUME NEW b \in Envelopes, NEW l \in Envelopes, NEW r \in Envelopes,
         NEW resolutions \in [ConflictIds(b, l, r) -> Choices], NEW who
  PROVE  KeepsChanges([expected |-> r, envelope |-> Resolve(b, l, r, resolutions),
                       by |-> who, base |-> b, chosen |-> DOMAIN resolutions])
  <1> SUFFICES ASSUME NEW id \in Ids, id \notin DOMAIN resolutions
               PROVE  EqualState(b.entity[id], r.entity[id])
                        \/ EqualState(Resolve(b, l, r, resolutions).entity[id],
                                      r.entity[id])
    BY DEF KeepsChanges
  <1>1. ~ConflictingState(b.entity[id], l.entity[id], r.entity[id])
    BY DEF ConflictIds
  <1>2. Resolve(b, l, r, resolutions).entity[id]
          = MergedState(b.entity[id], l.entity[id], r.entity[id])
    BY DEF Resolve, Envelopes
  <1> QED BY <1>1, <1>2, MergedStateKeepsRemote

\* The record of a stopped run is a run, and holds no envelope.
LEMMA StoppedType ==
  ASSUME NEW pc \in {"idle", "down"}
  PROVE  Stopped(pc) \in Runs /\ Shape(Stopped(pc))
  BY AttemptsAssumption DEF Stopped, Runs, PCs, Kinds, Optional, Shape, Pushing, Reading

-----------------------------------------------------------------------------
(* Steps: what the step of one device d leaves alone.  A device other than d *)
(* keeps its run, its base and its active envelope, and published only grows. *)

LEMMA Frame ==
  ASSUME IInv, NEW e \in Devices,
         run'[e] = run[e], base'[e] = base[e], active'[e] = active[e],
         e \in moved => e \in moved',
         published \subseteq published'
  PROVE  (Shape(run[e]) /\ Merged(e) /\ Pushed(e))'
  <1>1. Shape(run[e]) /\ Merged(e) /\ Pushed(e)
    BY DEF IInv
  <1>2. Shape(run'[e])
    BY <1>1
  <1>3. Merged(e)'
    BY <1>1 DEF Merged, Request
  <1>4. Pushed(e)'
    BY <1>1 DEF Pushed
  <1> QED BY <1>2, <1>3, <1>4

\* A step that ends the operation of d and leaves the rest of the state, but
\* for the journal, the budget and possibly a lost write.
LEMMA StopKeeps ==
  ASSUME IInv, NEW d \in Devices, NEW pc \in {"idle", "down"},
         run' = [run EXCEPT ![d] = Stopped(pc)],
         UNCHANGED <<published, active, base, moved>>
  PROVE  /\ run' \in [Devices -> Runs]
         /\ \A e \in Devices : (Shape(run[e]) /\ Merged(e) /\ Pushed(e))'
  <1>0. run \in [Devices -> Runs]
    BY DEF IInv, TypeOK, aside
  <1>1. run'[d] = Stopped(pc)
    BY <1>0
  <1>2. (Shape(run[d]) /\ Merged(d) /\ Pushed(d))'
    BY <1>1, StoppedType DEF Merged, Pushed, Stopped, Pushing, PCs
  <1>3. ASSUME NEW e \in Devices, e # d
        PROVE  (Shape(run[e]) /\ Merged(e) /\ Pushed(e))'
    <2>1. run'[e] = run[e]
      BY <1>0, <1>3
    <2> QED BY <2>1, <1>3, Frame
  <1> QED BY <1>0, <1>2, <1>3, StoppedType

\* What an undo would bring back stays what it was.
LEMMA SavedStays ==
  ASSUME IInv, UNCHANGED imported, published \subseteq published'
  PROVE  (\A e \in Devices : Saved(e))'
  BY DEF IInv, Saved

\* A step of d is fine if it leaves a good run behind and keeps the rest.
LEMMA StepKeeps ==
  ASSUME IInv, NEW d \in Devices, TypeOK',
         \A e \in Devices \ {d} :
           /\ run'[e] = run[e] /\ base'[e] = base[e] /\ active'[e] = active[e]
           /\ e \in moved => e \in moved',
         UNCHANGED imported,
         published \subseteq published', remote' = remote \/ remote' \in published',
         Shape(run'[d]), Merged(d)', Pushed(d)',
         \A request \in wire' : request \in wire \/ KeepsChanges(request),
         ConfirmedBase'
  PROVE  IInv'
  <1>1. ASSUME NEW e \in Devices
        PROVE  (Shape(run[e]) /\ Merged(e) /\ Pushed(e))'
    <2>1. CASE e = d
      BY <2>1
    <2>2. CASE e # d
      <3>1. /\ run'[e] = run[e] /\ base'[e] = base[e] /\ active'[e] = active[e]
            /\ e \in moved => e \in moved'
        BY <2>2
      <3> QED BY <2>2, <3>1, Frame
    <2> QED BY <2>1, <2>2
  <1>2. (\A request \in wire : KeepsChanges(request))'
    BY DEF IInv, KeepsChanges
  <1>3. (\A e \in Devices : Saved(e))'
    BY SavedStays
  <1>4. (remote \in published)'
    BY DEF IInv
  <1> QED BY <1>1, <1>2, <1>3, <1>4 DEF IInv

\* A step that only writes the journal, with a phase that does not complete.
LEMMA AdvanceKeeps ==
  ASSUME IInv, NEW d \in Devices, NEW phase \in Phases,
         (phase = "completed" /\ d \notin moved) => base[d] = active[d],
         Advance(d, phase),
         UNCHANGED <<active, base, moved>>, published \subseteq published'
  PROVE  /\ journal' \in [Devices -> [phase : Phases, attempt : 0 .. MaxAttempts]]
         /\ ConfirmedBase'
  <1>1. /\ journal \in [Devices -> [phase : Phases, attempt : 0 .. MaxAttempts]]
        /\ run[d].attempt \in 0 .. MaxAttempts
    BY DEF IInv, TypeOK, Runs, aside
  <1>2. journal' \in [Devices -> [phase : Phases, attempt : 0 .. MaxAttempts]]
    BY <1>1 DEF Advance
  <1>3. ASSUME NEW e \in Devices
        PROVE  Based(e)'
    <2>1. Based(e)
      BY DEF IInv, ConfirmedBase, Based
    <2>2. CASE e = d
      BY <1>1, <2>1, <2>2 DEF Advance, Based
    <2>3. CASE e # d
      BY <1>1, <2>1, <2>3 DEF Advance, Based
    <2> QED BY <2>2, <2>3
  <1> QED BY <1>2, <1>3 DEF ConfirmedBase, Based

-----------------------------------------------------------------------------
(* The steps of a run *)

LEMMA BeginKeeps ==
  ASSUME IInv, NEW d \in Devices, Begin(d), run[d].pc \in {"idle", "down"},
         UNCHANGED <<remote, published, wire, profile, active, base, draft, budget,
                     edited, kept, write, aside>>
  PROVE  IInv'
  <1>1. PICK at \in Stamps :
          run' = [run EXCEPT ![d] = Syncing(at, base[d])]
    BY DEF Begin
  <1> DEFINE r == Syncing(at, base[d])
  <1>2. /\ run \in [Devices -> Runs] /\ base[d] \in Envelopes
        /\ journal \in [Devices -> [phase : Phases, attempt : 0 .. MaxAttempts]]
    BY DEF IInv, TypeOK, aside
  <1>3. r \in Runs /\ Shape(r)
    BY <1>2, AttemptsAssumption
       DEF Syncing, Runs, PCs, Kinds, Optional, Shape, Pushing, Reading
  <1>4. run' \in [Devices -> Runs] /\ run'[d] = r
    BY <1>1, <1>2, <1>3
  <1>5. journal' \in [Devices -> [phase : Phases, attempt : 0 .. MaxAttempts]]
    BY <1>2, AttemptsAssumption DEF Begin, Phases
  <1>6. TypeOK'
    BY <1>4, <1>5 DEF IInv, TypeOK, aside
  <1>7. Merged(d)' /\ Pushed(d)'
    BY <1>4 DEF Merged, Pushed, Syncing, Pushing
  <1>8. ConfirmedBase'
    BY <1>2 DEF IInv, ConfirmedBase, Begin, aside
  <1>9. \A e \in Devices \ {d} : run'[e] = run[e]
    BY <1>1, <1>2
  <1> QED BY <1>3, <1>4, <1>6, <1>7, <1>8, <1>9, StepKeeps DEF aside

\* A step that ends the operation: the journal advances or stays.
LEMMA EndKeeps ==
  ASSUME IInv, NEW d \in Devices, NEW pc \in {"idle", "down"},
         run' = [run EXCEPT ![d] = Stopped(pc)],
         \/ UNCHANGED journal
         \/ \E phase \in Phases :
              /\ Advance(d, phase)
              /\ (phase = "completed" /\ d \notin moved) => base[d] = active[d],
         draft' \in [Devices -> Optional([base : Envelopes, local : Envelopes,
                                          remote : Envelopes])],
         budget' \in [{"edits", "faults", "resolves", "imports", "restores"} -> Nat],
         wire' \subseteq Requests,
         \A request \in wire' : request \in wire \/ KeepsChanges(request),
         UNCHANGED <<remote, published, profile, active, base, edited, kept, write, aside>>
  PROVE  IInv'
  <1>1. /\ run' \in [Devices -> Runs]
        /\ \A e \in Devices : (Shape(run[e]) /\ Merged(e) /\ Pushed(e))'
    BY StopKeeps DEF aside
  <1>2. /\ journal' \in [Devices -> [phase : Phases, attempt : 0 .. MaxAttempts]]
        /\ ConfirmedBase'
    <2>1. CASE UNCHANGED journal
      BY <2>1 DEF IInv, TypeOK, ConfirmedBase, aside
    <2>2. CASE \E phase \in Phases : /\ Advance(d, phase)
                                     /\ (phase = "completed" /\ d \notin moved) => base[d] = active[d]
      BY <2>2, AdvanceKeeps DEF aside
    <2> QED BY <2>1, <2>2
  <1>3. TypeOK'
    BY <1>1, <1>2 DEF IInv, TypeOK, aside
  <1>4. (\A request \in wire : KeepsChanges(request))'
    BY DEF IInv, KeepsChanges
  <1>5. (\A e \in Devices : Saved(e))'
    BY SavedStays DEF aside
  <1> QED BY <1>1, <1>2, <1>3, <1>4, <1>5 DEF IInv

\* A run that moves to another point and keeps what it holds.
LEMMA GoType ==
  ASSUME TypeOK, NEW d \in Devices, NEW pc \in PCs, Go(d, pc)
  PROVE  /\ run' \in [Devices -> Runs]
         /\ run'[d] = [run[d] EXCEPT !.pc = pc]
         /\ run'[d].pc = pc
         /\ run'[d].kind = run[d].kind /\ run'[d].attempt = run[d].attempt
         /\ run'[d].at = run[d].at /\ run'[d].base = run[d].base
         /\ run'[d].local = run[d].local /\ run'[d].remote = run[d].remote
         /\ run'[d].candidate = run[d].candidate /\ run'[d].chosen = run[d].chosen
         /\ \A e \in Devices \ {d} : run'[e] = run[e]
  BY DEF TypeOK, Runs, Go, aside

\* Moving to a point that asks for nothing the run does not hold.
LEMMA GoKeeps ==
  ASSUME IInv, NEW d \in Devices, NEW pc \in PCs, Go(d, pc),
         \/ UNCHANGED journal
         \/ \E phase \in Phases :
              /\ Advance(d, phase)
              /\ (phase = "completed" /\ d \notin moved) => base[d] = active[d],
         Active(d),
         Shape([run[d] EXCEPT !.pc = pc]),
         pc \in Pushing => KeepsChanges(Request(d)),
         pc \in {"confirm", "confirmBase", "complete"} => run[d].candidate \in published,
         pc # "complete",
         draft' \in [Devices -> Optional([base : Envelopes, local : Envelopes,
                                          remote : Envelopes])],
         UNCHANGED <<remote, published, wire, profile, active, base, budget,
                     edited, kept, write, aside>>
  PROVE  IInv'
  <1>1. TypeOK /\ Merged(d)
    BY DEF IInv
  <1>2. /\ run' \in [Devices -> Runs]
        /\ run'[d] = [run[d] EXCEPT !.pc = pc]
        /\ run'[d].pc = pc /\ run'[d].kind = run[d].kind
        /\ run'[d].base = run[d].base /\ run'[d].remote = run[d].remote
        /\ run'[d].candidate = run[d].candidate /\ run'[d].chosen = run[d].chosen
        /\ \A e \in Devices \ {d} : run'[e] = run[e]
    BY <1>1, GoType
  <1>3. /\ journal' \in [Devices -> [phase : Phases, attempt : 0 .. MaxAttempts]]
        /\ ConfirmedBase'
    <2>1. CASE UNCHANGED journal
      BY <2>1 DEF IInv, TypeOK, ConfirmedBase, aside
    <2>2. CASE \E phase \in Phases : /\ Advance(d, phase)
                                     /\ (phase = "completed" /\ d \notin moved) => base[d] = active[d]
      BY <2>2, AdvanceKeeps DEF aside
    <2> QED BY <2>1, <2>2
  <1>4. TypeOK'
    BY <1>1, <1>2, <1>3 DEF TypeOK, aside
  <1>5. Merged(d)'
    <2>1. Request(d)' = Request(d)
      BY <1>2 DEF Request
    <2>2. (run'[d].kind = "resolve" => KeepsChanges(Request(d)))
            /\ (pc \in Pushing => KeepsChanges(Request(d)))
      BY <1>1, <1>2 DEF Merged, Active, TypeOK, Runs, aside
    <2> QED BY <1>2, <2>1, <2>2 DEF Merged, KeepsChanges
  <1>6. Pushed(d)'
    BY <1>2 DEF Pushed
  <1> QED BY <1>2, <1>3, <1>4, <1>5, <1>6, StepKeeps DEF aside

LEMMA ReadLocalKeeps ==
  ASSUME IInv, NEW d \in Devices, ReadLocal(d)
  PROVE  IInv'
  <1> DEFINE l == Reconcile(active[d], LocalProjection(d), run[d].at)
             r == [run[d] EXCEPT !.pc = "readRemote", !.local = l]
  <1>1. TypeOK /\ Shape(run[d]) /\ run[d].pc = "readLocal" /\ run[d] \in Runs
    BY DEF IInv, TypeOK, ReadLocal, aside
  <1>2. run[d].at \in Stamps /\ run[d].kind = "sync" /\ run[d].base \in Envelopes
          /\ run[d].chosen = {}
    BY <1>1 DEF Shape, PCs, Reading
  <1>3. l \in Envelopes
    <2>1. active[d] \in Envelopes /\ LocalProjection(d) \in Envelopes
      BY <1>1, LocalProjectionType DEF TypeOK, aside
    <2> QED BY <1>2, <2>1, ReconcileType
  <1>4. /\ r.pc = "readRemote" /\ r.kind = run[d].kind /\ r.at = run[d].at
        /\ r.base = run[d].base /\ r.local = l /\ r.chosen = run[d].chosen
        /\ r \in Runs
    BY <1>1, <1>3 DEF Runs, PCs, Optional
  <1>5. /\ run' \in [Devices -> Runs] /\ run'[d] = r
        /\ \A e \in Devices \ {d} : run'[e] = run[e]
    BY <1>1, <1>4 DEF ReadLocal, TypeOK, aside
  <1>6. TypeOK' /\ ConfirmedBase'
    BY <1>5 DEF IInv, TypeOK, ConfirmedBase, ReadLocal, durable, aside
  <1>7. Shape(r)
    BY <1>2, <1>3, <1>4 DEF Shape, PCs, Pushing, Reading
  <1>8. Merged(d)' /\ Pushed(d)'
    BY <1>2, <1>4, <1>5 DEF Merged, Pushed, Pushing
  <1> QED BY <1>5, <1>6, <1>7, <1>8, StepKeeps DEF ReadLocal, durable, aside

LEMMA ReadRemoteKeeps ==
  ASSUME IInv, NEW d \in Devices, ReadRemote(d)
  PROVE  IInv'
  <1> DEFINE r == [run[d] EXCEPT !.pc = "validate", !.remote = remote]
  <1>1. TypeOK /\ Shape(run[d]) /\ run[d].pc = "readRemote" /\ run[d] \in Runs
          /\ remote \in Envelopes
    BY DEF IInv, TypeOK, ReadRemote, aside
  <1>2. run[d].at \in Stamps /\ run[d].kind = "sync" /\ run[d].base \in Envelopes
          /\ run[d].local \in Envelopes /\ run[d].chosen = {}
    BY <1>1 DEF Shape, PCs, Reading
  <1>3. /\ r.pc = "validate" /\ r.kind = run[d].kind /\ r.at = run[d].at
        /\ r.base = run[d].base /\ r.local = run[d].local /\ r.remote = remote
        /\ r.chosen = run[d].chosen /\ r \in Runs
    BY <1>1 DEF Runs, PCs, Optional
  <1>4. /\ run' \in [Devices -> Runs] /\ run'[d] = r
        /\ \A e \in Devices \ {d} : run'[e] = run[e]
    BY <1>1, <1>3 DEF ReadRemote, TypeOK, aside
  <1>5. /\ journal' \in [Devices -> [phase : Phases, attempt : 0 .. MaxAttempts]]
        /\ ConfirmedBase'
    BY AdvanceKeeps DEF ReadRemote, Phases, aside
  <1>6. TypeOK'
    BY <1>1, <1>4, <1>5 DEF TypeOK, ReadRemote, aside
  <1>7. Shape(r)
    BY <1>1, <1>2, <1>3 DEF Shape, PCs, Pushing, Reading
  <1>8. Merged(d)' /\ Pushed(d)'
    BY <1>2, <1>3, <1>4 DEF Merged, Pushed, Pushing
  <1> QED BY <1>4, <1>5, <1>6, <1>7, <1>8, StepKeeps DEF ReadRemote, aside

\* The steps that only move on: validation, adopting a draft, announcing a push,
\* a confirmed push, a stored conflict.
LEMMA MoveKeeps ==
  ASSUME IInv, NEW d \in Devices,
         AdoptDraft(d) \/ Validate(d) \/ DraftConflict(d) \/ MarkPush(d) \/ Confirm(d)
  PROVE  IInv'
  <1>1. /\ TypeOK /\ Shape(run[d]) /\ Merged(d) /\ Pushed(d) /\ run[d] \in Runs
        /\ draft \in [Devices -> Optional([base : Envelopes, local : Envelopes,
                                           remote : Envelopes])]
    BY DEF IInv, TypeOK, aside
  <1>2. \A pc \in PCs : /\ [run[d] EXCEPT !.pc = pc].pc = pc
                        /\ [run[d] EXCEPT !.pc = pc].kind = run[d].kind
                        /\ [run[d] EXCEPT !.pc = pc].at = run[d].at
                        /\ [run[d] EXCEPT !.pc = pc].base = run[d].base
                        /\ [run[d] EXCEPT !.pc = pc].local = run[d].local
                        /\ [run[d] EXCEPT !.pc = pc].remote = run[d].remote
                        /\ [run[d] EXCEPT !.pc = pc].candidate = run[d].candidate
                        /\ [run[d] EXCEPT !.pc = pc].chosen = run[d].chosen
    BY <1>1 DEF Runs
  <1>3. CASE AdoptDraft(d)
    <2>1. run[d].pc = "adopt" /\ Active(d) /\ "validate" \in PCs
      BY <1>3 DEF AdoptDraft, Active, PCs
    <2>2. Shape([run[d] EXCEPT !.pc = "validate"])
      BY <1>1, <1>2, <2>1 DEF Shape, PCs, Pushing, Reading
    <2> QED BY <1>1, <1>3, <2>1, <2>2, GoKeeps DEF AdoptDraft, Phases, Pushing
  <1>4. CASE Validate(d)
    <2>1. run[d].pc = "validate" /\ Active(d) /\ "merge" \in PCs
      BY <1>4 DEF Validate, Active, PCs
    <2>2. Shape([run[d] EXCEPT !.pc = "merge"])
      BY <1>1, <1>2, <2>1 DEF Shape, PCs, Pushing, Reading
    <2> QED BY <1>1, <1>4, <2>1, <2>2, GoKeeps DEF Validate, Phases, Pushing
  <1>5. CASE DraftConflict(d)
    <2>1. run[d].pc = "merge" /\ Active(d) /\ "conflict" \in PCs
            /\ run[d].kind = "sync"
      BY <1>5 DEF DraftConflict, HasCandidate, Active, PCs
    <2>2. run[d].base \in Envelopes /\ run[d].local \in Envelopes
            /\ run[d].remote \in Envelopes
      BY <1>1, <2>1 DEF Shape, PCs, Reading
    <2>3. Shape([run[d] EXCEPT !.pc = "conflict"])
      BY <1>1, <1>2, <2>1, <2>2 DEF Shape, PCs, Pushing, Reading
    <2>4. draft' \in [Devices -> Optional([base : Envelopes, local : Envelopes,
                                          remote : Envelopes])]
      BY <1>1, <1>5, <2>2 DEF DraftConflict, Optional
    <2> QED BY <1>5, <2>1, <2>3, <2>4, GoKeeps DEF DraftConflict, Pushing
  <1>6. CASE MarkPush(d)
    <2>1. run[d].pc = "markPush" /\ Active(d) /\ "push" \in PCs
      BY <1>6 DEF MarkPush, Active, PCs
    <2>2. Shape([run[d] EXCEPT !.pc = "push"]) /\ KeepsChanges(Request(d))
      BY <1>1, <1>2, <2>1 DEF Shape, Merged, PCs, Pushing, Reading
    <2> QED BY <1>1, <1>6, <2>1, <2>2, GoKeeps DEF MarkPush, Phases, Pushing
  <1>7. CASE Confirm(d)
    <2>1. run[d].pc = "confirm" /\ Active(d) /\ "confirmBase" \in PCs
      BY <1>7 DEF Confirm, Active, PCs
    <2>2. Shape([run[d] EXCEPT !.pc = "confirmBase"]) /\ KeepsChanges(Request(d))
            /\ run[d].candidate \in published
      BY <1>1, <1>2, <2>1 DEF Shape, Merged, Pushed, PCs, Pushing, Reading
    <2> QED BY <1>1, <1>7, <2>1, <2>2, GoKeeps DEF Confirm, Phases, Pushing
  <1> QED BY <1>3, <1>4, <1>5, <1>6, <1>7

\* The recovery snapshots of a device with one of its present state.
LEMMA KeepingType ==
  ASSUME TypeOK, NEW d \in Devices
  PROVE  Keeping(d) \in SUBSET [profile : [Ids -> Bodied], active : Envelopes]
  <1>1. /\ recovery[d] \in SUBSET [profile : [Ids -> Bodied], active : Envelopes]
        /\ profile[d] \in [Ids -> Bodied] /\ active[d] \in Envelopes
    BY DEF TypeOK
  <1> QED BY <1>1 DEF Keeping

LEMMA CommitLocalKeeps ==
  ASSUME IInv, NEW d \in Devices, CommitLocal(d)
  PROVE  IInv'
  <1> DEFINE c == Candidate(d)
             s == IF run[d].snapshot = None THEN profile[d] ELSE run[d].snapshot
             r == [run[d] EXCEPT !.pc = "markPush", !.candidate = c, !.snapshot = s]
  <1>1. /\ TypeOK /\ Shape(run[d]) /\ Merged(d) /\ run[d].pc = "merge"
        /\ run[d] \in Runs
    BY DEF IInv, TypeOK, CommitLocal, aside
  <1>2. run[d].base \in Envelopes /\ run[d].remote \in Envelopes
    BY <1>1 DEF Shape, PCs, Reading
  <1>3. c \in Envelopes /\ KeepsChanges([Request(d) EXCEPT !.envelope = c])
    <2>1. [Request(d) EXCEPT !.envelope = c]
            = [expected |-> run[d].remote, envelope |-> c,
               by |-> d, base |-> run[d].base, chosen |-> run[d].chosen]
      BY DEF Request
    <2>2. CASE run[d].kind = "sync"
      <3>1. run[d].local \in Envelopes
        BY <1>1, <2>2 DEF Shape
      <3>2. c = Merge(run[d].base, run[d].local, run[d].remote)
              /\ Mergeable(run[d].base, run[d].local, run[d].remote)
        BY <2>2 DEF Candidate, CommitLocal, HasCandidate, MergesCleanly
      <3> QED BY <1>2, <2>1, <3>1, <3>2, MergeType, MergeKeeps
    <2>3. CASE run[d].kind = "resolve"
      <3>1. c = run[d].candidate /\ c \in Envelopes
        BY <1>1, <2>3 DEF Candidate, Shape, PCs
      <3>2. KeepsChanges(Request(d))
        BY <1>1, <2>3 DEF Merged, PCs
      <3>3. [Request(d) EXCEPT !.envelope = c] = Request(d)
        BY <3>1 DEF Request
      <3> QED BY <3>1, <3>2, <3>3
    <2> QED BY <1>1, <2>2, <2>3 DEF Runs, Kinds
  <1>4. s \in Optional([Ids -> Bodied])
    BY <1>1 DEF TypeOK, Runs, Optional, aside
  <1>5. /\ r.pc = "markPush" /\ r.kind = run[d].kind /\ r.at = run[d].at
        /\ r.base = run[d].base /\ r.local = run[d].local /\ r.remote = run[d].remote
        /\ r.candidate = c /\ r.chosen = run[d].chosen /\ r \in Runs
    BY <1>1, <1>3, <1>4 DEF Runs, PCs, Optional
  <1>6. run' = [run EXCEPT ![d] = r]
    BY DEF CommitLocal
  <1>7. /\ run' \in [Devices -> Runs] /\ run'[d] = r
        /\ \A e \in Devices \ {d} : run'[e] = run[e]
    BY <1>1, <1>5, <1>6 DEF TypeOK, aside
  <1>8. profile' \in [Devices -> [Ids -> Bodied]] /\ active' \in [Devices -> Envelopes]
          /\ \A e \in Devices \ {d} : active'[e] = active[e]
    BY <1>1, <1>3, ProjectionType DEF CommitLocal, TypeOK, aside
  <1>9. /\ journal' \in [Devices -> [phase : Phases, attempt : 0 .. MaxAttempts]]
        /\ ConfirmedBase'
    <2>1. run[d].attempt \in 0 .. MaxAttempts
      BY <1>1 DEF Runs
    <2>2. journal' \in [Devices -> [phase : Phases, attempt : 0 .. MaxAttempts]]
      BY <1>1, <2>1 DEF TypeOK, CommitLocal, Advance, Phases, aside
    <2>3. ASSUME NEW e \in Devices
          PROVE  Based(e)'
      <3>1. Based(e)
        BY DEF IInv, ConfirmedBase, Based
      <3>2. CASE e = d
        BY <1>1, <3>1, <3>2 DEF CommitLocal, Advance, TypeOK, Based
      <3>3. CASE e # d
        BY <1>1, <1>8, <3>1, <3>3 DEF CommitLocal, Advance, TypeOK, Based
      <3> QED BY <3>2, <3>3
    <2> QED BY <2>2, <2>3 DEF ConfirmedBase, Based
  <1>10. TypeOK'
    <2>1. recovery' \in [Devices -> SUBSET [profile : [Ids -> Bodied], active : Envelopes]]
      BY <1>1, KeepingType DEF CommitLocal, TypeOK
    <2> QED BY <1>1, <1>7, <1>8, <1>9, <2>1 DEF TypeOK, CommitLocal
  <1>11. Shape(r)
    BY <1>1, <1>2, <1>3, <1>5 DEF Shape, PCs, Pushing, Reading
  <1>12. Merged(d)' /\ Pushed(d)'
    <2>1. Request(d)' = [Request(d) EXCEPT !.envelope = c]
      BY <1>5, <1>7 DEF Request
    <2> QED BY <1>3, <1>5, <1>7, <2>1 DEF Merged, Pushed, KeepsChanges
  <1> QED BY <1>7, <1>8, <1>9, <1>10, <1>11, <1>12, StepKeeps DEF CommitLocal

\* What a push sends is a well-formed request that keeps the remote's changes.
LEMMA RequestType ==
  ASSUME IInv, NEW d \in Devices, run[d].pc = "push"
  PROVE  /\ Request(d) \in Requests /\ KeepsChanges(Request(d))
         /\ Request(d).envelope = run[d].candidate
  <1>1. Shape(run[d]) /\ Merged(d) /\ run[d] \in Runs
    BY DEF IInv, TypeOK, aside
  <1>2. run[d].base \in Envelopes /\ run[d].remote \in Envelopes
          /\ run[d].candidate \in Envelopes /\ run[d].chosen \subseteq Ids
    BY <1>1 DEF Shape, PCs, Reading, Pushing, Runs
  <1>3. Request(d) \in Requests /\ Request(d).envelope = run[d].candidate
    BY <1>2 DEF Request, Requests
  <1>4. KeepsChanges(Request(d))
    BY <1>1 DEF Merged, Pushing
  <1> QED BY <1>3, <1>4

LEMMA PushCommittedKeeps ==
  ASSUME IInv, NEW d \in Devices, PushCommitted(d)
  PROVE  IInv'
  <1>1. /\ TypeOK /\ Shape(run[d]) /\ run[d].pc = "push" /\ run[d] \in Runs
        /\ "confirm" \in PCs
    BY DEF IInv, TypeOK, PushCommitted, PCs, aside
  <1>2. /\ Request(d) \in Requests /\ KeepsChanges(Request(d))
        /\ Request(d).envelope = run[d].candidate /\ run[d].candidate \in Envelopes
    BY <1>1, RequestType DEF Shape, Pushing
  <1>3. /\ run' \in [Devices -> Runs] /\ run'[d].pc = "confirm"
        /\ run'[d].kind = run[d].kind /\ run'[d].at = run[d].at
        /\ run'[d].base = run[d].base /\ run'[d].remote = run[d].remote
        /\ run'[d].local = run[d].local
        /\ run'[d].candidate = run[d].candidate /\ run'[d].chosen = run[d].chosen
        /\ \A e \in Devices \ {d} : run'[e] = run[e]
    BY <1>1, GoType DEF PushCommitted
  <1>4. /\ remote' = run[d].candidate /\ write' = Request(d)
        /\ published' = published \cup {run[d].candidate}
    BY <1>2 DEF PushCommitted, Apply
  <1>5. TypeOK'
    BY <1>1, <1>2, <1>3, <1>4 DEF TypeOK, PushCommitted, durable, aside
  <1>6. Shape(run'[d])
    BY <1>1, <1>3 DEF Shape, PCs, Pushing, Reading
  <1>7. Merged(d)' /\ Pushed(d)'
    <2>1. Request(d)' = Request(d)
      BY <1>3 DEF Request
    <2> QED BY <1>2, <1>3, <1>4, <2>1 DEF Merged, Pushed, KeepsChanges
  <1>8. ConfirmedBase'
    BY <1>4 DEF IInv, ConfirmedBase, PushCommitted, durable, aside
  <1> QED BY <1>3, <1>4, <1>5, <1>6, <1>7, <1>8, StepKeeps DEF PushCommitted, durable, aside

\* A mismatch: another attempt, or the end of the run.
LEMMA NextAttemptKeeps ==
  ASSUME IInv, NEW d \in Devices, NextAttempt(d),
         Active(d), run[d].kind = "sync",
         budget' \in [{"edits", "faults", "resolves", "imports", "restores"} -> Nat],
         UNCHANGED <<remote, published, wire, profile, active, base, draft,
                     edited, kept, write, aside>>
  PROVE  IInv'
  <1> DEFINE r == [run[d] EXCEPT !.pc = "readLocal", !.attempt = @ + 1]
  <1>1. TypeOK /\ Shape(run[d]) /\ run[d] \in Runs
    BY DEF IInv, TypeOK, aside
  <1>2. CASE run[d].attempt < MaxAttempts /\ run' = [run EXCEPT ![d] = r]
               /\ UNCHANGED journal
    <2>1. run[d].attempt + 1 \in 0 .. MaxAttempts
      BY <1>1, <1>2, AttemptsAssumption DEF Runs
    <2>2. /\ r.pc = "readLocal" /\ r.kind = run[d].kind /\ r.at = run[d].at
          /\ r.base = run[d].base /\ r.chosen = run[d].chosen /\ r \in Runs
      BY <1>1, <2>1 DEF Runs, PCs
    <2>3. /\ run' \in [Devices -> Runs] /\ run'[d] = r
          /\ \A e \in Devices \ {d} : run'[e] = run[e]
      BY <1>1, <1>2, <2>2 DEF TypeOK, aside
    <2>4. TypeOK' /\ ConfirmedBase'
      BY <1>1, <1>2, <2>3 DEF IInv, TypeOK, ConfirmedBase, aside
    <2>5. Shape(r)
      BY <1>1, <2>2 DEF Shape, Active, PCs, Pushing, Reading, Runs
    <2>6. Merged(d)' /\ Pushed(d)'
      BY <2>2, <2>3 DEF Merged, Pushed, Pushing
    <2> QED BY <2>3, <2>4, <2>5, <2>6, StepKeeps DEF aside
  <1>3. CASE Degrade(d)
    BY <1>1, <1>3, EndKeeps DEF Degrade, Stop, Phases, TypeOK, aside
  <1> QED BY <1>2, <1>3 DEF NextAttempt

\* The steps that end an operation, and those a fault ends.
LEMMA EndingKeeps ==
  ASSUME IInv, NEW d \in Devices,
         \/ LocalReadFails(d) \/ CommitRefused(d) \/ RecordConflict(d)
         \/ ClearDraft(d) \/ TransportFails(d)
  PROVE  IInv'
  <1>1. TypeOK /\ {"degraded", "conflict"} \subseteq Phases
    BY DEF IInv, Phases
  <1>2. CASE LocalReadFails(d)
    BY <1>1, <1>2, EndKeeps DEF LocalReadFails, Stop, durable, TypeOK, aside
  <1>3. CASE CommitRefused(d)
    BY <1>1, <1>3, EndKeeps DEF CommitRefused, Stop, durable, TypeOK, aside
  <1>4. CASE RecordConflict(d)
    BY <1>1, <1>4, EndKeeps DEF RecordConflict, Stop, TypeOK, aside
  <1>5. CASE ClearDraft(d)
    <2>1. draft' \in [Devices -> Optional([base : Envelopes, local : Envelopes,
                                          remote : Envelopes])]
      BY <1>1, <1>5 DEF ClearDraft, TypeOK, Optional, aside
    <2> QED BY <1>1, <1>5, <2>1, EndKeeps DEF ClearDraft, Stop, TypeOK, aside
  <1>6. CASE TransportFails(d)
    <2>1. budget' \in [{"edits", "faults", "resolves", "imports", "restores"} -> Nat]
      BY <1>1, <1>6 DEF TransportFails, Spend, TypeOK
    <2>2. /\ Degrade(d)
          /\ UNCHANGED <<remote, published, wire, profile, active, base, draft, edited, kept,
                         write, aside>>
      BY <1>6 DEF TransportFails
    <2> QED BY <1>1, <2>1, <2>2, EndKeeps DEF Degrade, Stop, TypeOK
  <1> QED BY <1>2, <1>3, <1>4, <1>5, <1>6

LEMMA MismatchKeeps ==
  ASSUME IInv, NEW d \in Devices, PushMismatch(d) \/ ConfirmMismatch(d)
  PROVE  IInv'
  <1>1. TypeOK /\ {"degraded", "conflict"} \subseteq Phases
    BY DEF IInv, Phases
  <1>2. /\ Active(d) /\ budget' \in [{"edits", "faults", "resolves", "imports", "restores"} -> Nat]
        /\ UNCHANGED <<remote, published, wire, profile, active, base, draft,
                       edited, kept, write, aside>>
    <2>1. /\ Active(d)
          /\ UNCHANGED <<remote, published, wire, profile, active, base, draft,
                         edited, kept, write, aside>>
      BY DEF PushMismatch, ConfirmMismatch, Active
    <2>2. budget' \in [{"edits", "faults", "resolves", "imports", "restores"} -> Nat]
      <3>1. budget \in [{"edits", "faults", "resolves", "imports", "restores"} -> Nat]
        BY <1>1 DEF TypeOK
      <3>2. budget' = budget \/ Spend("faults")
        BY DEF PushMismatch, ConfirmMismatch
      <3> QED BY <3>1, <3>2 DEF Spend
    <2> QED BY <2>1, <2>2
  <1>3. CASE run[d].kind = "sync" /\ NextAttempt(d)
    BY <1>2, <1>3, NextAttemptKeeps
  <1>4. CASE Advance(d, "conflict") /\ Stop(d)
    BY <1>1, <1>2, <1>4, EndKeeps DEF Stop, TypeOK, aside
  <1>5. CASE Degrade(d)
    BY <1>1, <1>2, <1>5, EndKeeps DEF Degrade, Stop, TypeOK, aside
  <1> QED BY <1>3, <1>4, <1>5 DEF PushMismatch, ConfirmMismatch

LEMMA PushLostKeeps ==
  ASSUME IInv, NEW d \in Devices, PushLost(d)
  PROVE  IInv'
  <1>1. TypeOK /\ "degraded" \in Phases /\ run[d].pc = "push"
    BY DEF IInv, Phases, PushLost
  <1>2. /\ wire' = wire \cup {Request(d)} /\ wire' \subseteq Requests
        /\ \A request \in wire' : request \in wire \/ KeepsChanges(request)
        /\ budget' \in [{"edits", "faults", "resolves", "imports", "restores"} -> Nat]
        /\ UNCHANGED <<remote, published, profile, active, base, draft, edited, kept, write, aside>>
    BY <1>1, RequestType DEF PushLost, Spend, TypeOK, aside
  <1>3. CASE UNCHANGED <<run, journal>>
    <2>1. TypeOK' /\ ConfirmedBase'
      BY <1>1, <1>2, <1>3 DEF IInv, TypeOK, ConfirmedBase, aside
    <2>2. (\A e \in Devices : Shape(run[e]) /\ Merged(e) /\ Pushed(e))'
      BY <1>2, <1>3, Frame DEF aside
    <2>3. (\A request \in wire : KeepsChanges(request))'
      BY <1>2 DEF IInv, KeepsChanges
    <2>4. (\A e \in Devices : Saved(e))'
      BY <1>2, SavedStays DEF aside
    <2>5. (remote \in published)'
      BY <1>2 DEF IInv
    <2> QED BY <2>1, <2>2, <2>3, <2>4, <2>5 DEF IInv
  <1>4. CASE Degrade(d)
    BY <1>1, <1>2, <1>4, EndKeeps DEF Degrade, Stop, TypeOK, aside
  <1> QED BY <1>3, <1>4 DEF PushLost

LEMMA ConfirmBaseKeeps ==
  ASSUME IInv, NEW d \in Devices, ConfirmBase(d)
  PROVE  IInv'
  <1>1. /\ TypeOK /\ Shape(run[d]) /\ Merged(d) /\ Pushed(d)
        /\ run[d].pc = "confirmBase" /\ run[d] \in Runs /\ "complete" \in PCs
    BY DEF IInv, TypeOK, ConfirmBase, PCs, aside
  <1>2. /\ run[d].candidate \in Envelopes /\ run[d].candidate \in published
        /\ KeepsChanges(Request(d))
    BY <1>1 DEF Shape, Merged, Pushed, Pushing
  <1>3. /\ run' \in [Devices -> Runs] /\ run'[d].pc = "complete"
        /\ run'[d].kind = run[d].kind /\ run'[d].at = run[d].at
        /\ run'[d].base = run[d].base /\ run'[d].remote = run[d].remote
        /\ run'[d].local = run[d].local
        /\ run'[d].candidate = run[d].candidate /\ run'[d].chosen = run[d].chosen
        /\ \A e \in Devices \ {d} : run'[e] = run[e]
    BY <1>1, GoType DEF ConfirmBase
  <1>4. /\ base' \in [Devices -> Envelopes] /\ active' \in [Devices -> Envelopes]
        /\ base'[d] = run[d].candidate /\ active'[d] = run[d].candidate
        /\ \A e \in Devices \ {d} : base'[e] = base[e] /\ active'[e] = active[e]
    BY <1>1, <1>2 DEF ConfirmBase, TypeOK, aside
  <1>5. TypeOK'
    BY <1>1, <1>3, <1>4 DEF TypeOK, ConfirmBase, aside
  <1>6. Shape(run'[d])
    BY <1>1, <1>3 DEF Shape, PCs, Pushing, Reading
  <1>7. Merged(d)' /\ Pushed(d)'
    <2>1. Request(d)' = Request(d)
      BY <1>3 DEF Request
    <2> QED BY <1>2, <1>3, <1>4, <2>1 DEF Merged, Pushed, KeepsChanges, ConfirmBase
  <1>8. ConfirmedBase'
    <2>1. ASSUME NEW e \in Devices
          PROVE  Based(e)'
      <3>1. Based(e)
        BY DEF IInv, ConfirmedBase, Based
      <3>2. CASE e = d
        BY <1>2, <1>4, <3>2 DEF ConfirmBase, Based
      <3>3. CASE e # d
        BY <1>4, <3>1, <3>3 DEF ConfirmBase, Based
      <3> QED BY <3>2, <3>3
    <2> QED BY <2>1 DEF ConfirmedBase, Based
  <1> QED BY <1>3, <1>4, <1>5, <1>6, <1>7, <1>8, StepKeeps DEF ConfirmBase

LEMMA CompleteKeeps ==
  ASSUME IInv, NEW d \in Devices, Complete(d)
  PROVE  IInv'
  <1>1. /\ TypeOK /\ Shape(run[d]) /\ Merged(d) /\ Pushed(d)
        /\ run[d].pc = "complete" /\ run[d] \in Runs
        /\ "clearDraft" \in PCs /\ "completed" \in Phases
    BY DEF IInv, TypeOK, Complete, PCs, Phases, aside
  <1>2. /\ d \notin moved => base[d] = active[d]
        /\ KeepsChanges(Request(d)) /\ Active(d)
    BY <1>1 DEF Pushed, Merged, Pushing, Active
  <1>3. CASE Stop(d)
    BY <1>1, <1>2, <1>3, EndKeeps DEF Complete, Stop, TypeOK, aside
  <1>4. CASE run[d].kind = "resolve" /\ Go(d, "clearDraft")
    <2> DEFINE r == [run[d] EXCEPT !.pc = "clearDraft"]
    <2>1. /\ r.pc = "clearDraft" /\ r.kind = run[d].kind /\ r.at = run[d].at
          /\ r.base = run[d].base /\ r.remote = run[d].remote
          /\ r.candidate = run[d].candidate /\ r.chosen = run[d].chosen
      BY <1>1 DEF Runs
    <2>2. Shape(r)
      BY <1>1, <1>4, <2>1 DEF Shape, PCs, Pushing, Reading
    <2>3. draft' \in [Devices -> Optional([base : Envelopes, local : Envelopes,
                                          remote : Envelopes])]
      BY <1>1 DEF Complete, TypeOK, aside
    <2> QED BY <1>1, <1>2, <1>4, <2>2, <2>3, GoKeeps DEF Complete
  <1> QED BY <1>3, <1>4 DEF Complete

LEMMA BeginResolveKeeps ==
  ASSUME IInv, NEW d \in Devices, BeginResolve(d)
  PROVE  IInv'
  <1>1. TypeOK /\ run[d] \in Runs
    BY DEF IInv, TypeOK, aside
  <1>2. PICK resolutions \in
          [ConflictIds(draft[d].base, draft[d].local, draft[d].remote) -> Choices] :
            LET resolved == Resolve(draft[d].base, draft[d].local, draft[d].remote,
                                    resolutions)
            IN /\ run' = [run EXCEPT ![d] =
                            Resolving(draft[d], resolved, DOMAIN resolutions)]
               /\ kept' = kept \cup BroughtBack(d, resolved, DOMAIN resolutions)
    BY DEF BeginResolve
  <1> DEFINE b == draft[d].base
             l == draft[d].local
             c == Resolve(b, l, draft[d].remote, resolutions)
             r == Resolving(draft[d], c, DOMAIN resolutions)
  <1>3. b \in Envelopes /\ l \in Envelopes /\ draft[d].remote \in Envelopes
    BY <1>1 DEF BeginResolve, TypeOK, Optional, aside
  <1>4. DOMAIN resolutions \subseteq Ids
    BY DEF ConflictIds
  <1>5. c \in Envelopes
    BY <1>2, <1>3, ResolveType
  <1>6. KeepsChanges([expected |-> draft[d].remote, envelope |-> c, by |-> d,
                      base |-> b, chosen |-> DOMAIN resolutions])
    BY <1>3, ResolveKeeps
  <1> HIDE DEF c
  <1>7. /\ r.pc = "adopt" /\ r.kind = "resolve" /\ r.base = b
        /\ r.remote = draft[d].remote /\ r.candidate = c
        /\ r.chosen = DOMAIN resolutions
    BY DEF Resolving
  <1>8. r \in Runs
    BY <1>3, <1>4, <1>5, AttemptsAssumption
       DEF Resolving, Runs, PCs, Kinds, Optional
  <1>9. Shape(r)
    BY <1>3, <1>5, <1>7 DEF Shape, PCs, Pushing, Reading
  <1>10. run' = [run EXCEPT ![d] = r] /\ kept' \subseteq Ids
    BY <1>1, <1>2, <1>4 DEF c, TypeOK, BroughtBack, aside
  <1>11. /\ run' \in [Devices -> Runs] /\ run'[d] = r
         /\ \A e \in Devices \ {d} : run'[e] = run[e]
    BY <1>1, <1>8, <1>10 DEF TypeOK, aside
  <1>12. journal' \in [Devices -> [phase : Phases, attempt : 0 .. MaxAttempts]]
           /\ budget' \in [{"edits", "faults", "resolves", "imports", "restores"} -> Nat]
    BY <1>1, AttemptsAssumption DEF BeginResolve, Spend, TypeOK, Phases, aside
  <1>13. TypeOK'
    BY <1>1, <1>10, <1>11, <1>12 DEF TypeOK, BeginResolve, aside
  <1>14. Merged(d)' /\ Pushed(d)'
    <2>1. Request(d)' = [expected |-> draft[d].remote, envelope |-> c, by |-> d,
                         base |-> b, chosen |-> DOMAIN resolutions]
      BY <1>7, <1>11 DEF Request
    <2>2. KeepsChanges(Request(d)')
      BY <1>6, <2>1
    <2>3. Pushed(d)'
      BY <1>7, <1>11 DEF Pushed
    <2> QED BY <2>2, <2>3 DEF Merged, KeepsChanges
  <1>15. ConfirmedBase'
    BY <1>1 DEF IInv, TypeOK, ConfirmedBase, BeginResolve, aside
  <1> QED BY <1>9, <1>11, <1>13, <1>14, <1>15, StepKeeps DEF BeginResolve, aside

LEMMA CrashKeeps ==
  ASSUME IInv, NEW d \in Devices, Crash(d)
  PROVE  IInv'
  <1>1. TypeOK
    BY DEF IInv
  <1>2. /\ wire' \subseteq Requests
        /\ \A request \in wire' : request \in wire \/ KeepsChanges(request)
    <2>1. CASE UNCHANGED wire
      BY <1>1, <2>1 DEF TypeOK, aside
    <2>2. CASE run[d].pc = "push" /\ wire' = wire \cup {Request(d)}
      BY <1>1, <2>2, RequestType DEF TypeOK, aside
    <2> QED BY <2>1, <2>2 DEF Crash
  <1>3. /\ budget' \in [{"edits", "faults", "resolves", "imports", "restores"} -> Nat]
        /\ draft' \in [Devices -> Optional([base : Envelopes, local : Envelopes,
                                           remote : Envelopes])]
        /\ UNCHANGED <<remote, published, profile, active, base, journal, edited, kept, write, aside>>
    <2>1. UNCHANGED <<remote, published, profile, active, base, journal, draft,
                      edited, kept, write, aside>>
      BY DEF Crash, durable, aside
    <2>2. budget' \in [{"edits", "faults", "resolves", "imports", "restores"} -> Nat]
      BY <1>1 DEF TypeOK, Crash, Spend, aside
    <2> QED BY <1>1, <2>1, <2>2 DEF TypeOK, aside
  <1> QED BY <1>2, <1>3, EndKeeps DEF Crash

LEMMA StartKeeps ==
  ASSUME IInv, NEW d \in Devices, Start(d)
  PROVE  IInv'
  <1>1. TypeOK
    BY DEF IInv
  <1>2. CASE Begin(d)
    BY <1>2, BeginKeeps DEF Start
  <1>3. CASE Stop(d) /\ UNCHANGED journal
    BY <1>1, <1>3, EndKeeps DEF Start, Stop, TypeOK, aside
  <1> QED BY <1>2, <1>3 DEF Start

LEMMA EditKeeps ==
  ASSUME IInv, NEW d \in Devices, NEW id \in Ids, Edit(d, id)
  PROVE  IInv'
  <1>1. TypeOK
    BY DEF IInv
  <1>2. PICK state \in {Absent} \cup {Value(body) : body \in Bodies} :
          profile' = [profile EXCEPT ![d][id] = state]
    BY DEF Edit
  <1>3. profile' \in [Devices -> [Ids -> Bodied]]
    BY <1>1, <1>2 DEF TypeOK, Bodied, aside
  <1>4. /\ budget' \in [{"edits", "faults", "resolves", "imports", "restores"} -> Nat]
        /\ edited' \in [Devices -> SUBSET Ids]
    BY <1>1 DEF TypeOK, Edit, Spend, aside
  <1>5. TypeOK' /\ ConfirmedBase'
    BY <1>1, <1>3, <1>4 DEF IInv, TypeOK, ConfirmedBase, Edit, aside
  <1>6. (\A e \in Devices : Shape(run[e]) /\ Merged(e) /\ Pushed(e))'
    BY Frame DEF Edit, aside
  <1>7. (\A request \in wire : KeepsChanges(request))'
    BY DEF IInv, KeepsChanges, Edit
  <1>8. (\A e \in Devices : Saved(e))'
    BY SavedStays DEF Edit, aside
  <1>9. (remote \in published)'
    BY DEF Edit, IInv
  <1> QED BY <1>5, <1>6, <1>7, <1>8, <1>9 DEF IInv

LEMMA LateArrivalKeeps ==
  ASSUME IInv, LateArrival
  PROVE  IInv'
  <1>1. TypeOK
    BY DEF IInv
  <1>2. PICK request \in wire :
          /\ wire' = wire \ {request}
          /\ \/ Applies(request) /\ Apply(request)
             \/ ~Applies(request) /\ UNCHANGED <<remote, published, write>>
          /\ UNCHANGED <<durable, run, budget, edited, kept>>
    BY DEF LateArrival
  <1>3. request \in Requests /\ request.envelope \in Envelopes
    BY <1>1 DEF TypeOK, Requests, aside
  <1>4. /\ published \subseteq published' /\ published' \subseteq Envelopes
        /\ remote' \in Envelopes /\ write' \in Requests
    BY <1>1, <1>2, <1>3 DEF TypeOK, Apply, aside
  <1>5. TypeOK' /\ ConfirmedBase'
    <2>1. wire' \subseteq Requests
      BY <1>1, <1>2 DEF TypeOK, aside
    <2>2. /\ UNCHANGED <<profile, active, base, journal, draft, run, budget, edited, kept>>
          /\ UNCHANGED <<imported, recovery, paused, moved>>
      BY <1>2 DEF durable, aside
    <2>3. TypeOK'
      BY <1>1, <1>4, <2>1, <2>2 DEF TypeOK
    <2>4. ConfirmedBase'
      BY <1>4, <2>2 DEF IInv, ConfirmedBase
    <2> QED BY <2>3, <2>4
  <1>6. (\A e \in Devices : Shape(run[e]) /\ Merged(e) /\ Pushed(e))'
    BY <1>2, <1>4, Frame DEF durable, aside
  <1>7. (\A late \in wire : KeepsChanges(late))'
    BY <1>2 DEF IInv, KeepsChanges
  <1>8. (\A e \in Devices : Saved(e))'
    BY <1>2, <1>4, SavedStays DEF durable, aside
  <1>9. (remote \in published)'
    BY <1>2 DEF IInv, Apply
  <1> QED BY <1>5, <1>6, <1>7, <1>8, <1>9 DEF IInv

-----------------------------------------------------------------------------
(* What the user writes over the records *)

LEMMA AbortKeeps ==
  ASSUME IInv, NEW d \in Devices, Abort(d)
  PROVE  IInv'
  <1>1. TypeOK /\ "degraded" \in Phases
    BY DEF IInv, Phases
  <1>2. /\ wire' \subseteq Requests
        /\ \A request \in wire' : request \in wire \/ KeepsChanges(request)
    <2>1. CASE UNCHANGED wire
      BY <1>1, <2>1 DEF TypeOK
    <2>2. CASE run[d].pc = "push" /\ wire' = wire \cup {Request(d)}
      BY <1>1, <2>2, RequestType DEF TypeOK
    <2> QED BY <2>1, <2>2 DEF Abort
  <1>3. /\ budget' \in [{"edits", "faults", "resolves", "imports", "restores"} -> Nat]
        /\ draft' \in [Devices -> Optional([base : Envelopes, local : Envelopes,
                                           remote : Envelopes])]
    BY <1>1 DEF TypeOK, Abort
  <1>4. UNCHANGED <<remote, published, profile, active, base, edited, kept, write, aside>>
    BY DEF Abort
  <1>5. CASE Degrade(d)
    BY <1>1, <1>2, <1>3, <1>4, <1>5, EndKeeps DEF Degrade, Stop
  <1>6. CASE Stop(d) /\ UNCHANGED journal
    BY <1>1, <1>2, <1>3, <1>4, <1>6, EndKeeps DEF Stop
  <1> QED BY <1>5, <1>6 DEF Abort

\* A step of d that leaves the runs, the wire, the journal and the published alone.
LEMMA OverwriteKeeps ==
  ASSUME IInv, NEW d \in Devices, TypeOK',
         UNCHANGED <<remote, published, wire, run, journal>>,
         \A e \in Devices \ {d} :
           /\ base'[e] = base[e] /\ active'[e] = active[e] /\ imported'[e] = imported[e]
           /\ e \in moved' <=> e \in moved,
         Pushed(d)', Based(d)', Saved(d)'
  PROVE  IInv'
  <1>1. \A e \in Devices : Shape(run[e]) /\ Merged(e) /\ Pushed(e) /\ Saved(e) /\ Based(e)
    BY DEF IInv, ConfirmedBase, Based
  <1>2. ASSUME NEW e \in Devices
        PROVE  (Shape(run[e]) /\ Merged(e))'
    <2>1. Shape(run[e])' /\ Request(e)' = Request(e)
      BY <1>1 DEF Request
    <2> QED BY <1>1, <2>1 DEF Merged, KeepsChanges
  <1>3. ASSUME NEW e \in Devices, e # d
        PROVE  (Pushed(e) /\ Saved(e) /\ Based(e))'
    BY <1>1, <1>3 DEF Pushed, Saved, Based
  <1>4. \A e \in Devices : (Pushed(e) /\ Saved(e) /\ Based(e))'
    BY <1>3
  <1>5. ConfirmedBase'
    BY <1>4 DEF ConfirmedBase, Based
  <1>6. (\A request \in wire : KeepsChanges(request))'
    BY DEF IInv, KeepsChanges
  <1> QED BY <1>2, <1>4, <1>5, <1>6 DEF IInv

LEMMA ImportKeeps ==
  ASSUME IInv, NEW d \in Devices, Import(d) \/ UndoImport(d)
  PROVE  IInv'
  <1>1. TypeOK /\ Pushed(d) /\ Saved(d) /\ Based(d)
    BY DEF IInv, ConfirmedBase, Based
  <1>2. /\ profile[d] \in [Ids -> Bodied] /\ base[d] \in Envelopes
        /\ base[d] \in published \cup Files
    BY <1>1 DEF TypeOK, Based
  <1>3. PICK content, file :
          /\ content \in [Ids -> Bodied] /\ file \in Envelopes
          /\ file \in published \cup Files
          /\ profile' = [profile EXCEPT ![d] = content]
          /\ base' = [base EXCEPT ![d] = file]
    <2>1. CASE Import(d)
      <3>1. PICK file \in Files :
              /\ \/ profile' = [profile EXCEPT ![d] = file.entity]
                 \/ \E resolutions \in
                      [ConflictIds(base[d], LocalProjection(d), file) -> Choices] :
                      profile' = [profile EXCEPT ![d] =
                        Projection(Resolve(base[d], LocalProjection(d), file,
                                           resolutions)).entity]
              /\ base' = [base EXCEPT ![d] = file]
        BY <2>1, Zenon DEF Import
      <3>2. file \in Envelopes /\ Projection(file) = file
        BY FilesAssumption
      <3>3. CASE profile' = [profile EXCEPT ![d] = file.entity]
        <4>1. file.entity \in [Ids -> Bodied]
          BY <3>2, ProjectionType
        <4> QED BY <3>1, <3>2, <3>3, <4>1
      <3>4. ASSUME NEW resolutions \in
                     [ConflictIds(base[d], LocalProjection(d), file) -> Choices],
                   profile' = [profile EXCEPT ![d] =
                     Projection(Resolve(base[d], LocalProjection(d), file,
                                        resolutions)).entity]
            PROVE  \E content : /\ content \in [Ids -> Bodied]
                               /\ profile' = [profile EXCEPT ![d] = content]
        <4>1. LocalProjection(d) \in Envelopes
          BY <1>1, LocalProjectionType
        <4>2. Resolve(base[d], LocalProjection(d), file, resolutions) \in Envelopes
          BY <1>2, <3>2, <4>1, ResolveType
        <4>3. Projection(Resolve(base[d], LocalProjection(d), file, resolutions)).entity
                \in [Ids -> Bodied]
          BY <4>2, ProjectionType
        <4> QED BY <3>4, <4>3
      <3> QED BY <3>1, <3>2, <3>3, <3>4
    <2>2. CASE UndoImport(d)
      <3>1. /\ imported[d] # None
            /\ profile' = [profile EXCEPT ![d] = imported[d].profile]
            /\ base' = [base EXCEPT ![d] = imported[d].base]
        BY <2>2 DEF UndoImport
      <3>2. imported[d] \in [profile : [Ids -> Bodied], base : Envelopes]
        BY <1>1, <3>1 DEF TypeOK, Optional
      <3>3. imported[d].base \in published \cup Files
        BY <1>1, <3>1 DEF Saved
      <3> QED BY <3>1, <3>2, <3>3
    <2> QED BY <2>1, <2>2
  <1>4. /\ imported' = [imported EXCEPT ![d] = [profile |-> profile[d], base |-> base[d]]]
        /\ moved' = moved \cup {d}
        /\ UNCHANGED <<remote, published, wire, active, journal>>
        /\ UNCHANGED <<draft, run, edited, kept, write, recovery, paused>>
    BY DEF Import, UndoImport
  <1>5. budget' \in [{"edits", "faults", "resolves", "imports", "restores"} -> Nat]
    BY <1>1 DEF TypeOK, Import, UndoImport, Spend
  <1>6. /\ profile' \in [Devices -> [Ids -> Bodied]] /\ base' \in [Devices -> Envelopes]
        /\ base'[d] = file /\ \A e \in Devices \ {d} : base'[e] = base[e]
    BY <1>1, <1>3 DEF TypeOK
  <1>7. /\ imported' \in [Devices -> Optional([profile : [Ids -> Bodied], base : Envelopes])]
        /\ imported'[d].base = base[d]
        /\ \A e \in Devices \ {d} : imported'[e] = imported[e]
    BY <1>1, <1>2, <1>4 DEF TypeOK, Optional
  <1>8. TypeOK'
    BY <1>1, <1>4, <1>5, <1>6, <1>7 DEF TypeOK
  <1>9. Pushed(d)' /\ Based(d)' /\ Saved(d)'
    BY <1>1, <1>2, <1>3, <1>4, <1>6, <1>7 DEF Pushed, Based, Saved
  <1> QED BY <1>4, <1>6, <1>7, <1>8, <1>9, OverwriteKeeps

LEMMA RestoreKeeps ==
  ASSUME IInv, NEW d \in Devices, RestoreRecovery(d)
  PROVE  IInv'
  <1>1. TypeOK /\ Pushed(d) /\ Saved(d) /\ Based(d)
    BY DEF IInv, ConfirmedBase, Based
  <1>2. PICK snapshot \in recovery[d] :
          /\ profile' = [profile EXCEPT ![d] = snapshot.profile]
          /\ active' = [active EXCEPT ![d] = snapshot.active]
          /\ kept' = kept \cup {id \in Ids : /\ IsTombstone(active[d].entity[id])
                                           /\ ~IsTombstone(snapshot.active.entity[id])}
    BY Zenon DEF RestoreRecovery
  <1>3. snapshot \in [profile : [Ids -> Bodied], active : Envelopes]
    BY <1>1, <1>2 DEF TypeOK
  <1>4. /\ recovery' = [recovery EXCEPT ![d] = Keeping(d)]
        /\ paused' = [paused EXCEPT ![d] = TRUE]
        /\ moved' = moved \cup {d}
        /\ UNCHANGED <<remote, published, wire, base, journal>>
        /\ UNCHANGED <<draft, run, edited, write, imported>>
    BY DEF RestoreRecovery
  <1>5. budget' \in [{"edits", "faults", "resolves", "imports", "restores"} -> Nat]
    BY <1>1 DEF TypeOK, RestoreRecovery, Spend
  <1>6. /\ profile' \in [Devices -> [Ids -> Bodied]] /\ active' \in [Devices -> Envelopes]
        /\ \A e \in Devices \ {d} : active'[e] = active[e]
    BY <1>1, <1>2, <1>3 DEF TypeOK
  <1>7. /\ recovery' \in [Devices -> SUBSET [profile : [Ids -> Bodied], active : Envelopes]]
        /\ paused' \in [Devices -> BOOLEAN]
    BY <1>1, <1>4, KeepingType DEF TypeOK
  <1>8. TypeOK'
    BY <1>1, <1>2, <1>4, <1>5, <1>6, <1>7 DEF TypeOK
  <1>9. Pushed(d)' /\ Based(d)' /\ Saved(d)'
    BY <1>1, <1>4 DEF Pushed, Based, Saved
  <1> QED BY <1>4, <1>6, <1>8, <1>9, OverwriteKeeps

LEMMA ReconnectKeeps ==
  ASSUME IInv, NEW d \in Devices, Reconnect(d)
  PROVE  IInv'
  <1>1. TypeOK /\ Pushed(d) /\ Saved(d) /\ Based(d)
    BY DEF IInv, ConfirmedBase, Based
  <1>2. /\ base' = [base EXCEPT ![d] = remote]
        /\ active' = [active EXCEPT ![d] = remote]
        /\ paused' = [paused EXCEPT ![d] = FALSE]
        /\ moved' = moved \ {d} /\ run[d].pc = "idle"
        /\ UNCHANGED <<remote, published, wire, profile, journal, draft>>
        /\ UNCHANGED <<run, budget, edited, kept, write, imported, recovery>>
    BY DEF Reconnect
  <1>3. /\ base' \in [Devices -> Envelopes] /\ active' \in [Devices -> Envelopes]
        /\ base'[d] = remote /\ active'[d] = remote
        /\ \A e \in Devices \ {d} : base'[e] = base[e] /\ active'[e] = active[e]
        /\ paused' \in [Devices -> BOOLEAN]
    BY <1>1, <1>2 DEF TypeOK
  <1>4. TypeOK'
    BY <1>1, <1>2, <1>3 DEF TypeOK
  <1>5. remote \in published
    BY DEF IInv
  <1>6. Pushed(d)' /\ Based(d)' /\ Saved(d)'
    BY <1>1, <1>2, <1>3, <1>5 DEF Pushed, Based, Saved
  <1> QED BY <1>2, <1>3, <1>4, <1>6, OverwriteKeeps

LEMMA WriteBackKeeps ==
  ASSUME IInv, NEW d \in Devices, WriteBack(d)
  PROVE  IInv'
  <1>1. TypeOK /\ Pushed(d) /\ Saved(d) /\ Based(d)
    BY DEF IInv, ConfirmedBase, Based
  <1>2. /\ paused' = [paused EXCEPT ![d] = FALSE]
        /\ UNCHANGED <<remote, published, wire, profile, active, base, journal, draft>>
        /\ UNCHANGED <<run, budget, edited, kept, write, imported, recovery, moved>>
    BY DEF WriteBack
  <1>3. TypeOK'
    BY <1>1, <1>2 DEF TypeOK
  <1>4. Pushed(d)' /\ Based(d)' /\ Saved(d)'
    BY <1>1, <1>2 DEF Pushed, Based, Saved
  <1> QED BY <1>2, <1>3, <1>4, OverwriteKeeps

-----------------------------------------------------------------------------
(* The invariant *)

LEMMA InitKeeps == Init => IInv
  <1> SUFFICES ASSUME Init PROVE IInv
    OBVIOUS
  <1>1. \A d \in Devices : run[d] = Stopped("idle") /\ run[d] \in Runs /\ Shape(run[d])
    BY StoppedType DEF Init
  <1>2. Projection(Initial).entity \in [Ids -> Bodied]
    BY InitialAssumption, ProjectionType
  <1>3. TypeOK
    BY <1>1, <1>2, InitialAssumption, AttemptsAssumption, BoundsAssumption
       DEF Init, TypeOK, Requests, Phases, Optional, aside
  <1>4. \A d \in Devices : Merged(d) /\ Pushed(d)
    BY <1>1 DEF Merged, Pushed, Stopped, Pushing
  <1>5. ConfirmedBase
    BY DEF Init, ConfirmedBase
  <1>6. \A d \in Devices : Saved(d)
    BY DEF Init, Saved
  <1> QED BY <1>1, <1>3, <1>4, <1>5, <1>6 DEF Init, IInv

LEMMA NextKeeps == IInv /\ [Next]_vars => IInv'
  <1> SUFFICES ASSUME IInv, [Next]_vars PROVE IInv'
    OBVIOUS
  <1>1. CASE LateArrival
    BY <1>1, LateArrivalKeeps
  <1>2. ASSUME NEW d \in Devices, NEW id \in Ids, Edit(d, id)
        PROVE  IInv'
    BY <1>2, EditKeeps
  <1>3. ASSUME NEW d \in Devices, BeginSync(d)
        PROVE  IInv'
    BY <1>3, BeginKeeps DEF BeginSync
  <1>4. ASSUME NEW d \in Devices, BeginResolve(d)
        PROVE  IInv'
    BY <1>4, BeginResolveKeeps
  <1>5. ASSUME NEW d \in Devices, Step(d)
        PROVE  IInv'
    BY <1>5, ReadLocalKeeps, ReadRemoteKeeps, MoveKeeps, CommitLocalKeeps,
       PushCommittedKeeps, MismatchKeeps, ConfirmBaseKeeps, CompleteKeeps,
       EndingKeeps, AbortKeeps DEF Step
  <1>6. ASSUME NEW d \in Devices, Fault(d)
        PROVE  IInv'
    BY <1>6, PushLostKeeps, EndingKeeps, CrashKeeps DEF Fault
  <1>7. ASSUME NEW d \in Devices, Start(d)
        PROVE  IInv'
    BY <1>7, StartKeeps
  <1>8. ASSUME NEW d \in Devices, Overwrite(d)
        PROVE  IInv'
    BY <1>8, ImportKeeps, RestoreKeeps, ReconnectKeeps, WriteBackKeeps DEF Overwrite
  <1>9. CASE UNCHANGED vars
    <2>1. TypeOK' /\ ConfirmedBase' /\ (\A request \in wire : KeepsChanges(request))'
      BY <1>9 DEF IInv, TypeOK, ConfirmedBase, KeepsChanges, vars, aside
    <2>2. (\A e \in Devices : Shape(run[e]) /\ Merged(e) /\ Pushed(e))'
      BY <1>9, Frame DEF vars, aside
    <2>3. (\A e \in Devices : Saved(e))'
      BY <1>9, SavedStays DEF vars, aside
    <2>4. (remote \in published)'
      BY <1>9 DEF vars, IInv
    <2> QED BY <2>1, <2>2, <2>3, <2>4 DEF IInv
  <1> QED BY <1>1, <1>2, <1>3, <1>4, <1>5, <1>6, <1>7, <1>8, <1>9 DEF Next

LEMMA Invariance == Spec => []IInv
  BY InitKeeps, NextKeeps, PTL DEF Spec

-----------------------------------------------------------------------------
(* The theorems *)

\* Every variable keeps its type in every behaviour (the records cas-service.ts
\* and indexed-db-store.ts write are records their readers accept).
THEOREM TypeCorrect == Spec => []TypeOK
  <1>1. IInv => TypeOK
    BY DEF IInv
  <1> QED BY Invariance, <1>1, PTL

\* A device's base is a content the remote has held, and a completed journal vouches for
\* base and active envelope together, until the device imports a file, undoes an import or
\* restores a snapshot; its next confirmation makes both true again.
THEOREM BaseIsConfirmed == Spec => []ConfirmedBase
  <1>1. IInv => ConfirmedBase
    BY DEF IInv
  <1> QED BY Invariance, <1>1, PTL

\* What the user writes over the records of a device is neither in its run nor remote.
LEMMA OverwriteLeaves ==
  ASSUME NEW d \in Devices, Overwrite(d)
  PROVE  /\ remote' = remote /\ published' = published /\ wire' = wire
         /\ run' = run /\ journal' = journal /\ draft' = draft
  BY DEF Overwrite, Import, UndoImport, RestoreRecovery, Reconnect, WriteBack

\* No conditional write, however late it arrives, undoes a change of the remote
\* that its sender had not seen or had not been asked about.
THEOREM NoUpdateIsLost == Spec => NoLostUpdate
  <1>1. IInv /\ [Next]_vars =>
          (remote' # remote =>
             write'.expected = remote /\ write'.envelope = remote' /\ KeepsChanges(write'))
    <2> SUFFICES ASSUME IInv, [Next]_vars, remote' # remote
                 PROVE  /\ write'.expected = remote /\ write'.envelope = remote'
                        /\ KeepsChanges(write')
      OBVIOUS
    <2>1. PICK request : Applies(request) /\ Apply(request) /\ KeepsChanges(request)
      <3>1. CASE LateArrival
        BY <3>1 DEF LateArrival, IInv
      <3>2. ASSUME NEW d \in Devices, PushCommitted(d)
            PROVE  Applies(Request(d)) /\ Apply(Request(d)) /\ KeepsChanges(Request(d))
        BY <3>2, RequestType DEF PushCommitted
      <3>3. LateArrival \/ \E d \in Devices : PushCommitted(d)
        BY OverwriteLeaves
           DEF Next, vars, durable, Edit, BeginSync, BeginResolve, Step, Fault, Start,
               Abort, ReadLocal, LocalReadFails, ReadRemote, AdoptDraft, Validate, CommitLocal,
               CommitRefused, DraftConflict, RecordConflict, MarkPush, PushMismatch,
               Confirm, ConfirmMismatch, ConfirmBase, Complete, ClearDraft, PushLost,
               TransportFails, Crash
      <3> QED BY <3>1, <3>2, <3>3
    <2> QED BY <2>1 DEF Applies, Apply
  <1> QED BY Invariance, <1>1, PTL DEF Spec, NoLostUpdate

-----------------------------------------------------------------------------
(* The journal: where a run stands says what its journal holds *)

Track(d) ==
  /\ Active(d) => journal[d].attempt <= run[d].attempt
  /\ run[d].pc \in Reading => journal[d].phase \in {"started", "push-attempted"}
  /\ run[d].pc = "adopt" => journal[d].phase = "started"
  /\ run[d].pc = "validate" => journal[d].phase = "remote-read"
  /\ run[d].pc \in {"merge", "conflict"} => journal[d].phase = "validated"
  /\ run[d].pc = "markPush" => journal[d].phase = "local-committed"
  /\ run[d].pc \in {"push", "confirm"} => journal[d].phase = "push-attempted"
  /\ run[d].pc \in {"confirmBase", "complete"} => journal[d].phase = "remote-confirmed"

Legal(d) ==
  journal'[d] # journal[d] =>
    \/ journal'[d] = [phase |-> "started", attempt |-> 0]
    \/ /\ journal'[d].phase \in transitions[journal[d].phase]
       /\ journal'[d].attempt >= journal[d].attempt

JInv == IInv /\ \A d \in Devices : Track(d)

\* A phase may follow another one when the table says so.
LEMMA Followers ==
  /\ {"remote-read", "degraded"} \subseteq transitions["started"]
  /\ {"validated", "degraded"} \subseteq transitions["remote-read"]
  /\ {"local-committed", "conflict", "degraded"} \subseteq transitions["validated"]
  /\ {"push-attempted", "degraded"} \subseteq transitions["local-committed"]
  /\ {"remote-confirmed", "remote-read", "conflict", "degraded"}
       \subseteq transitions["push-attempted"]
  /\ {"completed", "degraded"} \subseteq transitions["remote-confirmed"]
  BY DEF transitions, Phases

\* What an operation writes, if it starts no record, follows what is recorded.
LEMMA AdvanceLegal ==
  ASSUME TypeOK, NEW d \in Devices, NEW phase, Advance(d, phase), Active(d), Track(d),
         phase \in transitions[journal[d].phase]
  PROVE  /\ Legal(d) /\ journal'[d].phase = phase
         /\ journal'[d].attempt = run[d].attempt
         /\ \A e \in Devices \ {d} : journal'[e] = journal[e]
  <1>1. /\ journal \in [Devices -> [phase : Phases, attempt : 0 .. MaxAttempts]]
        /\ run[d].attempt \in 0 .. MaxAttempts
        /\ journal[d].attempt \in 0 .. MaxAttempts /\ journal[d].attempt <= run[d].attempt
    BY DEF TypeOK, Runs, Track, aside
  <1> QED BY <1>1, AttemptsAssumption DEF Advance, Legal

\* A step of d leaves the journal and the run of the others alone.
LEMMA TrackFrame ==
  ASSUME NEW e \in Devices, Track(e), run'[e] = run[e], journal'[e] = journal[e]
  PROVE  Legal(e) /\ Track(e)'
  BY DEF Legal, Track, Active

LEMMA TrackOne ==
  ASSUME JInv, NEW d \in Devices, Legal(d), Track(d)',
         \A e \in Devices \ {d} : run'[e] = run[e] /\ journal'[e] = journal[e]
  PROVE  \A e \in Devices : Legal(e) /\ Track(e)'
  <1> SUFFICES ASSUME NEW e \in Devices PROVE Legal(e) /\ Track(e)'
    OBVIOUS
  <1>1. CASE e = d
    BY <1>1
  <1>2. CASE e # d
    BY <1>2, TrackFrame DEF JInv
  <1> QED BY <1>1, <1>2

\* An operation that moves on, with or without a word in its journal.
LEMMA GoTracks ==
  ASSUME JInv, NEW d \in Devices, NEW pc \in PCs, Active(d),
         run'[d].pc = pc, run'[d].attempt = run[d].attempt,
         \A e \in Devices \ {d} : run'[e] = run[e],
         \/ UNCHANGED journal
         \/ \E phase \in transitions[journal[d].phase] : Advance(d, phase),
         pc \in Reading => journal'[d].phase \in {"started", "push-attempted"},
         pc # "adopt",
         pc = "validate" => journal'[d].phase = "remote-read",
         pc \in {"merge", "conflict"} => journal'[d].phase = "validated",
         pc = "markPush" => journal'[d].phase = "local-committed",
         pc \in {"push", "confirm"} => journal'[d].phase = "push-attempted",
         pc \in {"confirmBase", "complete"} => journal'[d].phase = "remote-confirmed"
  PROVE  \A e \in Devices : Legal(e) /\ Track(e)'
  <1>1. TypeOK /\ Track(d)
    BY DEF JInv, IInv
  <1>2. CASE UNCHANGED journal
    <2>1. Legal(d) /\ Track(d)'
      BY <1>1, <1>2 DEF Legal, Track, Active
    <2> QED BY <1>2, <2>1, TrackOne
  <1>3. CASE \E phase \in transitions[journal[d].phase] : Advance(d, phase)
    <2>1. PICK phase \in transitions[journal[d].phase] : Advance(d, phase)
      BY <1>3
    <2>2. /\ Legal(d) /\ journal'[d].attempt = run[d].attempt
          /\ \A e \in Devices \ {d} : journal'[e] = journal[e]
      BY <1>1, <2>1, AdvanceLegal
    <2>3. journal'[d].attempt <= run'[d].attempt
      BY <1>1, <2>2 DEF TypeOK, Runs, aside
    <2>4. Track(d)'
      BY <2>3 DEF Track, Active
    <2> QED BY <2>2, <2>4, TrackOne
  <1> QED BY <1>2, <1>3

\* An operation that ends.
LEMMA EndTracks ==
  ASSUME JInv, NEW d \in Devices, NEW pc \in {"idle", "down"},
         run' = [run EXCEPT ![d] = Stopped(pc)],
         \/ UNCHANGED journal
         \/ Active(d) /\ \E phase \in transitions[journal[d].phase] : Advance(d, phase)
  PROVE  \A e \in Devices : Legal(e) /\ Track(e)'
  <1>1. TypeOK /\ Track(d)
    BY DEF JInv, IInv
  <1>2. /\ run'[d].pc = pc
        /\ \A e \in Devices \ {d} : run'[e] = run[e]
    BY <1>1 DEF TypeOK, Stopped, aside
  <1>3. Track(d)'
    BY <1>2 DEF Track, Active, Reading
  <1>4. CASE UNCHANGED journal
    BY <1>2, <1>3, <1>4, TrackOne DEF Legal
  <1>5. CASE Active(d) /\ \E phase \in transitions[journal[d].phase] : Advance(d, phase)
    BY <1>1, <1>2, <1>3, <1>5, AdvanceLegal, TrackOne
  <1> QED BY <1>4, <1>5

\* An operation that begins.
LEMMA BeginTracks ==
  ASSUME JInv, NEW d \in Devices, Begin(d) \/ BeginResolve(d)
  PROVE  \A e \in Devices : Legal(e) /\ Track(e)'
  <1>1. TypeOK
    BY DEF JInv, IInv
  <1>2. /\ journal'[d] = [phase |-> "started", attempt |-> 0]
        /\ \A e \in Devices \ {d} : journal'[e] = journal[e]
    BY <1>1 DEF TypeOK, Begin, BeginResolve, aside
  <1>3. /\ run'[d].pc \in {"readLocal", "adopt"} /\ run'[d].attempt = 1
        /\ \A e \in Devices \ {d} : run'[e] = run[e]
    <2>1. CASE Begin(d)
      BY <1>1, <2>1 DEF TypeOK, Begin, Syncing, aside
    <2>2. CASE BeginResolve(d)
      <3>1. \E r : r.pc = "adopt" /\ r.attempt = 1 /\ run' = [run EXCEPT ![d] = r]
        BY <2>2 DEF BeginResolve, Resolving
      <3> QED BY <1>1, <3>1 DEF TypeOK, aside
    <2> QED BY <2>1, <2>2
  <1>4. Legal(d) /\ Track(d)'
    BY <1>2, <1>3 DEF Legal, Track, Reading
  <1> QED BY <1>2, <1>3, <1>4, TrackOne

LEMMA NextAttemptTracks ==
  ASSUME JInv, NEW d \in Devices, NextAttempt(d), run[d].pc \in {"push", "confirm"}
  PROVE  \A e \in Devices : Legal(e) /\ Track(e)'
  <1>1. TypeOK /\ Track(d) /\ journal[d].phase = "push-attempted" /\ Active(d)
    BY DEF JInv, IInv, Track, Active
  <1>2. CASE /\ run[d].attempt < MaxAttempts
             /\ run' = [run EXCEPT ![d].pc = "readLocal", ![d].attempt = @ + 1]
             /\ UNCHANGED journal
    <2>1. /\ run'[d].pc = "readLocal" /\ run'[d].attempt = run[d].attempt + 1
          /\ \A e \in Devices \ {d} : run'[e] = run[e]
      BY <1>1, <1>2 DEF TypeOK, Runs, aside
    <2>2. journal[d].attempt <= run[d].attempt + 1
      BY <1>1, AttemptsAssumption DEF TypeOK, Runs, Track, aside
    <2>3. Legal(d) /\ Track(d)'
      BY <1>1, <1>2, <2>1, <2>2 DEF Legal, Track, Active, Reading
    <2> QED BY <1>2, <2>1, <2>3, TrackOne
  <1>3. CASE Degrade(d)
    BY <1>1, <1>3, Followers, EndTracks DEF Degrade, Stop
  <1> QED BY <1>2, <1>3 DEF NextAttempt

LEMMA StepTracks ==
  ASSUME JInv, NEW d \in Devices, Step(d)
  PROVE  \A e \in Devices : Legal(e) /\ Track(e)'
  <1>1. /\ TypeOK /\ Track(d) /\ run[d] \in Runs /\ run[d].attempt \in 0 .. MaxAttempts
        /\ journal \in [Devices -> [phase : Phases, attempt : 0 .. MaxAttempts]]
    BY DEF JInv, IInv, TypeOK, Runs, aside
  <1>2. ASSUME NEW pc \in PCs, Go(d, pc)
        PROVE  /\ run'[d].pc = pc /\ run'[d].attempt = run[d].attempt
               /\ \A e \in Devices \ {d} : run'[e] = run[e]
    BY <1>1, <1>2, GoType
  <1>3. ASSUME NEW phase, Advance(d, phase) PROVE journal'[d].phase = phase
    BY <1>1, <1>3 DEF Advance
  <1>4. CASE ReadLocal(d)
    <2>1. /\ run'[d].pc = "readRemote" /\ run'[d].attempt = run[d].attempt
          /\ \A e \in Devices \ {d} : run'[e] = run[e]
      BY <1>1, <1>4 DEF ReadLocal, TypeOK, Runs, aside
    <2> QED BY <1>1, <1>4, <2>1, GoTracks
            DEF ReadLocal, durable, Active, PCs, Reading, Track, aside
  <1>5. CASE LocalReadFails(d) \/ CommitRefused(d) \/ ClearDraft(d)
    BY <1>5, EndTracks DEF LocalReadFails, CommitRefused, ClearDraft, Stop, durable, aside
  <1>6. CASE ReadRemote(d)
    <2>1. /\ run'[d].pc = "validate" /\ run'[d].attempt = run[d].attempt
          /\ \A e \in Devices \ {d} : run'[e] = run[e]
      BY <1>1, <1>6 DEF ReadRemote, TypeOK, Runs, aside
    <2>2. "remote-read" \in transitions[journal[d].phase] /\ Active(d)
      BY <1>1, <1>6, Followers DEF ReadRemote, Track, Reading, Active
    <2> QED BY <1>3, <1>6, <2>1, <2>2, GoTracks DEF ReadRemote, PCs, Reading
  <1>7. CASE AdoptDraft(d)
    <2>1. "remote-read" \in transitions[journal[d].phase] /\ Active(d) /\ "validate" \in PCs
      BY <1>1, <1>7, Followers DEF AdoptDraft, Track, Active, PCs
    <2> QED BY <1>2, <1>3, <1>7, <2>1, GoTracks DEF AdoptDraft, Reading
  <1>8. CASE Validate(d)
    <2>1. "validated" \in transitions[journal[d].phase] /\ Active(d) /\ "merge" \in PCs
      BY <1>1, <1>8, Followers DEF Validate, Track, Active, PCs
    <2> QED BY <1>2, <1>3, <1>8, <2>1, GoTracks DEF Validate, Reading
  <1>9. CASE CommitLocal(d)
    <2>1. /\ run'[d].pc = "markPush" /\ run'[d].attempt = run[d].attempt
          /\ \A e \in Devices \ {d} : run'[e] = run[e]
      BY <1>1, <1>9 DEF CommitLocal, TypeOK, Runs, aside
    <2>2. "local-committed" \in transitions[journal[d].phase] /\ Active(d)
      BY <1>1, <1>9, Followers DEF CommitLocal, Track, Active
    <2> QED BY <1>3, <1>9, <2>1, <2>2, GoTracks DEF CommitLocal, PCs, Reading
  <1>10. CASE DraftConflict(d)
    <2>1. Active(d) /\ "conflict" \in PCs /\ journal[d].phase = "validated"
      BY <1>1, <1>10 DEF DraftConflict, Track, Active, PCs
    <2> QED BY <1>2, <1>10, <2>1, GoTracks DEF DraftConflict, Reading
  <1>11. CASE RecordConflict(d)
    <2>1. "conflict" \in transitions[journal[d].phase] /\ Active(d)
      BY <1>1, <1>11, Followers DEF RecordConflict, Track, Active
    <2> QED BY <1>11, <2>1, EndTracks DEF RecordConflict, Stop
  <1>12. CASE MarkPush(d)
    <2>1. "push-attempted" \in transitions[journal[d].phase] /\ Active(d) /\ "push" \in PCs
      BY <1>1, <1>12, Followers DEF MarkPush, Track, Active, PCs
    <2> QED BY <1>2, <1>3, <1>12, <2>1, GoTracks DEF MarkPush, Reading
  <1>13. CASE PushCommitted(d)
    <2>1. Active(d) /\ "confirm" \in PCs /\ journal[d].phase = "push-attempted"
      BY <1>1, <1>13 DEF PushCommitted, Track, Active, PCs
    <2> QED BY <1>2, <1>13, <2>1, GoTracks DEF PushCommitted, Reading, durable, aside
  <1>14. CASE PushMismatch(d) \/ ConfirmMismatch(d)
    <2>1. run[d].pc \in {"push", "confirm"} /\ Active(d)
            /\ {"conflict", "degraded"} \subseteq transitions[journal[d].phase]
      BY <1>1, <1>14, Followers DEF PushMismatch, ConfirmMismatch, Track, Active
    <2>2. CASE NextAttempt(d)
      BY <2>1, <2>2, NextAttemptTracks
    <2>3. CASE (Advance(d, "conflict") \/ Advance(d, "degraded")) /\ Stop(d)
      BY <2>1, <2>3, EndTracks DEF Stop
    <2> QED BY <1>14, <2>2, <2>3 DEF PushMismatch, ConfirmMismatch, Degrade
  <1>15. CASE Confirm(d)
    <2>1. "remote-confirmed" \in transitions[journal[d].phase] /\ Active(d)
            /\ "confirmBase" \in PCs
      BY <1>1, <1>15, Followers DEF Confirm, Track, Active, PCs
    <2> QED BY <1>2, <1>3, <1>15, <2>1, GoTracks DEF Confirm, Reading
  <1>16. CASE ConfirmBase(d)
    <2>1. Active(d) /\ "complete" \in PCs /\ journal[d].phase = "remote-confirmed"
      BY <1>1, <1>16 DEF ConfirmBase, Track, Active, PCs
    <2> QED BY <1>2, <1>16, <2>1, GoTracks DEF ConfirmBase, Reading
  <1>17. CASE Complete(d)
    <2>1. "completed" \in transitions[journal[d].phase] /\ Active(d) /\ "clearDraft" \in PCs
      BY <1>1, <1>17, Followers DEF Complete, Track, Active, PCs
    <2>2. CASE Stop(d)
      BY <1>17, <2>1, <2>2, EndTracks DEF Complete, Stop
    <2>3. CASE Go(d, "clearDraft")
      BY <1>2, <1>17, <2>1, <2>3, GoTracks DEF Complete, Reading
    <2> QED BY <1>17, <2>2, <2>3 DEF Complete
  <1>18. CASE Abort(d)
    <2>1. "degraded" \in transitions[journal[d].phase] /\ Active(d)
      BY <1>1, <1>18, Followers DEF Abort, Track, Active, Reading
    <2>2. CASE Degrade(d)
      BY <2>1, <2>2, EndTracks DEF Degrade, Stop
    <2>3. CASE Stop(d) /\ UNCHANGED journal
      BY <2>3, EndTracks DEF Stop
    <2> QED BY <1>18, <2>2, <2>3 DEF Abort
  <1> QED BY <1>4, <1>5, <1>6, <1>7, <1>8, <1>9, <1>10, <1>11, <1>12, <1>13,
          <1>14, <1>15, <1>16, <1>17, <1>18 DEF Step

LEMMA NextTracks ==
  ASSUME JInv, [Next]_vars
  PROVE  JInv' /\ \A e \in Devices : Legal(e)
  <1>1. IInv'
    BY NextKeeps DEF JInv
  <1>2. \A e \in Devices : Legal(e) /\ Track(e)'
    <2>1. CASE UNCHANGED <<run, journal>>
      BY <2>1 DEF JInv, Legal, Track, Active
    <2>2. ASSUME NEW d \in Devices, BeginSync(d) \/ BeginResolve(d)
          PROVE  \A e \in Devices : Legal(e) /\ Track(e)'
      BY <2>2, BeginTracks DEF BeginSync
    <2>3. ASSUME NEW d \in Devices, Step(d)
          PROVE  \A e \in Devices : Legal(e) /\ Track(e)'
      BY <2>3, StepTracks
    <2>4. ASSUME NEW d \in Devices, Fault(d)
          PROVE  \A e \in Devices : Legal(e) /\ Track(e)'
      <3>1. CASE Degrade(d) /\ run[d].pc \in {"readRemote", "validate", "push", "confirm"}
        <4>1. "degraded" \in transitions[journal[d].phase] /\ Active(d)
          BY <3>1, Followers DEF JInv, Track, Reading, Active
        <4> QED BY <3>1, <4>1, EndTracks DEF Degrade, Stop
      <3>2. CASE PushLost(d)
        BY <2>1, <3>1, <3>2 DEF PushLost
      <3>3. CASE TransportFails(d)
        BY <3>1, <3>3 DEF TransportFails
      <3>4. CASE Crash(d)
        BY <3>4, EndTracks DEF Crash, durable, aside
      <3> QED BY <2>4, <3>2, <3>3, <3>4 DEF Fault
    <2>5. ASSUME NEW d \in Devices, Start(d)
          PROVE  \A e \in Devices : Legal(e) /\ Track(e)'
      <3>1. CASE Begin(d)
        BY <3>1, BeginTracks
      <3>2. CASE Stop(d) /\ UNCHANGED journal
        BY <3>2, EndTracks DEF Stop
      <3> QED BY <2>5, <3>1, <3>2 DEF Start
    <2>6. ASSUME NEW d \in Devices, Overwrite(d)
          PROVE  \A e \in Devices : Legal(e) /\ Track(e)'
      BY <2>1, <2>6, OverwriteLeaves
    <2> QED BY <2>1, <2>2, <2>3, <2>4, <2>5, <2>6 DEF Next, vars, LateArrival, Edit, durable
  <1> QED BY <1>1, <1>2 DEF JInv

\* No operation, however runs, crashes, restarts and resolutions interleave, asks
\* advanceSyncJournal (journal.ts) for a transition it refuses.
THEOREM JournalIsLegal == Spec => JournalLegal
  <1>1. Init => JInv
    <2> SUFFICES ASSUME Init PROVE JInv
      OBVIOUS
    <2>1. \A d \in Devices : Track(d)
      BY DEF Init, Stopped, Track, Active, Reading
    <2> QED BY <2>1, InitKeeps DEF JInv
  <1>2. JInv /\ [Next]_vars => JInv'
    BY NextTracks
  <1>3. JInv /\ [Next]_vars =>
          \A d \in Devices :
            journal'[d] # journal[d] =>
              \/ journal'[d] = [phase |-> "started", attempt |-> 0]
              \/ /\ journal'[d].phase \in transitions[journal[d].phase]
                 /\ journal'[d].attempt >= journal[d].attempt
    BY NextTracks DEF Legal
  <1> QED BY <1>1, <1>2, <1>3, PTL DEF Spec, JournalLegal

-----------------------------------------------------------------------------
(* Deletions.  What an envelope says was deleted stays so in every envelope   *)
(* derived from it, but for the exempt ids: from the known base, the base an  *)
(* undo brings back and the recovery snapshots to the active envelope of the  *)
(* device, from there to what a run holds, and to the remote.  A file says    *)
(* nothing of deletions, so it may become the base at any time.               *)

Follows(exempt, older, newer) ==
  \A id \in Ids \ exempt : IsTombstone(older.entity[id]) => IsTombstone(newer.entity[id])

\* The envelopes a device keeps beside its active one, which is present.
KeptFollow(exempt, known, replaced, snapshots, present) ==
  /\ Follows(exempt, known, present)
  /\ replaced # None => Follows(exempt, replaced.base, present)
  /\ \A snapshot \in snapshots : Follows(exempt, snapshot.active, present)

\* What a run r holds, on a device whose active envelope is present.
RunFollows(exempt, r, present) ==
  /\ (r.kind = "sync" /\ r.pc \in PCs \ {"idle", "down"}) => Follows(exempt, r.base, present)
  /\ (r.kind = "sync" /\ r.pc \in {"readRemote", "validate", "merge", "conflict"}) =>
       Follows(exempt, present, r.local)
  /\ (r.kind = "sync" /\ r.pc \in {"validate", "merge", "conflict"}) =>
       Follows(exempt, r.base, r.remote)
  /\ (\/ r.pc \in Pushing
      \/ r.kind = "resolve" /\ r.pc \in PCs \ {"idle", "down"}) =>
       Follows(exempt, r.remote, r.candidate) /\ Follows(exempt, present, r.candidate)

DraftFollows(exempt, conflict) ==
  conflict # None =>
    /\ Follows(exempt, conflict.base, conflict.local)
    /\ Follows(exempt, conflict.base, conflict.remote)

\* The base of a run was the base of the device when it began.
RunBased(r, held) ==
  (r.kind = "sync" /\ r.pc \in PCs \ {"idle", "down"}) => r.base \in held \cup Files

DeviceFollows(d) ==
  /\ KeptFollow(kept, base[d], imported[d], recovery[d], active[d])
  /\ DraftFollows(kept, draft[d])
  /\ RunFollows(kept, run[d], active[d])
  /\ RunBased(run[d], published)

DInv ==
  /\ IInv
  /\ \A content \in published : Follows(kept, content, remote)
  /\ \A request \in wire : Follows(kept, request.expected, request.envelope)
  /\ \A d \in Devices : DeviceFollows(d)

LEMMA FollowsItself == \A S, x : Follows(S, x, x)
  BY DEF Follows

LEMMA FollowsOn ==
  ASSUME NEW S, NEW x, NEW y, NEW z, Follows(S, x, y), Follows(S, y, z)
  PROVE  Follows(S, x, z)
  BY DEF Follows

\* What was let go of stays so.
LEMMA FollowsGrows ==
  ASSUME NEW S, NEW T, S \subseteq T
  PROVE  /\ \A x, y : Follows(S, x, y) => Follows(T, x, y)
         /\ \A b, i, s, x : KeptFollow(S, b, i, s, x) => KeptFollow(T, b, i, s, x)
         /\ \A c : DraftFollows(S, c) => DraftFollows(T, c)
         /\ \A r, x : RunFollows(S, r, x) => RunFollows(T, r, x)
  <1>1. \A x, y : Follows(S, x, y) => Follows(T, x, y)
    BY DEF Follows
  <1>2. \A b, i, s, x : KeptFollow(S, b, i, s, x) => KeptFollow(T, b, i, s, x)
    BY <1>1 DEF KeptFollow
  <1>3. \A c : DraftFollows(S, c) => DraftFollows(T, c)
    BY <1>1 DEF DraftFollows
  <1>4. \A r, x : RunFollows(S, r, x) => RunFollows(T, r, x)
    BY <1>1 DEF RunFollows
  <1> QED BY <1>1, <1>2, <1>3, <1>4

\* A file deletes nothing.
LEMMA FileFollowed ==
  ASSUME NEW S, NEW file \in Files, NEW x
  PROVE  Follows(S, file, x)
  <1>1. ASSUME NEW id \in Ids
        PROVE  ~IsTombstone(file.entity[id])
    <2>1. file \in Envelopes /\ Projection(file) = file
      BY FilesAssumption
    <2>2. Projection(file).entity[id]
            = IF IsValue(file.entity[id]) THEN file.entity[id] ELSE Absent
      BY <2>1 DEF Projection, Envelopes
    <2> QED BY <2>1, <2>2 DEF IsTombstone, IsValue, Absent
  <1> QED BY <1>1 DEF Follows

\* The remote follows whatever it has held, and every file.
LEMMA HeldFollowed ==
  ASSUME DInv, NEW e \in published \cup Files
  PROVE  Follows(kept, e, remote)
  BY FileFollowed DEF DInv

\* A merged state without a conflict follows both sides.
LEMMA MergedStateFollows ==
  ASSUME NEW b, NEW l, NEW r, ~ConflictingState(b, l, r),
         IsTombstone(b) => IsTombstone(l) /\ IsTombstone(r),
         NEW s, s = MergedState(b, l, r)
  PROVE  IsTombstone(l) \/ IsTombstone(r) => IsTombstone(s)
  <1>1. \A x, y : EqualState(x, y) => (IsTombstone(x) <=> IsTombstone(y))
    BY DEF EqualState
  <1>2. \/ s = r /\ EqualState(b, l)
        \/ s = l /\ (EqualState(l, r) \/ EqualState(b, r))
    BY DEF MergedState, ConflictingState
  <1> QED BY <1>1, <1>2

\* A clean merge of what follows the base follows both sides.
LEMMA MergeFollows ==
  ASSUME NEW S, NEW b \in Envelopes, NEW l \in Envelopes, NEW r \in Envelopes,
         Mergeable(b, l, r), Follows(S, b, l), Follows(S, b, r)
  PROVE  Follows(S, l, Merge(b, l, r)) /\ Follows(S, r, Merge(b, l, r))
  <1>1. ASSUME NEW id \in Ids \ S
        PROVE  IsTombstone(l.entity[id]) \/ IsTombstone(r.entity[id])
                 => IsTombstone(Merge(b, l, r).entity[id])
    <2>1. Merge(b, l, r).entity[id]
            = MergedState(b.entity[id], l.entity[id], r.entity[id])
      BY DEF Merge, Envelopes
    <2>2. ~ConflictingState(b.entity[id], l.entity[id], r.entity[id])
      BY DEF Mergeable, ConflictIds
    <2>3. IsTombstone(b.entity[id]) => IsTombstone(l.entity[id]) /\ IsTombstone(r.entity[id])
      BY DEF Follows
    <2> QED BY <2>1, <2>2, <2>3, MergedStateFollows
  <1> QED BY <1>1 DEF Follows

\* A resolution follows the remote of its draft, but for the ids the user chose.
LEMMA ResolveFollows ==
  ASSUME NEW S, NEW b \in Envelopes, NEW l \in Envelopes, NEW r \in Envelopes,
         NEW resolutions \in [ConflictIds(b, l, r) -> Choices],
         Follows(S, b, l), Follows(S, b, r),
         \A id \in DOMAIN resolutions :
           ~IsTombstone(Resolve(b, l, r, resolutions).entity[id]) => id \in S
  PROVE  Follows(S, r, Resolve(b, l, r, resolutions))
  <1>1. ASSUME NEW id \in Ids \ S, id \notin DOMAIN resolutions, IsTombstone(r.entity[id])
        PROVE  IsTombstone(Resolve(b, l, r, resolutions).entity[id])
    <2>1. Resolve(b, l, r, resolutions).entity[id]
            = MergedState(b.entity[id], l.entity[id], r.entity[id])
      BY <1>1 DEF Resolve, Envelopes
    <2>2. ~ConflictingState(b.entity[id], l.entity[id], r.entity[id])
      BY <1>1 DEF ConflictIds
    <2>3. IsTombstone(b.entity[id]) => IsTombstone(l.entity[id]) /\ IsTombstone(r.entity[id])
      BY DEF Follows
    <2> QED BY <1>1, <2>1, <2>2, <2>3, MergedStateFollows
  <1> QED BY <1>1 DEF Follows

\* What a run reads of its device follows the active envelope.
LEMMA ReconcileFollows ==
  ASSUME NEW S, NEW previous \in Envelopes, NEW projection \in Envelopes, NEW at,
         Reconcilable(previous, projection)
  PROVE  Follows(S, previous, Reconcile(previous, projection, at))
  BY ReconcileKeepsTombstones DEF Follows

\* What follows the active envelope follows all that the device keeps.
LEMMA KeptFollowOn ==
  ASSUME NEW S, NEW b, NEW i, NEW s, NEW x, NEW y,
         KeptFollow(S, b, i, s, x), Follows(S, x, y)
  PROVE  KeptFollow(S, b, i, s, y)
  BY FollowsOn DEF KeptFollow

-----------------------------------------------------------------------------
(* Steps: a device other than d keeps what deletions depend on. *)

Others(d) ==
  \A e \in Devices \ {d} :
    /\ run'[e] = run[e] /\ base'[e] = base[e] /\ active'[e] = active[e]
    /\ draft'[e] = draft[e] /\ imported'[e] = imported[e] /\ recovery'[e] = recovery[e]

\* A step of d that keeps the remote and lets go of nothing more, or of more.
LEMMA DeviceKeeps ==
  ASSUME DInv, IInv', NEW d \in Devices, Others(d),
         UNCHANGED <<remote, published>>, kept \subseteq kept',
         \A request \in wire' :
           request \in wire \/ Follows(kept, request.expected, request.envelope),
         KeptFollow(kept', base'[d], imported'[d], recovery'[d], active'[d]),
         DraftFollows(kept', draft'[d]),
         RunFollows(kept', run'[d], active'[d]),
         RunBased(run'[d], published)
  PROVE  DInv'
  <1>1. ASSUME NEW e \in Devices
        PROVE  DeviceFollows(e)'
    <2>1. CASE e = d
      BY <2>1 DEF DeviceFollows
    <2>2. CASE e # d
      <3>1. DeviceFollows(e)
        BY DEF DInv
      <3>2. /\ KeptFollow(kept', base[e], imported[e], recovery[e], active[e])
            /\ DraftFollows(kept', draft[e]) /\ RunFollows(kept', run[e], active[e])
            /\ RunBased(run[e], published)
        BY <3>1, FollowsGrows DEF DeviceFollows
      <3> QED BY <2>2, <3>2 DEF DeviceFollows, Others
    <2> QED BY <2>1, <2>2
  <1>2. /\ \A content \in published : Follows(kept', content, remote)
        /\ \A request \in wire' : Follows(kept', request.expected, request.envelope)
    BY FollowsGrows DEF DInv
  <1>3. /\ (\A content \in published : Follows(kept, content, remote))'
        /\ (\A request \in wire : Follows(kept, request.expected, request.envelope))'
    BY <1>2
  <1> QED BY <1>1, <1>3 DEF DInv

\* A step of d that changes its run only.
LEMMA RunKeeps ==
  ASSUME DInv, IInv', NEW d \in Devices,
         \A e \in Devices \ {d} : run'[e] = run[e],
         UNCHANGED <<remote, published, kept, base, active>>,
         UNCHANGED <<imported, recovery>>,
         draft' = draft \/ \E c : draft' = [draft EXCEPT ![d] = c] /\ DraftFollows(kept, c),
         \A request \in wire' :
           request \in wire \/ Follows(kept, request.expected, request.envelope),
         RunFollows(kept, run'[d], active[d]),
         RunBased(run'[d], published)
  PROVE  DInv'
  <1>1. DeviceFollows(d) /\ TypeOK
    BY DEF DInv, IInv
  <1>2. DraftFollows(kept, draft'[d]) /\ \A e \in Devices \ {d} : draft'[e] = draft[e]
    BY <1>1 DEF DeviceFollows, TypeOK
  <1>3. KeptFollow(kept', base'[d], imported'[d], recovery'[d], active'[d])
    BY <1>1 DEF DeviceFollows
  <1>4. Others(d)
    BY <1>2 DEF Others
  <1> QED BY <1>2, <1>3, <1>4, DeviceKeeps

\* A step that ends the operation of d.
LEMMA EndFollows ==
  ASSUME DInv, IInv', NEW d \in Devices, NEW pc \in {"idle", "down"},
         run' = [run EXCEPT ![d] = Stopped(pc)],
         UNCHANGED <<remote, published, kept, base, active>>,
         UNCHANGED <<imported, recovery>>,
         draft' = draft \/ draft' = [draft EXCEPT ![d] = None],
         \A request \in wire' :
           request \in wire \/ Follows(kept, request.expected, request.envelope)
  PROVE  DInv'
  <1>1. run'[d] = Stopped(pc) /\ \A e \in Devices \ {d} : run'[e] = run[e]
    BY DEF DInv, IInv, TypeOK
  <1>2. RunFollows(kept, run'[d], active[d]) /\ RunBased(run'[d], published)
    BY <1>1 DEF RunFollows, RunBased, Stopped, Pushing
  <1>3. DraftFollows(kept, None)
    BY DEF DraftFollows
  <1> QED BY <1>1, <1>2, <1>3, RunKeeps

\* A request on its way follows what it expects.
LEMMA RequestFollows ==
  ASSUME DInv, NEW d \in Devices, run[d].pc = "push"
  PROVE  /\ Follows(kept, Request(d).expected, Request(d).envelope)
         /\ Request(d).expected = run[d].remote /\ Request(d).envelope = run[d].candidate
  <1>1. RunFollows(kept, run[d], active[d])
    BY DEF DInv, DeviceFollows
  <1>2. Follows(kept, run[d].remote, run[d].candidate)
    BY <1>1 DEF RunFollows, Pushing
  <1> QED BY <1>2 DEF Request

\* A run that begins holds the base, which the active envelope follows.
LEMMA BeginFollows ==
  ASSUME DInv, IInv', NEW d \in Devices, Begin(d),
         UNCHANGED <<remote, published, wire, active, base, draft, kept>>,
         UNCHANGED <<imported, recovery>>
  PROVE  DInv'
  <1>1. PICK at \in Stamps : run' = [run EXCEPT ![d] = Syncing(at, base[d])]
    BY DEF Begin
  <1>2. run'[d] = Syncing(at, base[d]) /\ \A e \in Devices \ {d} : run'[e] = run[e]
    BY <1>1 DEF DInv, IInv, TypeOK
  <1>3. Follows(kept, base[d], active[d]) /\ base[d] \in published \cup Files
    BY DEF DInv, IInv, ConfirmedBase, DeviceFollows, KeptFollow
  <1>4. RunFollows(kept, run'[d], active[d]) /\ RunBased(run'[d], published)
    BY <1>2, <1>3 DEF RunFollows, RunBased, Syncing, Pushing
  <1> QED BY <1>2, <1>4, RunKeeps

\* The steps that only move on.
LEMMA MoveFollows ==
  ASSUME DInv, IInv', NEW d \in Devices,
         AdoptDraft(d) \/ Validate(d) \/ DraftConflict(d) \/ MarkPush(d) \/ Confirm(d)
  PROVE  DInv'
  <1>1. /\ TypeOK /\ Shape(run[d]) /\ DeviceFollows(d) /\ run[d] \in Runs
    BY DEF DInv, IInv, TypeOK, aside
  <1>2. ASSUME NEW pc \in PCs, Go(d, pc)
        PROVE  /\ run'[d].pc = pc /\ run'[d].kind = run[d].kind
               /\ run'[d].base = run[d].base /\ run'[d].local = run[d].local
               /\ run'[d].remote = run[d].remote
               /\ run'[d].candidate = run[d].candidate
               /\ \A e \in Devices \ {d} : run'[e] = run[e]
    BY <1>1, <1>2, GoType
  <1>3. CASE AdoptDraft(d)
    <2>1. run[d].kind = "resolve" /\ run[d].pc = "adopt" /\ Go(d, "validate")
            /\ "validate" \in PCs
      BY <1>1, <1>3 DEF AdoptDraft, Shape, PCs
    <2>2. RunFollows(kept, run'[d], active[d]) /\ RunBased(run'[d], published)
      BY <1>1, <1>2, <2>1 DEF DeviceFollows, RunFollows, RunBased, PCs, Pushing
    <2> QED BY <1>2, <1>3, <2>1, <2>2, RunKeeps DEF AdoptDraft, aside
  <1>4. CASE Validate(d)
    <2>1. run[d].pc = "validate" /\ Go(d, "merge") /\ "merge" \in PCs
      BY <1>4 DEF Validate, PCs
    <2>2. RunFollows(kept, run'[d], active[d]) /\ RunBased(run'[d], published)
      BY <1>1, <1>2, <2>1 DEF DeviceFollows, RunFollows, RunBased, PCs, Pushing
    <2> QED BY <1>2, <1>4, <2>1, <2>2, RunKeeps DEF Validate, aside
  <1>5. CASE DraftConflict(d)
    <2>1. run[d].kind = "sync" /\ run[d].pc = "merge" /\ Go(d, "conflict")
            /\ "conflict" \in PCs
      BY <1>1, <1>5 DEF DraftConflict, HasCandidate, PCs, Runs, Kinds
    <2>2. RunFollows(kept, run'[d], active[d]) /\ RunBased(run'[d], published)
      BY <1>1, <1>2, <2>1 DEF DeviceFollows, RunFollows, RunBased, PCs, Pushing
    <2>3. DraftFollows(kept, [base |-> run[d].base, local |-> run[d].local,
                              remote |-> run[d].remote])
      BY <1>1, <2>1, FollowsOn DEF DeviceFollows, RunFollows, DraftFollows, PCs
    <2> QED BY <1>2, <1>5, <2>1, <2>2, <2>3, RunKeeps DEF DraftConflict, aside
  <1>6. CASE MarkPush(d)
    <2>1. run[d].pc = "markPush" /\ Go(d, "push") /\ "push" \in PCs
      BY <1>6 DEF MarkPush, PCs
    <2>2. RunFollows(kept, run'[d], active[d]) /\ RunBased(run'[d], published)
      BY <1>1, <1>2, <2>1 DEF DeviceFollows, RunFollows, RunBased, PCs, Pushing
    <2> QED BY <1>2, <1>6, <2>1, <2>2, RunKeeps DEF MarkPush, aside
  <1>7. CASE Confirm(d)
    <2>1. run[d].pc = "confirm" /\ Go(d, "confirmBase") /\ "confirmBase" \in PCs
      BY <1>7 DEF Confirm, PCs
    <2>2. RunFollows(kept, run'[d], active[d]) /\ RunBased(run'[d], published)
      BY <1>1, <1>2, <2>1 DEF DeviceFollows, RunFollows, RunBased, PCs, Pushing
    <2> QED BY <1>2, <1>7, <2>1, <2>2, RunKeeps DEF Confirm, aside
  <1> QED BY <1>3, <1>4, <1>5, <1>6, <1>7

\* What is read of the device follows its active envelope.
LEMMA ReadLocalFollows ==
  ASSUME DInv, IInv', NEW d \in Devices, ReadLocal(d)
  PROVE  DInv'
  <1> DEFINE l == Reconcile(active[d], LocalProjection(d), run[d].at)
  <1>1. TypeOK /\ Shape(run[d]) /\ DeviceFollows(d) /\ run[d] \in Runs
    BY DEF DInv, IInv, TypeOK
  <1>2. run[d].pc = "readLocal" /\ run[d].kind = "sync"
    BY <1>1 DEF ReadLocal, Shape, Reading
  <1>3. Follows(kept, active[d], l)
    <2>1. active[d] \in Envelopes /\ LocalProjection(d) \in Envelopes
      BY <1>1, LocalProjectionType DEF TypeOK
    <2> QED BY <2>1, ReconcileFollows DEF ReadLocal, ReadableLocal
  <1> HIDE DEF l
  <1>4. run' = [run EXCEPT ![d].pc = "readRemote", ![d].local = l]
    BY DEF ReadLocal, l
  <1>5. /\ run'[d].pc = "readRemote" /\ run'[d].kind = "sync"
        /\ run'[d].base = run[d].base /\ run'[d].local = l
        /\ \A e \in Devices \ {d} : run'[e] = run[e]
    BY <1>1, <1>2, <1>4 DEF TypeOK, Runs
  <1>6. Follows(kept, run[d].base, active[d]) /\ run[d].base \in published \cup Files
    BY <1>1, <1>2 DEF DeviceFollows, RunFollows, RunBased, PCs
  <1>7. RunFollows(kept, run'[d], active[d]) /\ RunBased(run'[d], published)
    BY <1>3, <1>5, <1>6 DEF RunFollows, RunBased, Pushing
  <1> QED BY <1>5, <1>7, RunKeeps DEF ReadLocal, durable, aside

\* What is read of the remote follows the base of the run, which the remote has held, or
\* a file was.
LEMMA ReadRemoteFollows ==
  ASSUME DInv, IInv', NEW d \in Devices, ReadRemote(d)
  PROVE  DInv'
  <1>1. TypeOK /\ Shape(run[d]) /\ DeviceFollows(d) /\ run[d] \in Runs
    BY DEF DInv, IInv, TypeOK
  <1>2. run[d].pc = "readRemote" /\ run[d].kind = "sync"
    BY <1>1 DEF ReadRemote, Shape, Reading
  <1>3. /\ Follows(kept, run[d].base, active[d]) /\ run[d].base \in published \cup Files
        /\ Follows(kept, active[d], run[d].local)
    BY <1>1, <1>2 DEF DeviceFollows, RunFollows, RunBased, PCs
  <1>4. Follows(kept, run[d].base, remote)
    BY <1>3, HeldFollowed
  <1>5. /\ run'[d].pc = "validate" /\ run'[d].kind = "sync" /\ run'[d].base = run[d].base
        /\ run'[d].local = run[d].local /\ run'[d].remote = remote
        /\ \A e \in Devices \ {d} : run'[e] = run[e]
    BY <1>1, <1>2 DEF ReadRemote, TypeOK, Runs
  <1>6. RunFollows(kept, run'[d], active[d]) /\ RunBased(run'[d], published)
    BY <1>3, <1>4, <1>5 DEF RunFollows, RunBased, Pushing
  <1> QED BY <1>5, <1>6, RunKeeps DEF ReadRemote, aside

\* What is committed follows the active envelope and what the remote held.
LEMMA CommitLocalFollows ==
  ASSUME DInv, IInv', NEW d \in Devices, CommitLocal(d)
  PROVE  DInv'
  <1> DEFINE c == Candidate(d)
  <1>1. TypeOK /\ Shape(run[d]) /\ DeviceFollows(d) /\ run[d] \in Runs
          /\ run[d].pc = "merge"
    BY DEF DInv, IInv, TypeOK, CommitLocal
  <1>2. Follows(kept, active[d], c) /\ Follows(kept, run[d].remote, c)
    <2>1. CASE run[d].kind = "sync"
      <3>1. /\ run[d].base \in Envelopes /\ run[d].local \in Envelopes
            /\ run[d].remote \in Envelopes
        BY <1>1, <2>1 DEF Shape, PCs, Reading
      <3>2. c = Merge(run[d].base, run[d].local, run[d].remote)
              /\ Mergeable(run[d].base, run[d].local, run[d].remote)
        BY <2>1 DEF Candidate, CommitLocal, HasCandidate, MergesCleanly
      <3>3. /\ Follows(kept, run[d].base, active[d])
            /\ Follows(kept, active[d], run[d].local)
            /\ Follows(kept, run[d].base, run[d].remote)
        BY <1>1, <2>1 DEF DeviceFollows, RunFollows, PCs
      <3>4. Follows(kept, run[d].base, run[d].local)
        BY <3>3, FollowsOn
      <3>5. Follows(kept, run[d].local, c) /\ Follows(kept, run[d].remote, c)
        BY <3>1, <3>2, <3>3, <3>4, MergeFollows
      <3> QED BY <3>3, <3>5, FollowsOn
    <2>2. CASE run[d].kind = "resolve"
      BY <1>1, <2>2 DEF Candidate, DeviceFollows, RunFollows, PCs
    <2> QED BY <1>1, <2>1, <2>2 DEF Runs, Kinds
  <1> HIDE DEF c
  <1>3. /\ run'[d].pc = "markPush" /\ run'[d].kind = run[d].kind
        /\ run'[d].base = run[d].base /\ run'[d].remote = run[d].remote
        /\ run'[d].candidate = c
        /\ \A e \in Devices \ {d} : run'[e] = run[e]
    BY <1>1 DEF CommitLocal, TypeOK, Runs, c
  <1>4. active'[d] = c /\ \A e \in Devices \ {d} : active'[e] = active[e]
    BY <1>1 DEF CommitLocal, TypeOK, c
  <1>5. RunFollows(kept, run'[d], active'[d]) /\ RunBased(run'[d], published)
    <2>1. run[d].kind = "sync" =>
            Follows(kept, run[d].base, c) /\ run[d].base \in published \cup Files
      BY <1>1, <1>2, FollowsOn DEF DeviceFollows, RunFollows, RunBased, PCs
    <2> QED BY <1>2, <1>3, <1>4, <2>1, FollowsItself DEF RunFollows, RunBased, Pushing
  <1>6. /\ \A e \in Devices \ {d} : recovery'[e] = recovery[e]
        /\ \A snapshot \in recovery'[d] :
             snapshot \in recovery[d] \/ snapshot.active = active[d]
    BY <1>1 DEF CommitLocal, Keeping, TypeOK
  <1>7. KeptFollow(kept, base[d], imported[d], recovery'[d], c)
    <2>1. KeptFollow(kept, base[d], imported[d], recovery[d], c)
      BY <1>1, <1>2, KeptFollowOn DEF DeviceFollows
    <2> QED BY <1>2, <1>6, <2>1 DEF KeptFollow
  <1>8. UNCHANGED <<remote, published, wire, base, draft, kept, imported>>
    BY DEF CommitLocal
  <1>9. Others(d)
    BY <1>3, <1>4, <1>6, <1>8 DEF Others
  <1>10. KeptFollow(kept', base'[d], imported'[d], recovery'[d], active'[d])
           /\ DraftFollows(kept', draft'[d])
    BY <1>1, <1>4, <1>7, <1>8 DEF DeviceFollows
  <1> QED BY <1>5, <1>8, <1>9, <1>10, DeviceKeeps

\* What takes effect at the remote follows what it held.
LEMMA ApplyFollows ==
  ASSUME DInv, IInv', NEW request, Applies(request), Apply(request),
         Follows(kept, request.expected, request.envelope),
         UNCHANGED kept,
         wire' \subseteq wire,
         \A d \in Devices : DeviceFollows(d)'
  PROVE  DInv' /\ Follows(kept, remote, remote')
  <1>1. Follows(kept, remote, remote')
    BY DEF Applies, Apply
  <1>2. \A content \in published' : Follows(kept, content, remote')
    <2>1. \A content \in published : Follows(kept, content, remote')
      BY <1>1, FollowsOn DEF DInv
    <2> QED BY <2>1, FollowsItself DEF Apply
  <1>3. (\A late \in wire : Follows(kept, late.expected, late.envelope))'
    BY DEF DInv
  <1> QED BY <1>1, <1>2, <1>3 DEF DInv

LEMMA PushCommittedFollows ==
  ASSUME DInv, IInv', NEW d \in Devices, PushCommitted(d)
  PROVE  DInv' /\ Follows(kept, remote, remote')
  <1>1. TypeOK /\ DeviceFollows(d) /\ run[d].pc = "push" /\ "confirm" \in PCs
    BY DEF DInv, IInv, PushCommitted, PCs
  <1>2. /\ run'[d].pc = "confirm" /\ run'[d].kind = run[d].kind
        /\ run'[d].base = run[d].base /\ run'[d].remote = run[d].remote
        /\ run'[d].candidate = run[d].candidate
        /\ \A e \in Devices \ {d} : run'[e] = run[e]
    BY <1>1, GoType DEF PushCommitted
  <1>3. RunFollows(kept, run'[d], active[d]) /\ RunBased(run'[d], published)
    BY <1>1, <1>2 DEF DeviceFollows, RunFollows, RunBased, PCs, Pushing
  <1>4. UNCHANGED <<base, active, draft, kept, wire>> /\ UNCHANGED <<imported, recovery>>
          /\ published \subseteq published'
    BY DEF PushCommitted, Apply, durable, aside
  <1>5. ASSUME NEW e \in Devices PROVE DeviceFollows(e)'
    <2>1. DeviceFollows(e)
      BY DEF DInv
    <2>2. RunFollows(kept, run'[e], active[e]) /\ RunBased(run'[e], published)
      BY <1>2, <1>3, <2>1 DEF DeviceFollows
    <2>3. RunBased(run'[e], published')
      BY <1>4, <2>2 DEF RunBased
    <2> QED BY <1>4, <2>1, <2>2, <2>3 DEF DeviceFollows
  <1>6. Follows(kept, Request(d).expected, Request(d).envelope)
    BY <1>1, RequestFollows
  <1> QED BY <1>4, <1>5, <1>6, ApplyFollows DEF PushCommitted

LEMMA LateArrivalFollows ==
  ASSUME DInv, IInv', LateArrival
  PROVE  DInv' /\ Follows(kept, remote, remote')
  <1>1. PICK request \in wire :
          /\ wire' = wire \ {request}
          /\ \/ Applies(request) /\ Apply(request)
             \/ ~Applies(request) /\ UNCHANGED <<remote, published, write>>
          /\ UNCHANGED <<durable, run, budget, edited, kept>>
    BY DEF LateArrival
  <1>2. ASSUME NEW e \in Devices PROVE DeviceFollows(e)'
    <2>1. DeviceFollows(e)
      BY DEF DInv
    <2>2. published \subseteq published'
      BY <1>1 DEF Apply
    <2>3. RunBased(run[e], published')
      BY <2>1, <2>2 DEF DeviceFollows, RunBased
    <2>4. UNCHANGED <<base, active, draft, kept, run>> /\ UNCHANGED <<imported, recovery>>
      BY <1>1 DEF durable, aside
    <2> QED BY <2>1, <2>3, <2>4 DEF DeviceFollows
  <1>3. CASE Applies(request) /\ Apply(request)
    BY <1>1, <1>2, <1>3, ApplyFollows DEF DInv
  <1>4. CASE UNCHANGED <<remote, published, write>>
    <2>1. /\ (\A content \in published : Follows(kept, content, remote))'
          /\ (\A late \in wire : Follows(kept, late.expected, late.envelope))'
      BY <1>1, <1>4 DEF DInv
    <2> QED BY <1>2, <1>4, <2>1, FollowsItself DEF DInv
  <1> QED BY <1>1, <1>3, <1>4

\* A confirmed candidate is base and active envelope.
LEMMA ConfirmBaseFollows ==
  ASSUME DInv, IInv', NEW d \in Devices, ConfirmBase(d)
  PROVE  DInv'
  <1>1. TypeOK /\ DeviceFollows(d) /\ run[d].pc = "confirmBase" /\ "complete" \in PCs
    BY DEF DInv, IInv, ConfirmBase, PCs
  <1>2. /\ run'[d].pc = "complete" /\ run'[d].kind = run[d].kind
        /\ run'[d].base = run[d].base /\ run'[d].remote = run[d].remote
        /\ run'[d].candidate = run[d].candidate
        /\ \A e \in Devices \ {d} : run'[e] = run[e]
    BY <1>1, GoType DEF ConfirmBase
  <1>3. Follows(kept, active[d], run[d].candidate)
    BY <1>1 DEF DeviceFollows, RunFollows, Pushing
  <1>4. /\ base'[d] = run[d].candidate /\ active'[d] = run[d].candidate
        /\ \A e \in Devices \ {d} : base'[e] = base[e] /\ active'[e] = active[e]
    BY <1>1 DEF ConfirmBase, TypeOK
  <1>5. RunFollows(kept, run'[d], active'[d]) /\ RunBased(run'[d], published)
    <2>1. run[d].kind = "sync" =>
            /\ Follows(kept, run[d].base, run[d].candidate)
            /\ run[d].base \in published \cup Files
      BY <1>1, <1>3, FollowsOn DEF DeviceFollows, RunFollows, RunBased, PCs
    <2>2. Follows(kept, run[d].remote, run[d].candidate)
      BY <1>1 DEF DeviceFollows, RunFollows, Pushing
    <2> QED BY <1>2, <1>4, <2>1, <2>2, FollowsItself DEF RunFollows, RunBased, Pushing
  <1>6. UNCHANGED <<remote, published, wire, draft, kept>> /\ UNCHANGED <<imported, recovery>>
    BY DEF ConfirmBase
  <1>7. KeptFollow(kept, base'[d], imported[d], recovery[d], active'[d])
    <2>1. KeptFollow(kept, base[d], imported[d], recovery[d], run[d].candidate)
      BY <1>1, <1>3, KeptFollowOn DEF DeviceFollows
    <2> QED BY <1>4, <2>1, FollowsItself DEF KeptFollow
  <1>8. Others(d)
    BY <1>2, <1>4, <1>6 DEF Others
  <1> QED BY <1>1, <1>5, <1>6, <1>7, <1>8, DeviceKeeps DEF DeviceFollows

LEMMA NextAttemptFollows ==
  ASSUME DInv, IInv', NEW d \in Devices, NextAttempt(d), run[d].kind = "sync",
         run[d].pc \in {"push", "confirm"},
         UNCHANGED <<remote, published, wire, active, base, draft, kept>>,
         UNCHANGED <<imported, recovery>>
  PROVE  DInv'
  <1>1. TypeOK /\ DeviceFollows(d)
    BY DEF DInv, IInv
  <1>2. CASE run' = [run EXCEPT ![d].pc = "readLocal", ![d].attempt = @ + 1]
    <2>1. /\ run'[d].pc = "readLocal" /\ run'[d].kind = "sync"
          /\ run'[d].base = run[d].base
          /\ \A e \in Devices \ {d} : run'[e] = run[e]
      BY <1>1, <1>2 DEF TypeOK, Runs, aside
    <2>2. Follows(kept, run[d].base, active[d]) /\ run[d].base \in published \cup Files
      BY <1>1 DEF DeviceFollows, RunFollows, RunBased, PCs
    <2>3. RunFollows(kept, run'[d], active[d]) /\ RunBased(run'[d], published)
      BY <2>1, <2>2 DEF RunFollows, RunBased, Pushing
    <2> QED BY <2>1, <2>3, RunKeeps
  <1>3. CASE Degrade(d)
    BY <1>3, EndFollows DEF Degrade, Stop
  <1> QED BY <1>2, <1>3 DEF NextAttempt

\* The steps that end an operation or attempt it again.
LEMMA EndingFollows ==
  ASSUME DInv, IInv', NEW d \in Devices,
         \/ LocalReadFails(d) \/ CommitRefused(d) \/ RecordConflict(d) \/ ClearDraft(d)
         \/ PushMismatch(d) \/ ConfirmMismatch(d) \/ TransportFails(d) \/ Abort(d)
  PROVE  DInv'
  <1>1. CASE LocalReadFails(d) \/ CommitRefused(d) \/ RecordConflict(d)
               \/ ClearDraft(d) \/ TransportFails(d)
    BY <1>1, EndFollows
       DEF LocalReadFails, CommitRefused, RecordConflict, ClearDraft, TransportFails,
           Degrade, Stop, durable, aside
  <1>2. CASE PushMismatch(d) \/ ConfirmMismatch(d)
    <2>1. /\ run[d].pc \in {"push", "confirm"}
          /\ UNCHANGED <<remote, published, wire, active, base, draft, kept>>
          /\ UNCHANGED <<imported, recovery>>
      BY <1>2 DEF PushMismatch, ConfirmMismatch, aside
    <2>2. CASE run[d].kind = "sync" /\ NextAttempt(d)
      BY <2>1, <2>2, NextAttemptFollows
    <2>3. CASE Stop(d)
      BY <2>1, <2>3, EndFollows DEF Stop
    <2> QED BY <1>2, <2>2, <2>3 DEF PushMismatch, ConfirmMismatch, Degrade
  <1>3. CASE Abort(d)
    <2>1. \A request \in wire' : request \in wire
                                   \/ (request = Request(d) /\ run[d].pc = "push")
      BY <1>3 DEF Abort
    <2>2. /\ UNCHANGED <<remote, published, active, base, draft, kept>>
          /\ UNCHANGED <<imported, recovery>>
          /\ run' = [run EXCEPT ![d] = Stopped("idle")]
      BY <1>3 DEF Abort, Degrade, Stop, aside
    <2> QED BY <2>1, <2>2, RequestFollows, EndFollows
  <1> QED BY <1>1, <1>2, <1>3

LEMMA CompleteFollows ==
  ASSUME DInv, IInv', NEW d \in Devices, Complete(d)
  PROVE  DInv'
  <1>1. TypeOK /\ DeviceFollows(d) /\ run[d].pc = "complete" /\ "clearDraft" \in PCs
    BY DEF DInv, IInv, Complete, PCs
  <1>2. CASE Stop(d)
    BY <1>2, EndFollows DEF Complete, Stop, aside
  <1>3. CASE run[d].kind = "resolve" /\ Go(d, "clearDraft")
    <2>1. /\ run'[d].pc = "clearDraft" /\ run'[d].kind = "resolve"
          /\ run'[d].remote = run[d].remote /\ run'[d].candidate = run[d].candidate
          /\ \A e \in Devices \ {d} : run'[e] = run[e]
      BY <1>1, <1>3, GoType
    <2>2. RunFollows(kept, run'[d], active[d]) /\ RunBased(run'[d], published)
      BY <1>1, <2>1 DEF DeviceFollows, RunFollows, RunBased, Pushing
    <2> QED BY <2>1, <2>2, RunKeeps DEF Complete, aside
  <1> QED BY <1>2, <1>3 DEF Complete

\* A resolution lets go of what its user brought back, and of what a draft that does not
\* know a deletion of the device would.
LEMMA BeginResolveFollows ==
  ASSUME DInv, IInv', NEW d \in Devices, BeginResolve(d)
  PROVE  DInv'
  <1> DEFINE b == draft[d].base
             l == draft[d].local
             m == draft[d].remote
  <1>1. TypeOK /\ DeviceFollows(d) /\ draft[d] # None
    BY DEF DInv, IInv, BeginResolve
  <1>2. b \in Envelopes /\ l \in Envelopes /\ m \in Envelopes
    BY <1>1 DEF TypeOK, Optional
  <1>3. PICK resolutions \in [ConflictIds(b, l, m) -> Choices] :
          LET resolved == Resolve(b, l, m, resolutions)
          IN /\ run' = [run EXCEPT ![d] =
                          Resolving(draft[d], resolved, DOMAIN resolutions)]
             /\ kept' = kept \cup BroughtBack(d, resolved, DOMAIN resolutions)
    BY DEF BeginResolve
  <1> DEFINE c == Resolve(b, l, m, resolutions)
             r == Resolving(draft[d], c, DOMAIN resolutions)
  <1>4. kept \subseteq kept'
    BY <1>3
  <1>5. Follows(kept', b, l) /\ Follows(kept', b, m)
    BY <1>1, <1>4, FollowsGrows DEF DeviceFollows, DraftFollows
  <1>6. Follows(kept', m, c) /\ Follows(kept', active[d], c)
    <2>1. \A id \in Ids :
            (/\ ~IsTombstone(c.entity[id])
             /\ id \in DOMAIN resolutions \/ IsTombstone(active[d].entity[id]))
               => id \in kept'
      BY <1>3 DEF BroughtBack
    <2>2. DOMAIN resolutions \subseteq Ids
      BY DEF ConflictIds
    <2>3. Follows(kept', m, c)
      BY <1>2, <1>5, <2>1, <2>2, ResolveFollows
    <2>4. Follows(kept', active[d], c)
      <3> HIDE DEF c
      <3> QED BY <2>1 DEF Follows
    <2> QED BY <2>3, <2>4
  <1> HIDE DEF c
  <1>7. run'[d] = r /\ \A e \in Devices \ {d} : run'[e] = run[e]
    BY <1>1, <1>3 DEF TypeOK, c
  <1>8. RunFollows(kept', run'[d], active[d]) /\ RunBased(run'[d], published)
    BY <1>6, <1>7 DEF RunFollows, RunBased, Resolving
  <1>9. UNCHANGED <<remote, published, wire, base, active, draft>>
          /\ UNCHANGED <<imported, recovery>>
    BY DEF BeginResolve, aside
  <1>10. /\ KeptFollow(kept', base[d], imported[d], recovery[d], active[d])
         /\ DraftFollows(kept', draft[d])
    BY <1>1, <1>4, FollowsGrows DEF DeviceFollows
  <1>11. Others(d)
    BY <1>7, <1>9 DEF Others
  <1> QED BY <1>4, <1>8, <1>9, <1>10, <1>11, DeviceKeeps

\* Faults: a write may be left on its way.
LEMMA FaultFollows ==
  ASSUME DInv, IInv', NEW d \in Devices, PushLost(d) \/ Crash(d)
  PROVE  DInv'
  <1>1. /\ UNCHANGED <<remote, published, active, base, draft, kept>>
        /\ UNCHANGED <<imported, recovery>>
        /\ \A request \in wire' :
             request \in wire \/ Follows(kept, request.expected, request.envelope)
    <2>1. \A request \in wire' : request \in wire
                                   \/ (request = Request(d) /\ run[d].pc = "push")
      BY DEF PushLost, Crash
    <2>2. UNCHANGED <<remote, published, active, base, draft, kept>>
            /\ UNCHANGED <<imported, recovery>>
      BY DEF PushLost, Crash, durable, aside
    <2> QED BY <2>1, <2>2, RequestFollows
  <1>2. CASE UNCHANGED run
    <2>1. RunFollows(kept, run'[d], active[d]) /\ RunBased(run'[d], published)
      BY <1>2 DEF DInv, DeviceFollows
    <2> QED BY <1>1, <1>2, <2>1, RunKeeps
  <1>3. CASE Stop(d)
    BY <1>1, <1>3, EndFollows DEF Stop
  <1>4. CASE run' = [run EXCEPT ![d] = Stopped("down")]
    BY <1>1, <1>4, EndFollows
  <1> QED BY <1>2, <1>3, <1>4 DEF PushLost, Crash, Degrade

\* An import makes a file the base; its undo brings back the base it replaced.
LEMMA ImportFollows ==
  ASSUME DInv, IInv', NEW d \in Devices, Import(d) \/ UndoImport(d)
  PROVE  DInv'
  <1>1. TypeOK /\ DeviceFollows(d)
    BY DEF DInv, IInv
  <1>2. /\ UNCHANGED <<remote, published, wire, run, active, draft, kept>>
        /\ UNCHANGED recovery
        /\ imported' = [imported EXCEPT ![d] = [profile |-> profile[d], base |-> base[d]]]
    BY DEF Import, UndoImport
  <1>3. PICK known : base' = [base EXCEPT ![d] = known] /\ Follows(kept, known, active[d])
    <2>1. CASE Import(d)
      BY <2>1, FileFollowed DEF Import
    <2>2. CASE UndoImport(d)
      BY <1>1, <2>2 DEF UndoImport, DeviceFollows, KeptFollow
    <2> QED BY <2>1, <2>2
  <1>4. /\ base'[d] = known /\ imported'[d].base = base[d]
        /\ \A e \in Devices \ {d} : base'[e] = base[e] /\ imported'[e] = imported[e]
    BY <1>1, <1>2, <1>3 DEF TypeOK
  <1>5. KeptFollow(kept, base'[d], imported'[d], recovery[d], active[d])
    BY <1>1, <1>3, <1>4 DEF DeviceFollows, KeptFollow
  <1>6. Others(d)
    BY <1>2, <1>4 DEF Others
  <1> QED BY <1>1, <1>2, <1>5, <1>6, DeviceKeeps DEF DeviceFollows

\* A restoration lets go of what was deleted since the snapshot.
LEMMA RestoreFollows ==
  ASSUME DInv, IInv', NEW d \in Devices, RestoreRecovery(d)
  PROVE  DInv'
  <1>1. TypeOK /\ DeviceFollows(d)
    BY DEF DInv, IInv
  <1>2. PICK snapshot \in recovery[d] :
          /\ active' = [active EXCEPT ![d] = snapshot.active]
          /\ kept' = kept \cup {id \in Ids : /\ IsTombstone(active[d].entity[id])
                                             /\ ~IsTombstone(snapshot.active.entity[id])}
    BY DEF RestoreRecovery
  <1>3. kept \subseteq kept' /\ Follows(kept', active[d], snapshot.active)
    BY <1>2 DEF Follows
  <1>4. active'[d] = snapshot.active /\ \A e \in Devices \ {d} : active'[e] = active[e]
    BY <1>1, <1>2 DEF TypeOK
  <1>5. /\ KeptFollow(kept', base[d], imported[d], recovery[d], active[d])
        /\ DraftFollows(kept', draft[d])
        /\ RunFollows(kept', run[d], active[d])
        /\ RunBased(run[d], published)
    BY <1>1, <1>3, FollowsGrows DEF DeviceFollows
  <1>6. Follows(kept', snapshot.active, active[d])
    BY <1>2, <1>5 DEF KeptFollow
  <1>7. RunFollows(kept', run[d], active'[d])
    BY <1>3, <1>4, <1>5, <1>6, FollowsOn DEF RunFollows
  <1>8. /\ \A e \in Devices \ {d} : recovery'[e] = recovery[e]
        /\ \A other \in recovery'[d] : other \in recovery[d] \/ other.active = active[d]
    BY <1>1 DEF RestoreRecovery, Keeping, TypeOK
  <1>9. KeptFollow(kept', base[d], imported[d], recovery'[d], active'[d])
    <2>1. KeptFollow(kept', base[d], imported[d], recovery[d], active'[d])
      BY <1>3, <1>4, <1>5, KeptFollowOn
    <2> QED BY <1>3, <1>4, <1>8, <2>1 DEF KeptFollow
  <1>10. UNCHANGED <<remote, published, wire, base, draft, run, imported>>
    BY DEF RestoreRecovery
  <1>11. Others(d)
    BY <1>4, <1>8, <1>10 DEF Others
  <1> QED BY <1>3, <1>5, <1>7, <1>9, <1>10, <1>11, DeviceKeeps

\* A device that connects again has the remote as its base and its active envelope.
LEMMA ReconnectFollows ==
  ASSUME DInv, IInv', NEW d \in Devices, Reconnect(d)
  PROVE  DInv'
  <1>1. TypeOK /\ DeviceFollows(d) /\ run[d].pc = "idle"
    BY DEF DInv, IInv, Reconnect
  <1>2. Follows(kept, active[d], remote)
    <2>1. active[d] \in Envelopes /\ LocalProjection(d) \in Envelopes
      BY <1>1, LocalProjectionType DEF TypeOK
    <2> QED BY <2>1, ReconcileFollows DEF Reconnect, ReadableLocal
  <1>3. /\ base'[d] = remote /\ active'[d] = remote
        /\ \A e \in Devices \ {d} : base'[e] = base[e] /\ active'[e] = active[e]
    BY <1>1 DEF Reconnect, TypeOK
  <1>4. UNCHANGED <<remote, published, wire, run, draft, kept>>
          /\ UNCHANGED <<imported, recovery>>
    BY DEF Reconnect
  <1>5. KeptFollow(kept, base'[d], imported[d], recovery[d], active'[d])
    <2>1. KeptFollow(kept, base[d], imported[d], recovery[d], remote)
      BY <1>1, <1>2, KeptFollowOn DEF DeviceFollows
    <2> QED BY <1>3, <2>1, FollowsItself DEF KeptFollow
  <1>6. RunFollows(kept, run[d], active'[d]) /\ RunBased(run[d], published)
    BY <1>1 DEF RunFollows, RunBased, Pushing
  <1>7. Others(d)
    BY <1>3, <1>4 DEF Others
  <1> QED BY <1>1, <1>4, <1>5, <1>6, <1>7, DeviceKeeps DEF DeviceFollows

\* Every step keeps the invariant, and what was deleted at the remote.
LEMMA NextFollows ==
  ASSUME DInv, [Next]_vars
  PROVE  DInv' /\ Follows(kept, remote, remote')
  <1>1. IInv'
    BY NextKeeps DEF DInv
  <1>2. CASE LateArrival
    BY <1>1, <1>2, LateArrivalFollows
  <1>3. ASSUME NEW d \in Devices, PushCommitted(d)
        PROVE  DInv' /\ Follows(kept, remote, remote')
    BY <1>1, <1>3, PushCommittedFollows
  <1>4. CASE /\ UNCHANGED <<remote, published, wire, active, base, draft, run, kept>>
             /\ UNCHANGED <<imported, recovery>>
    <2>1. /\ \A e \in Devices : DeviceFollows(e)'
          /\ (\A content \in published : Follows(kept, content, remote))'
          /\ (\A request \in wire : Follows(kept, request.expected, request.envelope))'
      BY <1>4 DEF DInv, DeviceFollows
    <2> QED BY <1>1, <1>4, <2>1, FollowsItself DEF DInv
  <1>5. ASSUME NEW d \in Devices, BeginSync(d) \/ BeginResolve(d)
        PROVE  DInv' /\ UNCHANGED remote
    BY <1>1, <1>5, BeginFollows, BeginResolveFollows DEF BeginSync, BeginResolve, aside
  <1>6. ASSUME NEW d \in Devices, Step(d), ~PushCommitted(d)
        PROVE  DInv' /\ UNCHANGED remote
    <2>1. DInv'
      BY <1>1, <1>6, ReadLocalFollows, ReadRemoteFollows, MoveFollows,
         CommitLocalFollows, EndingFollows, ConfirmBaseFollows, CompleteFollows
         DEF Step
    <2>2. UNCHANGED remote
      BY <1>6 DEF Step, ReadLocal, LocalReadFails, ReadRemote, AdoptDraft, Validate,
             CommitLocal, CommitRefused, DraftConflict, RecordConflict, MarkPush,
             PushMismatch, Confirm, ConfirmMismatch, ConfirmBase, Complete, ClearDraft, Abort
    <2> QED BY <2>1, <2>2
  <1>7. ASSUME NEW d \in Devices, Fault(d)
        PROVE  DInv' /\ UNCHANGED remote
    BY <1>1, <1>7, FaultFollows, EndingFollows
       DEF Fault, PushLost, TransportFails, Crash
  <1>8. ASSUME NEW d \in Devices, Start(d)
        PROVE  DInv' /\ UNCHANGED remote
    BY <1>1, <1>8, BeginFollows, EndFollows DEF Start, Stop, aside
  <1>9. ASSUME NEW d \in Devices, Overwrite(d), ~WriteBack(d)
        PROVE  DInv' /\ UNCHANGED remote
    <2>1. DInv'
      BY <1>1, <1>9, ImportFollows, RestoreFollows, ReconnectFollows DEF Overwrite
    <2> QED BY <1>9, <2>1, OverwriteLeaves
  <1>10. ASSUME NEW d \in Devices, WriteBack(d)
         PROVE  DInv' /\ Follows(kept, remote, remote')
    BY <1>4, <1>10 DEF WriteBack
  <1>11. CASE \E d \in Devices, id \in Ids : Edit(d, id)
    BY <1>4, <1>11 DEF Edit, aside
  <1>12. CASE UNCHANGED vars
    BY <1>4, <1>12 DEF vars, aside
  <1>13. ASSUME UNCHANGED remote PROVE Follows(kept, remote, remote')
    BY <1>13, FollowsItself
  <1>14. ASSUME NEW d \in Devices, BeginSync(d) \/ BeginResolve(d) \/ Fault(d) \/ Start(d)
        PROVE  DInv' /\ UNCHANGED remote
    BY <1>5, <1>7, <1>8, <1>14
  <1>15. ASSUME NEW d \in Devices, Step(d)
         PROVE  DInv' /\ Follows(kept, remote, remote')
    BY <1>3, <1>6, <1>13, <1>15
  <1>16. ASSUME NEW d \in Devices, Overwrite(d)
         PROVE  DInv' /\ Follows(kept, remote, remote')
    BY <1>9, <1>10, <1>13, <1>16
  <1> QED BY <1>2, <1>11, <1>12, <1>13, <1>14, <1>15, <1>16 DEF Next

\* No device, however late its write arrives, often it is retried or old the file is that
\* its user imports, brings back an entity whose deletion the remote holds
\* (reconcile-local.ts, three-way-merge.ts, cas-service.ts), but by a resolution of a
\* conflict or the restoration of a recovery snapshot.
THEOREM DeletedStaysDeleted == Spec => NoResurrection
  <1>1. Init => DInv
    <2> SUFFICES ASSUME Init PROVE DInv
      OBVIOUS
    <2>1. \A d \in Devices : DeviceFollows(d)
      BY FollowsItself
         DEF Init, DeviceFollows, KeptFollow, DraftFollows, RunFollows, RunBased, Stopped,
             Pushing
    <2> QED BY <2>1, InitKeeps, FollowsItself DEF Init, DInv
  <1>2. DInv /\ [Next]_vars => DInv'
    BY NextFollows
  <1>3. DInv /\ [Next]_vars =>
          \A id \in Ids :
            IsTombstone(remote.entity[id]) =>
              IsTombstone(remote'.entity[id]) \/ id \in kept
    BY NextFollows DEF Follows
  <1> QED BY <1>1, <1>2, <1>3, PTL DEF Spec, NoResurrection

-----------------------------------------------------------------------------
(* References.  Users delete what others name and files are merged over        *)
(* profiles, so a profile may dangle; but a local commit takes nothing that    *)
(* does, a recovery snapshot holds what was committed, what a run pushes is    *)
(* what it committed, and what arrives late is what some run pushed.           *)

Sound(d) ==
  /\ Materializable(active[d])
  /\ \A snapshot \in recovery[d] : Materializable(snapshot.active)
  /\ run[d].pc \in Pushing => Materializable(run[d].candidate)

RefInv ==
  /\ IInv
  /\ Materializable(remote)
  /\ \A request \in wire : Materializable(request.envelope)
  /\ \A d \in Devices : Sound(d)

\* The only step that gives a run a candidate to push is a local commit.
LEMMA CandidateStays ==
  ASSUME IInv, [Next]_vars, \A d \in Devices : ~CommitLocal(d)
  PROVE  \A e \in Devices :
           run'[e].pc \in Pushing =>
             run[e].pc \in Pushing /\ run'[e].candidate = run[e].candidate
  <1>1. run \in [Devices -> Runs] /\ \A d \in Devices : Shape(run[d])
    BY DEF IInv, TypeOK, aside
  <1>2. ASSUME NEW d \in Devices, NEW e \in Devices,
               \/ BeginSync(d) \/ BeginResolve(d) \/ Start(d) \/ Crash(d)
               \/ LocalReadFails(d) \/ CommitRefused(d) \/ RecordConflict(d)
               \/ ClearDraft(d) \/ TransportFails(d) \/ Abort(d)
        PROVE  run'[e].pc \in Pushing =>
                 run[e].pc \in Pushing /\ run'[e].candidate = run[e].candidate
    BY <1>1, <1>2
       DEF BeginSync, BeginResolve, Start, Crash, LocalReadFails, CommitRefused,
           RecordConflict, ClearDraft, TransportFails, Abort, Degrade, Stop, Begin, Stopped,
           Syncing, Resolving, Pushing
  <1>3. ASSUME NEW d \in Devices, NEW e \in Devices,
               ReadLocal(d) \/ ReadRemote(d) \/ AdoptDraft(d) \/ Validate(d) \/ DraftConflict(d)
        PROVE  run'[e].pc \in Pushing =>
                 run[e].pc \in Pushing /\ run'[e].candidate = run[e].candidate
    BY <1>1, <1>3 DEF ReadLocal, ReadRemote, AdoptDraft, Validate, DraftConflict, Go,
           Runs, Pushing
  <1>4. ASSUME NEW d \in Devices, NEW e \in Devices,
               MarkPush(d) \/ PushCommitted(d) \/ Confirm(d) \/ ConfirmBase(d) \/ Complete(d)
        PROVE  run'[e].pc \in Pushing =>
                 run[e].pc \in Pushing /\ run'[e].candidate = run[e].candidate
    BY <1>1, <1>4 DEF MarkPush, PushCommitted, Confirm, ConfirmBase, Complete, Go, Stop,
           Stopped, Runs, Pushing
  <1>5. ASSUME NEW d \in Devices, NEW e \in Devices,
               PushMismatch(d) \/ ConfirmMismatch(d) \/ PushLost(d)
        PROVE  run'[e].pc \in Pushing =>
                 run[e].pc \in Pushing /\ run'[e].candidate = run[e].candidate
    BY <1>1, <1>5 DEF PushMismatch, ConfirmMismatch, PushLost, NextAttempt, Degrade, Stop,
           Stopped, Runs, Pushing
  <1>6. CASE LateArrival \/ (\E d \in Devices, id \in Ids : Edit(d, id)) \/ UNCHANGED vars
    BY <1>6 DEF LateArrival, Edit, vars
  <1>7. ASSUME NEW d \in Devices, NEW e \in Devices, Overwrite(d)
        PROVE  run'[e].pc \in Pushing =>
                 run[e].pc \in Pushing /\ run'[e].candidate = run[e].candidate
    BY <1>7, OverwriteLeaves
  <1> QED BY <1>2, <1>3, <1>4, <1>5, <1>6, <1>7 DEF Next, Step, Fault

\* What reaches the remote, or the wire, was on the wire or is pushed by a run.
LEMMA WireSound ==
  ASSUME RefInv, [Next]_vars
  PROVE  /\ Materializable(remote')
         /\ \A request \in wire' : Materializable(request.envelope)
  <1>1. ASSUME NEW d \in Devices, run[d].pc = "push"
        PROVE  Materializable(Request(d).envelope)
    BY <1>1, RequestType DEF RefInv, Sound, Pushing
  <1>2. CASE LateArrival
    BY <1>2 DEF RefInv, LateArrival, Apply
  <1>3. ASSUME NEW d \in Devices, PushCommitted(d) \/ PushLost(d) \/ Crash(d) \/ Abort(d)
        PROVE  /\ Materializable(remote')
               /\ \A request \in wire' : Materializable(request.envelope)
    BY <1>1, <1>3 DEF RefInv, PushCommitted, PushLost, Crash, Abort, Apply
  <1>4. CASE UNCHANGED <<remote, wire>>
    BY <1>4 DEF RefInv
  <1>5. ASSUME NEW d \in Devices, Step(d), ~PushCommitted(d), ~Abort(d)
        PROVE  UNCHANGED <<remote, wire>>
    BY <1>5 DEF Step, ReadLocal, LocalReadFails, ReadRemote, AdoptDraft, Validate,
           CommitLocal, CommitRefused, DraftConflict, RecordConflict, MarkPush,
           PushMismatch, Confirm, ConfirmMismatch, ConfirmBase, Complete, ClearDraft
  <1>6. ASSUME NEW d \in Devices,
               \/ \E id \in Ids : Edit(d, id)
               \/ BeginSync(d) \/ BeginResolve(d) \/ Start(d) \/ TransportFails(d)
        PROVE  UNCHANGED <<remote, wire>>
    BY <1>6 DEF Edit, BeginSync, BeginResolve, Start, TransportFails
  <1>7. CASE UNCHANGED vars
    BY <1>4, <1>7 DEF vars
  <1>8. ASSUME NEW d \in Devices, Overwrite(d)
        PROVE  UNCHANGED <<remote, wire>>
    BY <1>8, OverwriteLeaves
  <1> QED BY <1>2, <1>3, <1>4, <1>5, <1>6, <1>7, <1>8 DEF Next, Fault

\* A local commit: the transaction accepts no dangling reference, and the snapshot it
\* takes is of what was active.
LEMMA CommitSound ==
  ASSUME RefInv, IInv', NEW d \in Devices, CommitLocal(d), NEW e \in Devices
  PROVE  Sound(e)'
  <1>1. TypeOK /\ TypeOK' /\ Sound(e)
    BY DEF RefInv, IInv
  <1>2. \A snapshot \in recovery'[e] :
          snapshot \in recovery[e] \/ snapshot.active = active[e]
    BY <1>1 DEF CommitLocal, Keeping, TypeOK
  <1>3. CASE e = d
    <2>1. active'[d] = Candidate(d) /\ run'[d].candidate = Candidate(d)
      BY <1>1 DEF CommitLocal, TypeOK, Runs
    <2>2. Materializable(Candidate(d))
      BY DEF CommitLocal, Accepts
    <2> QED BY <1>1, <1>2, <1>3, <2>1, <2>2 DEF Sound
  <1>4. CASE e # d
    <2>1. active'[e] = active[e] /\ run'[e] = run[e]
      BY <1>1, <1>4 DEF CommitLocal, TypeOK
    <2> QED BY <1>1, <1>2, <2>1 DEF Sound
  <1> QED BY <1>3, <1>4

\* The active envelope changes to what was committed, to a snapshot or to the remote.
LEMMA ActiveSound ==
  ASSUME RefInv, [Next]_vars, \A d \in Devices : ~CommitLocal(d), NEW e \in Devices
  PROVE  Materializable(active'[e])
  <1>1. TypeOK /\ Sound(e)
    BY DEF RefInv, IInv
  <1>2. ASSUME NEW d \in Devices, ConfirmBase(d)
        PROVE  Materializable(active'[e])
    BY <1>1, <1>2 DEF RefInv, Sound, ConfirmBase, TypeOK, Pushing
  <1>3. ASSUME NEW d \in Devices, RestoreRecovery(d)
        PROVE  Materializable(active'[e])
    BY <1>1, <1>3 DEF RefInv, Sound, RestoreRecovery, TypeOK
  <1>4. ASSUME NEW d \in Devices, Reconnect(d)
        PROVE  Materializable(active'[e])
    BY <1>1, <1>4 DEF RefInv, Sound, Reconnect, TypeOK
  <1>5. \/ \E d \in Devices : ConfirmBase(d) \/ RestoreRecovery(d) \/ Reconnect(d)
        \/ UNCHANGED active
    BY DEF Next, Step, Fault, Overwrite, vars, Edit, BeginSync, BeginResolve, Start,
         ReadLocal, LocalReadFails, ReadRemote, AdoptDraft, Validate, CommitRefused,
         DraftConflict, RecordConflict, MarkPush, PushCommitted, PushMismatch, Confirm,
         ConfirmMismatch, Complete, ClearDraft, Abort, PushLost, TransportFails, Crash,
         LateArrival, Import, UndoImport, WriteBack, durable
  <1> QED BY <1>1, <1>2, <1>3, <1>4, <1>5 DEF Sound

\* The snapshots change by one of what is active.
LEMMA RecoverySound ==
  ASSUME RefInv, [Next]_vars, \A d \in Devices : ~CommitLocal(d), NEW e \in Devices,
         NEW snapshot \in recovery'[e]
  PROVE  Materializable(snapshot.active)
  <1>1. TypeOK /\ Sound(e)
    BY DEF RefInv, IInv
  <1>2. ASSUME NEW d \in Devices, RestoreRecovery(d)
        PROVE  Materializable(snapshot.active)
    BY <1>1, <1>2 DEF RefInv, Sound, RestoreRecovery, Keeping, TypeOK
  <1>3. (\E d \in Devices : RestoreRecovery(d)) \/ UNCHANGED recovery
    BY DEF Next, Step, Fault, Overwrite, vars, Edit, BeginSync, BeginResolve, Start,
         ReadLocal, LocalReadFails, ReadRemote, AdoptDraft, Validate, CommitRefused,
         DraftConflict, RecordConflict, MarkPush, PushCommitted, PushMismatch, Confirm,
         ConfirmMismatch, ConfirmBase, Complete, ClearDraft, Abort, PushLost,
         TransportFails, Crash, LateArrival, Import, UndoImport, Reconnect, WriteBack,
         durable, aside
  <1> QED BY <1>1, <1>2, <1>3 DEF Sound

\* No device activates or publishes an entity that names a missing one, although every
\* id merges on its own and users and files leave profiles that do:
\* materializeImportedSyncEnvelope stands before every local commit
\* (indexed-db-store.ts), and only what was committed is pushed, kept or restored.
THEOREM NothingDangles == Materializable(Initial) /\ Spec => []ReferencesHold
  <1>1. Materializable(Initial) /\ Init => RefInv
    BY InitKeeps DEF Init, RefInv, Sound, Stopped, Pushing
  <1>2. RefInv /\ [Next]_vars => RefInv'
    <2> SUFFICES ASSUME RefInv, [Next]_vars PROVE RefInv'
      OBVIOUS
    <2>1. IInv'
      BY NextKeeps DEF RefInv
    <2>2. ASSUME NEW e \in Devices
          PROVE  Sound(e)'
      <3>1. CASE \E d \in Devices : CommitLocal(d)
        BY <2>1, <3>1, CommitSound
      <3>2. CASE \A d \in Devices : ~CommitLocal(d)
        <4>1. run'[e].pc \in Pushing => Materializable(run'[e].candidate)
          BY <3>2, CandidateStays DEF RefInv, Sound
        <4> QED BY <3>2, <4>1, ActiveSound, RecoverySound DEF Sound
      <3> QED BY <3>1, <3>2
    <2> QED BY <2>1, <2>2, WireSound DEF RefInv
  <1>3. RefInv => ReferencesHold
    BY DEF RefInv, Sound, ReferencesHold
  <1> QED BY <1>1, <1>2, <1>3, PTL DEF Spec

=============================================================================
