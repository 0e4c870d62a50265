----------------------------- MODULE MCSyncCas -----------------------------
(* Small instances of SyncCas for TLC. *)
EXTENDS SyncCas, TLC

CONSTANTS a, b, x, y, v0, v1, v2

TheInitial(states) ==
  [syncProfileId |-> "profile", generation |-> 0, entity |-> states]

\* One entity, held by every device.
OneValue == TheInitial([id \in Ids |-> Value(v0)])

\* One entity, not created yet.
ToCreate == TheInitial([id \in Ids |-> Absent])

\* x is held by every device, y is not created yet.
OneToCreate == TheInitial([id \in Ids |-> IF id = x THEN Value(v0) ELSE Absent])

\* A file exported when x had another body: a content the remote need not have held.
OlderFiles == {TheInitial([id \in Ids |-> IF id = x THEN Value(v1) ELSE Absent])}

Budget(edits, faults, resolves, imports, restores) ==
  [edits |-> edits, faults |-> faults, resolves |-> resolves,
   imports |-> imports, restores |-> restores]

LiveBudgets == {Budget(2, 1, 0, 0, 0)}
EditBudgets == {Budget(3, 0, 0, 0, 0)}
RecreateBudgets == {Budget(2, 0, 0, 0, 0)}
DraftBudgets == {Budget(4, 0, 1, 0, 0)}
\* Histories of edits, faults and resolutions, then of an import and a resolution, of a
\* restoration, and of an import and its undo.
SafetyBudgets ==
  {Budget(2, 1, 1, 0, 0), Budget(1, 0, 1, 1, 0), Budget(1, 0, 0, 0, 1), Budget(0, 0, 0, 2, 0)}

NoReferences == {}
YRefersToX == {<<y, x>>}
DeviceSymmetry == Permutations(Devices)
=============================================================================
