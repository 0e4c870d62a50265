------------------------------ MODULE SyncCas ------------------------------
(***************************************************************************)
(* Synchronization of several ContentLens devices over one remote object.  *)
(*                                                                         *)
(* Each device keeps, in IndexedDB, its profile, the active envelope, the  *)
(* confirmed base, the journal of the current operation and at most one    *)
(* conflict draft.  A run of SyncCasService (or a conflict resolution) is  *)
(* volatile: it reads the local state, reads the remote, merges, commits   *)
(* locally, pushes with the exact version token it read, confirms, and     *)
(* advances the base.  Every await of the code is a step boundary here, so *)
(* the user, the other devices, the network and a worker restart come in   *)
(* between.                                                                *)
(*                                                                         *)
(* Three commands of the user write these records outside any run: the     *)
(* import of a configuration file, which makes the file the base, its      *)
(* undo, and the restoration of a recovery snapshot.                       *)
(*                                                                         *)
(* The remote is a conditional HTTP object.  Its strong ETag is modelled   *)
(* by the content itself, the weakest validator HTTP allows: writing back  *)
(* an older content brings its token back.  A server whose tokens also     *)
(* change when the content does not is covered by spurious mismatches.     *)
(***************************************************************************)
EXTENDS SyncMerge, Naturals

CONSTANTS
  Devices,
  Initial,      \* the envelope every device confirmed when it connected
  Minted,       \* ids drawn at random when the entity is created (rules)
  MaxAttempts,  \* attempts of one run; 3 in the code
  Files,        \* configuration files the users may import: exports of this lineage
  Bounds,       \* the budgets a behaviour may start with: how many edits, faults
                \* (crashes, transport errors, spurious mismatches), resolutions of
                \* conflicts, imports and undos, and restorations all users make
  None

ASSUME InitialAssumption == Initial \in Envelopes /\ None \notin Envelopes
ASSUME AttemptsAssumption == MaxAttempts \in Nat /\ MaxAttempts > 0
ASSUME FilesAssumption ==
  \A file \in Files : /\ file \in Envelopes
                      /\ Projection(file) = file
                      /\ SameLineage(file, Initial)
ASSUME BoundsAssumption ==
  Bounds \subseteq [{"edits", "faults", "resolves", "imports", "restores"} -> Nat]

VARIABLES
  remote,     \* the content of the remote object
  published,  \* history: every content the remote has held
  wire,       \* conditional writes whose sender gave up and that may still arrive
  profile,    \* device -> id -> the value the user sees, or Absent
  active,     \* device -> the last envelope committed locally
  base,       \* device -> the last envelope confirmed at the remote
  journal,    \* device -> [phase, attempt]
  draft,      \* device -> the stored conflict, or None
  imported,   \* device -> what its last import or undo replaced, or None
  recovery,   \* device -> the recovery snapshots it keeps
  paused,     \* device -> a restoration disabled its connection
  run,        \* device -> the volatile state of its operation
  budget,     \* what is left of the bounds
  edited,     \* history: device -> the ids its user ever edited
  kept,       \* history: ids some resolution or restoration may bring back
  moved,      \* history: devices whose base or active envelope was last written by an
              \* import, an undo or a restoration
  write       \* history: the last conditional write that took effect

aside == <<imported, recovery, paused, moved>>
durable == <<profile, active, base, journal, draft, aside>>
vars == <<remote, published, wire, profile, active, base, journal, draft, run,
          budget, edited, kept, write, aside>>

-----------------------------------------------------------------------------
(* The journal *)

Phases == {"started", "remote-read", "validated", "snapshot-created",
           "local-committed", "push-attempted", "remote-confirmed",
           "completed", "conflict", "degraded"}

TerminalPhases == {"completed", "conflict", "degraded"}

transitions ==
  [phase \in Phases |->
     CASE phase = "started"          -> {"remote-read", "degraded"}
       [] phase = "remote-read"      -> {"validated", "degraded"}
       [] phase = "validated"        -> {"snapshot-created", "local-committed",
                                         "conflict", "degraded"}
       [] phase = "snapshot-created" -> {"local-committed", "degraded"}
       [] phase = "local-committed"  -> {"push-attempted", "degraded"}
       [] phase = "push-attempted"   -> {"remote-confirmed", "remote-read",
                                         "conflict", "degraded"}
       [] phase = "remote-confirmed" -> {"completed", "degraded"}
       [] OTHER                      -> {}]

Advance(d, phase) ==
  journal' = [journal EXCEPT ![d] = [phase |-> phase, attempt |-> run[d].attempt]]

-----------------------------------------------------------------------------
(* Runs *)

Kinds == {"sync", "resolve"}

PCs == {"idle", "down", "readLocal", "readRemote", "adopt", "validate", "merge",
        "conflict", "markPush", "push", "confirm", "confirmBase", "complete",
        "clearDraft"}

Stopped(pc) ==
  [pc |-> pc, kind |-> "sync", attempt |-> 0, at |-> None, base |-> None,
   local |-> None, remote |-> None, candidate |-> None, chosen |-> {},
   snapshot |-> None]

\* A run of synchronize, from the base it knows.
Syncing(at, known) ==
  [pc |-> "readLocal", kind |-> "sync", attempt |-> 1, at |-> at, base |-> known,
   local |-> None, remote |-> None, candidate |-> None, chosen |-> {},
   snapshot |-> None]

\* A resolution of a stored conflict, with the ids the user chose for.
Resolving(conflict, resolved, chosen) ==
  [pc |-> "adopt", kind |-> "resolve", attempt |-> 1, at |-> None,
   base |-> conflict.base, local |-> None, remote |-> conflict.remote,
   candidate |-> resolved, chosen |-> chosen, snapshot |-> None]

Active(d) == run[d].pc \notin {"idle", "down"}

Go(d, pc) == run' = [run EXCEPT ![d].pc = pc]
Stop(d)   == run' = [run EXCEPT ![d] = Stopped("idle")]

Spend(what) ==
  /\ budget[what] > 0
  /\ budget' = [budget EXCEPT ![what] = @ - 1]

\* PUT with If-Match; by, base and chosen are for the properties only.
Request(d) ==
  [expected |-> run[d].remote, envelope |-> run[d].candidate,
   by |-> d, base |-> run[d].base, chosen |-> run[d].chosen]

\* buildLocalSyncEnvelope: the profile as an envelope of the current lineage.
LocalProjection(d) == [active[d] EXCEPT !.entity = profile[d]]

\* It throws on an entity that names a missing one, and reconciling it on an id that
\* was deleted.
ReadableLocal(d) ==
  /\ Materializable(LocalProjection(d))
  /\ Reconcilable(active[d], LocalProjection(d))

-----------------------------------------------------------------------------
Init ==
  /\ remote = Initial
  /\ published = {Initial}
  /\ wire = {}
  /\ profile = [d \in Devices |-> Projection(Initial).entity]
  /\ active = [d \in Devices |-> Initial]
  /\ base = [d \in Devices |-> Initial]
  /\ journal = [d \in Devices |-> [phase |-> "completed", attempt |-> 1]]
  /\ draft = [d \in Devices |-> None]
  /\ run = [d \in Devices |-> Stopped("idle")]
  /\ imported = [d \in Devices |-> None]
  /\ recovery = [d \in Devices |-> {}]
  /\ paused = [d \in Devices |-> FALSE]
  /\ moved = {}
  /\ budget \in Bounds
  /\ edited = [d \in Devices |-> {}]
  /\ kept = {}
  /\ write = [expected |-> Initial, envelope |-> Initial,
              by |-> None, base |-> Initial, chosen |-> {}]

-----------------------------------------------------------------------------
(* The user *)

\* A random id is used once: no device, no envelope and no file has seen it.
Unused(id) ==
  /\ \A envelope \in published \cup Files : envelope.entity[id] = Absent
  /\ \A d \in Devices : /\ id \notin edited[d]
                        /\ active[d].entity[id] = Absent

\* Nothing keeps the user from deleting what other entities name.
Edit(d, id) ==
  /\ Spend("edits")
  /\ \E state \in {Absent} \cup {Value(body) : body \in Bodies} :
       /\ state # profile[d][id]
       /\ (profile[d][id] = Absent /\ id \in Minted) => Unused(id)
       /\ profile' = [profile EXCEPT ![d][id] = state]
  /\ edited' = [edited EXCEPT ![d] = @ \cup {id}]
  /\ UNCHANGED <<remote, published, wire, active, base, journal, draft, run, kept,
                 write, aside>>

-----------------------------------------------------------------------------
(* SyncCasService.synchronize *)

\* What the first journal write and the base read of a run do.
Begin(d) ==
  /\ ReadableLocal(d)
  /\ \E at \in Stamps :
       run' = [run EXCEPT ![d] = Syncing(at, base[d])]
  /\ journal' = [journal EXCEPT ![d] = [phase |-> "started", attempt |-> 0]]

BeginSync(d) ==
  /\ run[d].pc = "idle"
  /\ ~paused[d]
  /\ Begin(d)
  /\ UNCHANGED <<remote, published, wire, profile, active, base, draft, budget,
                 edited, kept, write, aside>>

ReadLocal(d) ==
  /\ run[d].pc = "readLocal"
  /\ ReadableLocal(d)
  /\ run' = [run EXCEPT ![d].pc = "readRemote",
               ![d].local = Reconcile(active[d], LocalProjection(d), run[d].at)]
  /\ UNCHANGED <<remote, published, wire, durable, budget, edited, kept, write>>

\* readLocal throws out of the run: the journal stays where it was.
LocalReadFails(d) ==
  /\ run[d].pc = "readLocal"
  /\ ~ReadableLocal(d)
  /\ Stop(d)
  /\ UNCHANGED <<remote, published, wire, durable, budget, edited, kept, write>>

ReadRemote(d) ==
  /\ run[d].pc = "readRemote"
  /\ run' = [run EXCEPT ![d].pc = "validate", ![d].remote = remote]
  /\ Advance(d, "remote-read")
  /\ UNCHANGED <<remote, published, wire, profile, active, base, draft, budget,
                 edited, kept, write, aside>>

Validate(d) ==
  /\ run[d].pc = "validate"
  /\ Advance(d, "validated")
  /\ Go(d, "merge")
  /\ UNCHANGED <<remote, published, wire, profile, active, base, draft, budget,
                 edited, kept, write, aside>>

MergesCleanly(d) == Mergeable(run[d].base, run[d].local, run[d].remote)

Candidate(d) ==
  IF run[d].kind = "resolve" THEN run[d].candidate
  ELSE Merge(run[d].base, run[d].local, run[d].remote)

HasCandidate(d) == run[d].kind = "sync" => MergesCleanly(d)

\* What the transaction of a local commit takes; anything else aborts it.
Accepts(candidate) == Materializable(candidate)

\* The recovery snapshots of a device with one of its present state; none is kept
\* when the bound lets nobody restore one.
Keeping(d) ==
  IF budget.restores > 0
  THEN recovery[d] \cup {[profile |-> profile[d], active |-> active[d]]}
  ELSE recovery[d]

\* One transaction: recovery snapshot (only the first of an operation),
\* profile, active envelope and journal.
CommitLocal(d) ==
  /\ run[d].pc = "merge"
  /\ HasCandidate(d)
  /\ Accepts(Candidate(d))
  /\ run' = [run EXCEPT ![d].pc = "markPush", ![d].candidate = Candidate(d),
               ![d].snapshot = IF @ = None THEN profile[d] ELSE @]
  /\ profile' = [profile EXCEPT ![d] = Projection(Candidate(d)).entity]
  /\ active' = [active EXCEPT ![d] = Candidate(d)]
  /\ recovery' = IF run[d].snapshot = None THEN [recovery EXCEPT ![d] = Keeping(d)]
                 ELSE recovery
  /\ Advance(d, "local-committed")
  /\ UNCHANGED <<remote, published, wire, base, draft, budget, edited, kept, write,
                 imported, paused, moved>>

\* commitLocal throws: nothing is written, the run ends.
CommitRefused(d) ==
  /\ run[d].pc = "merge"
  /\ HasCandidate(d)
  /\ ~Accepts(Candidate(d))
  /\ Stop(d)
  /\ UNCHANGED <<remote, published, wire, durable, budget, edited, kept, write>>

DraftConflict(d) ==
  /\ run[d].pc = "merge"
  /\ ~HasCandidate(d)
  /\ draft' = [draft EXCEPT ![d] =
                 [base |-> run[d].base, local |-> run[d].local, remote |-> run[d].remote]]
  /\ Go(d, "conflict")
  /\ UNCHANGED <<remote, published, wire, profile, active, base, journal, budget,
                 edited, kept, write, aside>>

RecordConflict(d) ==
  /\ run[d].pc = "conflict"
  /\ Advance(d, "conflict")
  /\ Stop(d)
  /\ UNCHANGED <<remote, published, wire, profile, active, base, draft, budget,
                 edited, kept, write, aside>>

\* A slip: the base follows the local commit, before any push.
MarkPushUnconfirmed(d) ==
  /\ run[d].pc = "markPush"
  /\ Advance(d, "push-attempted")
  /\ Go(d, "confirmBase")
  /\ UNCHANGED <<remote, published, wire, profile, active, base, draft, budget,
                 edited, kept, write, aside>>

MarkPush(d) ==
  /\ run[d].pc = "markPush"
  /\ Advance(d, "push-attempted")
  /\ Go(d, "push")
  /\ UNCHANGED <<remote, published, wire, profile, active, base, draft, budget,
                 edited, kept, write, aside>>

-----------------------------------------------------------------------------
(* The conditional write and its confirmation *)

Degrade(d) == Advance(d, "degraded") /\ Stop(d)

\* A slip: one attempt too many.
NextAttemptTooMany(d) ==
  \/ /\ run[d].attempt <= MaxAttempts
     /\ run' = [run EXCEPT ![d].pc = "readLocal", ![d].attempt = @ + 1]
     /\ UNCHANGED journal
  \/ /\ run[d].attempt > MaxAttempts
     /\ Degrade(d)

\* A mismatch: another attempt from a fresh local read, if one is left.
NextAttempt(d) ==
  \/ /\ run[d].attempt < MaxAttempts
     /\ run' = [run EXCEPT ![d].pc = "readLocal", ![d].attempt = @ + 1]
     /\ UNCHANGED journal
  \/ /\ run[d].attempt >= MaxAttempts
     /\ Degrade(d)

\* A slip: an unconditional write.
AppliesAlways(request) == request.expected \in Envelopes

\* If-Match: the write takes effect only on the content it names.
Applies(request) == remote = request.expected

Apply(request) ==
  /\ remote' = request.envelope
  /\ published' = published \cup {request.envelope}
  /\ write' = request

PushCommitted(d) ==
  /\ run[d].pc = "push"
  /\ Applies(Request(d))
  /\ Apply(Request(d))
  /\ Go(d, "confirm")
  /\ UNCHANGED <<wire, durable, budget, edited, kept>>

PushMismatch(d) ==
  /\ run[d].pc = "push"
  /\ \/ ~Applies(Request(d)) /\ UNCHANGED budget
     \/ Applies(Request(d)) /\ Spend("faults")  \* the token moved, not the content
  /\ \/ run[d].kind = "sync" /\ NextAttempt(d)
     \/ run[d].kind = "resolve" /\ Advance(d, "conflict") /\ Stop(d)
  /\ UNCHANGED <<remote, published, wire, profile, active, base, draft, edited, kept,
                 write, aside>>

\* No answer: the write may arrive later.  A 5xx answer is retried with the
\* same token, any other error ends the run.
PushLost(d) ==
  /\ run[d].pc = "push"
  /\ Spend("faults")
  /\ wire' = wire \cup {Request(d)}
  /\ \/ run[d].kind = "sync" /\ UNCHANGED <<run, journal>>
     \/ Degrade(d)
  /\ UNCHANGED <<remote, published, profile, active, base, draft, edited, kept,
                 write, aside>>

Confirm(d) ==
  /\ run[d].pc = "confirm"
  /\ remote = run[d].candidate
  /\ Advance(d, "remote-confirmed")
  /\ Go(d, "confirmBase")
  /\ UNCHANGED <<remote, published, wire, profile, active, base, draft, budget,
                 edited, kept, write, aside>>

ConfirmMismatch(d) ==
  /\ run[d].pc = "confirm"
  /\ \/ remote # run[d].candidate /\ UNCHANGED budget
     \/ remote = run[d].candidate /\ Spend("faults")
  /\ \/ run[d].kind = "sync" /\ NextAttempt(d)
     \/ run[d].kind = "resolve" /\ Degrade(d)
  /\ UNCHANGED <<remote, published, wire, profile, active, base, draft, edited, kept,
                 write, aside>>

ConfirmBase(d) ==
  /\ run[d].pc = "confirmBase"
  /\ base' = [base EXCEPT ![d] = run[d].candidate]
  /\ active' = [active EXCEPT ![d] = run[d].candidate]
  /\ moved' = moved \ {d}
  /\ Go(d, "complete")
  /\ UNCHANGED <<remote, published, wire, profile, journal, draft, budget, edited,
                 kept, write, imported, recovery, paused>>

Complete(d) ==
  /\ run[d].pc = "complete"
  /\ Advance(d, "completed")
  /\ \/ run[d].kind = "sync" /\ Stop(d)
     \/ run[d].kind = "resolve" /\ Go(d, "clearDraft")
  /\ UNCHANGED <<remote, published, wire, profile, active, base, draft, budget,
                 edited, kept, write, aside>>

\* An error of the transport, or a remote that fails validation.
TransportFails(d) ==
  /\ run[d].pc \in {"readRemote", "validate", "push", "confirm"}
  /\ run[d].kind = "sync" \/ run[d].pc \in {"push", "confirm"}
  /\ Spend("faults")
  /\ Degrade(d)
  /\ UNCHANGED <<remote, published, wire, profile, active, base, draft, edited, kept,
                 write, aside>>

-----------------------------------------------------------------------------
(* UserOwnedSyncService.resolveConflict *)

\* The ids a resolution may bring back: those the user was asked about and those whose
\* deletion the device knows and the draft does not.
BroughtBack(d, resolved, chosen) ==
  {id \in Ids : /\ ~IsTombstone(resolved.entity[id])
                /\ id \in chosen \/ IsTombstone(active[d].entity[id])}

BeginResolve(d) ==
  /\ run[d].pc = "idle"
  /\ ~paused[d]
  /\ draft[d] # None
  /\ Spend("resolves")
  /\ \E resolutions \in
       [ConflictIds(draft[d].base, draft[d].local, draft[d].remote) -> Choices] :
       LET resolved == Resolve(draft[d].base, draft[d].local, draft[d].remote,
                               resolutions)
       IN /\ run' = [run EXCEPT ![d] =
                       Resolving(draft[d], resolved, DOMAIN resolutions)]
          /\ kept' = kept \cup BroughtBack(d, resolved, DOMAIN resolutions)
  /\ journal' = [journal EXCEPT ![d] = [phase |-> "started", attempt |-> 0]]
  /\ UNCHANGED <<remote, published, wire, profile, active, base, draft, edited, write,
                 aside>>

\* The draft's own remote read stands for the read of this operation.
AdoptDraft(d) ==
  /\ run[d].pc = "adopt"
  /\ Advance(d, "remote-read")
  /\ Go(d, "validate")
  /\ UNCHANGED <<remote, published, wire, profile, active, base, draft, budget,
                 edited, kept, write, aside>>

ClearDraft(d) ==
  /\ run[d].pc = "clearDraft"
  /\ draft' = [draft EXCEPT ![d] = None]
  /\ Stop(d)
  /\ UNCHANGED <<remote, published, wire, profile, active, base, journal, budget,
                 edited, kept, write, aside>>

-----------------------------------------------------------------------------
(* The worker and the network *)

Crash(d) ==
  /\ run[d].pc # "down"
  /\ Spend("faults")
  /\ run' = [run EXCEPT ![d] = Stopped("down")]
  /\ \/ UNCHANGED wire
     \/ run[d].pc = "push" /\ wire' = wire \cup {Request(d)}
  /\ UNCHANGED <<remote, published, durable, edited, kept, write>>

NeedsResume(d) == ~paused[d] /\ journal[d].phase \notin TerminalPhases

\* resumeIncomplete on worker start: an unfinished journal starts a fresh run.
Start(d) ==
  /\ run[d].pc = "down"
  /\ \/ NeedsResume(d) /\ Begin(d)
     \/ /\ ~(NeedsResume(d) /\ ReadableLocal(d))
        /\ Stop(d)
        /\ UNCHANGED journal
  /\ UNCHANGED <<remote, published, wire, profile, active, base, draft, budget,
                 edited, kept, write, aside>>

LateArrival ==
  \E request \in wire :
    /\ wire' = wire \ {request}
    /\ \/ /\ Applies(request)
          /\ Apply(request)
       \/ ~Applies(request) /\ UNCHANGED <<remote, published, write>>
    /\ UNCHANGED <<durable, run, budget, edited, kept>>

-----------------------------------------------------------------------------
(* What the user writes over the records of synchronization *)

\* replacePortableConfiguration: the profile becomes the file, or the merge of the
\* profile with the file from the known base, and the file becomes the base.  The active
\* envelope stays.  The gap between preview and commit is ProfileStore's subject.
Import(d) ==
  /\ Spend("imports")
  /\ Materializable(LocalProjection(d))
  /\ \E file \in Files :
       /\ Materializable(file)
       /\ \/ profile' = [profile EXCEPT ![d] = file.entity]
          \/ \E resolutions \in
               [ConflictIds(base[d], LocalProjection(d), file) -> Choices] :
               LET merged == Resolve(base[d], LocalProjection(d), file, resolutions)
               IN /\ Materializable(merged)
                  /\ profile' = [profile EXCEPT ![d] = Projection(merged).entity]
       /\ base' = [base EXCEPT ![d] = file]
  /\ imported' = [imported EXCEPT ![d] = [profile |-> profile[d], base |-> base[d]]]
  /\ moved' = moved \cup {d}
  /\ UNCHANGED <<remote, published, wire, active, journal, draft, run, edited, kept,
                 write, recovery, paused>>

\* restorePortableImportSnapshot: profile and base change places with what the last
\* import, or the last undo, replaced.
UndoImport(d) ==
  /\ Spend("imports")
  /\ imported[d] # None
  /\ profile' = [profile EXCEPT ![d] = imported[d].profile]
  /\ base' = [base EXCEPT ![d] = imported[d].base]
  /\ imported' = [imported EXCEPT ![d] = [profile |-> profile[d], base |-> base[d]]]
  /\ moved' = moved \cup {d}
  /\ UNCHANGED <<remote, published, wire, active, journal, draft, run, edited, kept,
                 write, recovery, paused>>

\* restoreSyncRecoverySnapshot, whatever run is under way: profile and active envelope go
\* back, the base stays, the connection is disabled.
RestoreRecovery(d) ==
  /\ Spend("restores")
  /\ \E snapshot \in recovery[d] :
       /\ profile' = [profile EXCEPT ![d] = snapshot.profile]
       /\ active' = [active EXCEPT ![d] = snapshot.active]
       /\ kept' = kept \cup {id \in Ids : /\ IsTombstone(active[d].entity[id])
                                        /\ ~IsTombstone(snapshot.active.entity[id])}
  /\ recovery' = [recovery EXCEPT ![d] = Keeping(d)]
  /\ paused' = [paused EXCEPT ![d] = TRUE]
  /\ moved' = moved \cup {d}
  /\ UNCHANGED <<remote, published, wire, base, journal, draft, run, edited, write,
                 imported>>

\* The signal of the restoration reaches the transport of the run under way.
Abort(d) ==
  /\ paused[d]
  /\ run[d].pc \in {"readRemote", "push", "confirm"}
  /\ \/ run[d].kind = "sync" /\ Degrade(d)
     \/ run[d].kind = "resolve" /\ Stop(d) /\ UNCHANGED journal
  /\ \/ UNCHANGED wire
     \/ run[d].pc = "push" /\ wire' = wire \cup {Request(d)}
  /\ UNCHANGED <<remote, published, profile, active, base, draft, budget, edited, kept,
                 write, aside>>

\* The user connects again, which takes a local state equal to the remote.
Reconnect(d) ==
  /\ paused[d]
  /\ run[d].pc = "idle"
  /\ ReadableLocal(d)
  /\ \E at \in Stamps : Reconcile(active[d], LocalProjection(d), at) = remote
  /\ base' = [base EXCEPT ![d] = remote]
  /\ active' = [active EXCEPT ![d] = remote]
  /\ paused' = [paused EXCEPT ![d] = FALSE]
  /\ moved' = moved \ {d}
  /\ UNCHANGED <<remote, published, wire, profile, journal, draft, run, budget, edited,
                 kept, write, imported, recovery>>

\* A run under way at the restoration stores the enabled connection it had read.
WriteBack(d) ==
  /\ paused[d]
  /\ Active(d)
  /\ paused' = [paused EXCEPT ![d] = FALSE]
  /\ UNCHANGED <<remote, published, wire, profile, active, base, journal, draft, run,
                 budget, edited, kept, write, imported, recovery, moved>>

-----------------------------------------------------------------------------
\* A step the operation takes by itself, once its awaited call returns.
Step(d) ==
  \/ ReadLocal(d) \/ LocalReadFails(d) \/ ReadRemote(d) \/ AdoptDraft(d)
  \/ Validate(d) \/ CommitLocal(d) \/ CommitRefused(d) \/ DraftConflict(d)
  \/ RecordConflict(d) \/ MarkPush(d) \/ PushCommitted(d) \/ PushMismatch(d)
  \/ Confirm(d) \/ ConfirmMismatch(d) \/ ConfirmBase(d) \/ Complete(d)
  \/ ClearDraft(d) \/ Abort(d)

Fault(d) == PushLost(d) \/ TransportFails(d) \/ Crash(d)

\* What the user and the runs write over the records of a device outside the protocol.
Overwrite(d) ==
  \/ Import(d) \/ UndoImport(d) \/ RestoreRecovery(d) \/ Reconnect(d) \/ WriteBack(d)

Next ==
  \/ LateArrival
  \/ \E d \in Devices :
       \/ \E id \in Ids : Edit(d, id)
       \/ BeginSync(d)
       \/ BeginResolve(d)
       \/ Step(d)
       \/ Fault(d)
       \/ Start(d)
       \/ Overwrite(d)

Spec == Init /\ [][Next]_vars

\* An awaited call returns, the browser starts the worker again, and the alarm
\* of a scheduled connection keeps starting runs.
ScheduledSpec ==
  Spec /\ \A d \in Devices : WF_vars(Step(d)) /\ WF_vars(Start(d)) /\ WF_vars(BeginSync(d))

-----------------------------------------------------------------------------
(* Type invariant *)

Bodied == {Absent} \cup {Value(body) : body \in Bodies}

Requests ==
  [expected : Envelopes, envelope : Envelopes, by : Devices \cup {None},
   base : Envelopes, chosen : SUBSET Ids]

Optional(S) == S \cup {None}

Runs ==
  [pc : PCs, kind : Kinds, attempt : 0 .. MaxAttempts, at : Optional(Stamps),
   base : Optional(Envelopes), local : Optional(Envelopes),
   remote : Optional(Envelopes), candidate : Optional(Envelopes),
   chosen : SUBSET Ids, snapshot : Optional([Ids -> Bodied])]

\* Every variable has its type; run-local envelopes are absent outside a run.
TypeOK ==
  /\ remote \in Envelopes
  /\ published \subseteq Envelopes
  /\ wire \subseteq Requests
  /\ profile \in [Devices -> [Ids -> Bodied]]
  /\ active \in [Devices -> Envelopes]
  /\ base \in [Devices -> Envelopes]
  /\ journal \in [Devices -> [phase : Phases, attempt : 0 .. MaxAttempts]]
  /\ draft \in [Devices -> Optional([base : Envelopes, local : Envelopes,
                                     remote : Envelopes])]
  /\ run \in [Devices -> Runs]
  /\ budget \in [{"edits", "faults", "resolves", "imports", "restores"} -> Nat]
  /\ edited \in [Devices -> SUBSET Ids]
  /\ kept \subseteq Ids
  /\ write \in Requests
  /\ imported \in [Devices -> Optional([profile : [Ids -> Bodied], base : Envelopes])]
  /\ recovery \in [Devices -> SUBSET [profile : [Ids -> Bodied], active : Envelopes]]
  /\ paused \in [Devices -> BOOLEAN]
  /\ moved \subseteq Devices

-----------------------------------------------------------------------------
(* Safety *)

\* The known base is a content the remote has held, unless an import or its undo wrote it
\* since, and then still one of those or a file; and, the same exception and restorations
\* aside, a journal that says "completed" says so of the base and the active envelope
\* together (confirmBase and the journal are separate transactions, so a crash falls
\* between them; an unconfirmed candidate may be active, never the base).
ConfirmedBase ==
  \A d \in Devices :
    /\ base[d] \in published \cup (IF d \in moved THEN Files ELSE {})
    /\ (journal[d].phase = "completed" /\ d \notin moved) => base[d] = active[d]

\* advanceSyncJournal never throws: whatever the interleaving of crashes,
\* restarts and resolutions, every journal write of every operation starts a
\* new record or follows the transition table without going back an attempt.
JournalLegal ==
  [][\A d \in Devices :
       journal'[d] # journal[d] =>
         \/ journal'[d] = [phase |-> "started", attempt |-> 0]
         \/ /\ journal'[d].phase \in transitions[journal[d].phase]
            /\ journal'[d].attempt >= journal[d].attempt]_vars

\* A write that takes effect, even one that arrives after its sender crashed
\* and other devices wrote, replaces exactly the content it was merged with and
\* keeps each change that content made to the writer's base, except where the
\* user chose another value for a conflict.
KeepsChanges(request) ==
  \A id \in Ids \ request.chosen :
    EqualState(request.base.entity[id], request.expected.entity[id])
      \/ EqualState(request.envelope.entity[id], request.expected.entity[id])

NoLostUpdate ==
  [][remote' # remote =>
       /\ write'.expected = remote
       /\ write'.envelope = remote'
       /\ KeepsChanges(write')]_vars

\* No run brings a deleted entity back, whatever file was imported, undone or merged
\* before it: where the remote holds a tombstone it keeps one, unless some user was asked
\* about that entity in a conflict, resolved one whose draft did not know a deletion the
\* device knew, or restored a recovery snapshot from before the deletion.
NoResurrection ==
  [][\A id \in Ids :
       IsTombstone(remote.entity[id]) =>
         IsTombstone(remote'.entity[id]) \/ id \in kept]_vars

\* What the decision for this merge asks (docs/adr/0009-sync-conflict-model.md:39):
\* no silent resurrection.  A resolution undoes no deletion its device has confirmed at
\* the remote, other than by a choice of the user.
DeletionStands ==
  [][\A d \in Devices, id \in Ids :
       (/\ run[d].kind = "resolve"
        /\ IsTombstone(base[d].entity[id]) /\ IsTombstone(active[d].entity[id]))
         => IsTombstone(active'[d].entity[id]) \/ id \in run[d].chosen]_vars

\* The remote and the active envelopes never hold an entity that names a missing one,
\* although every id merges on its own, users delete what others name, in profiles and in
\* resolutions, and nothing looks at a profile before the next read.
ReferencesHold ==
  /\ Materializable(remote)
  /\ \A d \in Devices : Materializable(active[d])

\* What a local commit overwrites is what the run read, or is in a snapshot.
NoEditLost ==
  [][\A d \in Devices :
       (run[d].pc = "merge" /\ run'[d].pc = "markPush" /\ run[d].kind = "sync") =>
         \/ profile[d] = Projection(run[d].local).entity
         \/ run'[d].snapshot = profile[d]]_vars

\* A local profile can always be read as an envelope.
LocalReadable == \A d \in Devices : ReadableLocal(d)

-----------------------------------------------------------------------------
(* Liveness *)

\* When the users stop editing, scheduled runs bring every profile to the
\* content of the remote, or leave the device with a conflict to resolve.  It
\* takes edits that never bring back an earlier body: otherwise two devices whose
\* runs keep alternating can undo each other for ever, each taking the other's
\* change for an own one.
Contested(d) ==
  ConflictIds(base[d], Reconcile(active[d], LocalProjection(d),
                                 CHOOSE at \in Stamps : TRUE), remote) # {}

Settled ==
  \A d \in Devices : profile[d] = Projection(remote).entity \/ Contested(d)

Converges == <>[]Settled
=============================================================================
