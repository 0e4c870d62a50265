-------------------------- MODULE Protocols_proofs --------------------------
(***************************************************************************)
(* Proofs about protocols that go on in steps and are interrupted: the     *)
(* journal of operations, the submissions to a platform, the automatic     *)
(* release, the migrations of the profile and the settings that reach the  *)
(* open tabs, for any number of operations, attempts, commits, tabs,       *)
(* changes and failures.                                                   *)
(*                                                                         *)
(* The journal and the profile implement one profile that every operation  *)
(* changes at most once (IInv).  An attempt is clicked once because it is  *)
(* stored as being submitted before it is clicked and what is stored says  *)
(* so ever after (FInv).  A tag holds what passed CI because every release *)
(* starts from a verified commit, and what is tagged was merged as a       *)
(* release (RInv); only the last of either is unfinished (OrderInv).  A    *)
(* migration changes what it started from because every snapshot is of the *)
(* source of its journal (MInv).  A tab is not put back to older settings  *)
(* because reconciliations read one after the other, and what the first    *)
(* has read is not older than what anybody was told (AInv).                *)
(***************************************************************************)
EXTENDS OperationsJournal, NativeFeedback, ReleaseAutomation, ProfileMigration, PlatformActivation,
        WellFoundedInduction, TLAPS

-----------------------------------------------------------------------------
(* The journal.                                                                 *)

EntryTypes == entries \in [Ops -> OperationEntries \cup {None}]

\* An operation has an effect exactly when it was committed.
EffectsCommitted ==
  \A o \in Ops : entries[o] # None =>
    (entries[o].effect # "none" <=> entries[o].state \in {"committed", "compensated"})

\* What is executed has an entry of its own, and a draft of the profile as it still is.
RunningLegal ==
  running # None =>
    /\ running \in Executions /\ entries[running.command.op] # None
    /\ entries[running.command.op].target = TargetOf(running.command)
    /\ entries[running.command.op].state \in {"running", "cancelled"}
    /\ running.draft = Mutated(profile, running.command)

\* The inductive invariant.
IInv ==
  profile \in Profiles /\ EntryTypes /\ queue \in Seq(Commands) /\ EffectsCommitted /\ RunningLegal

-----------------------------------------------------------------------------
\* What a command of the journal says.
LEMMA CommandFields ==
  ASSUME JournalAssumption, NEW c \in Commands
  PROVE  /\ c.op \in Ops /\ c.type \in Types /\ c.item \in Items
         /\ TargetOf(c) \in Targets /\ TargetOf(c).item = c.item
         /\ c.type = "feedback.undo" => c.original \in Ops
<1>1. c \in [op : Ops, type : Types, item : Items, original : Ops \cup {None}]
  BY DEF JournalAssumption
<1> QED BY <1>1 DEF JournalAssumption, TargetOf, Targets

\* The drafts of the three types of commands.
LEMMA Drafts ==
  ASSUME JournalAssumption, NEW p \in Profiles, NEW c \in Commands
  PROVE  /\ Mutated(p, c) \in Profiles \cup {None}
         /\ (c.type = "feedback.record" /\ Mutated(p, c) # None) =>
              c.item \notin p.feedback /\ Mutated(p, c) = [p EXCEPT !.feedback = @ \cup {c.item}]
         /\ (c.type = "feedback.undo" /\ Mutated(p, c) # None) =>
              c.item \in p.feedback /\ Mutated(p, c) = [p EXCEPT !.feedback = @ \ {c.item}]
         /\ c.type = "rule.save" => Mutated(p, c) = [p EXCEPT !.rules = @ \cup {c.item}]
<1>1. c.type \in Types /\ c.item \in Items
  BY CommandFields
<1>2. CASE c.type = "feedback.record"
  BY <1>1, <1>2 DEF Mutated, CommitFeedback, Profiles
<1>3. CASE c.type = "feedback.undo"
  BY <1>1, <1>3 DEF Mutated, CommitFeedbackUndo, Profiles
<1>4. CASE c.type = "rule.save"
  <2>1. Mutated(p, c) = [p EXCEPT !.rules = @ \cup {c.item}]
    BY <1>4 DEF Mutated, CommitRule
  <2>2. [p EXCEPT !.rules = @ \cup {c.item}] \in Profiles
    BY <1>1 DEF Profiles
  <2> QED BY <1>4, <2>1, <2>2
<1> QED BY <1>1, <1>2, <1>3, <1>4 DEF Types

\* A new entry.
LEMMA AcknowledgedEntry ==
  ASSUME JournalAssumption, NEW c \in Commands
  PROVE  /\ Acknowledged(c) \in OperationEntries /\ Acknowledged(c).target = TargetOf(c)
         /\ Acknowledged(c).effect = "none" /\ Acknowledged(c).state = "acknowledged"
<1>1. TargetOf(c) \in Targets
  BY CommandFields
<1> QED BY <1>1 DEF Acknowledged, OperationEntries, OperationStates

\* The effects that the entries tell stay what they are when an entry without effect is
\* replaced by another.
LEMMA SameEffects ==
  ASSUME NEW o \in Ops, EntryTypes, NEW e, entries' = [entries EXCEPT ![o] = e],
         entries[o] = None \/ entries[o].effect = "none", e # None, e.effect = "none"
  PROVE  \A p \in Ops : EffectIn(p)' = EffectIn(p)
<1>1. ASSUME NEW p \in Ops \ {o} PROVE EffectIn(p)' = EffectIn(p)
  BY <1>1 DEF EffectIn, EntryTypes
<1>2. entries'[o] = e
  BY DEF EntryTypes
<1>3. EffectIn(o)' = EffectIn(o)
  BY <1>2 DEF EffectIn
<1> QED BY <1>1, <1>3

-----------------------------------------------------------------------------
AtomicVars == <<profile.feedback, profile.rules, profile.revision, [o \in Ops |-> EffectIn(o)]>>

\* A step that leaves the profile and the effects is a stutter of the atomic profile.
LEMMA Stutters ==
  ASSUME UNCHANGED profile, \A o \in Ops : EffectIn(o)' = EffectIn(o)
  PROVE  UNCHANGED AtomicVars
BY DEF AtomicVars

\* What a cancelled operation may not do.
CancelledStays ==
  \A o \in Ops : (entries[o] # None /\ entries[o].state = "cancelled") => EffectIn(o)'.kind = "none"

\* A cancelled operation has no effect, so none after a step that keeps the effects.
LEMMA CancelledKept ==
  ASSUME EffectsCommitted, \A o \in Ops : EffectIn(o)' = EffectIn(o)
  PROVE  CancelledStays
<1>1. ASSUME NEW o \in Ops, entries[o] # None, entries[o].state = "cancelled"
      PROVE  EffectIn(o).kind = "none"
  BY <1>1 DEF EffectsCommitted, EffectIn
<1> QED BY <1>1 DEF CancelledStays

\* A step that replaces one entry, without an effect before and after it, and leaves the
\* profile keeps the invariant, is a stutter of the atomic profile and cancels nothing.
LEMMA EntryStep ==
  ASSUME JournalAssumption, IInv, NEW o \in Ops, NEW e \in OperationEntries,
         entries' = [entries EXCEPT ![o] = e], entries[o] = None \/ entries[o].effect = "none",
         e.effect = "none", e.state \notin {"committed", "compensated"},
         UNCHANGED profile, queue' \in Seq(Commands), RunningLegal'
  PROVE  IInv' /\ UNCHANGED AtomicVars /\ CancelledStays
<1>1. e # None
  BY DEF JournalAssumption
<1>2. EntryTypes'
  BY DEF IInv, EntryTypes
<1>3. EffectsCommitted'
  BY DEF IInv, EntryTypes, EffectsCommitted
<1>4. \A p \in Ops : EffectIn(p)' = EffectIn(p)
  BY <1>1, SameEffects DEF IInv
<1> QED BY <1>2, <1>3, <1>4, Stutters, CancelledKept DEF IInv

\* So does a step that leaves the entries.
LEMMA NoEntryStep ==
  ASSUME IInv, UNCHANGED <<profile, entries>>, queue' \in Seq(Commands), RunningLegal'
  PROVE  IInv' /\ UNCHANGED AtomicVars /\ CancelledStays
<1>1. \A o \in Ops : EffectIn(o)' = EffectIn(o)
  BY DEF EffectIn
<1> QED BY <1>1, Stutters, CancelledKept DEF IInv, EntryTypes, EffectsCommitted

\* The initial state, which is that of the atomic profile.
LEMMA InitIInv == Init => IInv /\ Atomic!Init
<1> SUFFICES ASSUME Init PROVE IInv /\ Atomic!Init
  OBVIOUS
<1>1. IInv
  BY DEF Init, IInv, Profiles, EntryTypes, EffectsCommitted, RunningLegal
<1>2. \A o \in Ops : EffectIn(o) = [kind |-> "none"]
  BY DEF Init, EffectIn
<1> QED BY <1>1, <1>2 DEF Init, Atomic!Init, Atomic!Nothing

\* What a commit does: the profile takes its draft, the operation its effect, and an
\* undo takes the effect of the operation it compensates.
LEMMA CommitStep ==
  ASSUME JournalAssumption, IInv, Commit
  PROVE  IInv' /\ Atomic!Next /\ CancelledStays
<1>c. PICK c \in Commands : c = running.command
  <2>1. running \in Executions
    BY DEF IInv, RunningLegal, Commit, MayCommit
  <2> QED BY <2>1 DEF Executions
<1> DEFINE p == profile.revision + 1
           committed == [entries[c.op] EXCEPT !.state = "committed", !.retryable = FALSE,
                                              !.revision = p, !.effect = EffectOf(c.type)]
<1>1. /\ entries[c.op] # None /\ entries[c.op].target = TargetOf(c)
      /\ entries[c.op].state = "running" /\ running.draft = Mutated(profile, c)
      /\ running.draft # None
      /\ c.type = "feedback.undo" => Compensable(c)
  BY <1>c DEF IInv, RunningLegal, Commit, MayCommit
<1>2. c \in Commands
  OBVIOUS
<1>3. /\ c.op \in Ops /\ c.type \in Types /\ c.item \in Items /\ TargetOf(c).item = c.item
      /\ c.type = "feedback.undo" => c.original \in Ops
  BY <1>2, CommandFields
<1>4. /\ running.draft \in Profiles /\ profile \in Profiles
      /\ c.type = "feedback.record" =>
           c.item \notin profile.feedback /\ running.draft = [profile EXCEPT !.feedback = @ \cup {c.item}]
      /\ c.type = "feedback.undo" =>
           c.item \in profile.feedback /\ running.draft = [profile EXCEPT !.feedback = @ \ {c.item}]
      /\ c.type = "rule.save" => running.draft = [profile EXCEPT !.rules = @ \cup {c.item}]
  BY <1>1, <1>2, Drafts DEF IInv
<1>5. /\ profile' = [running.draft EXCEPT !.revision = p]
      /\ entries' = [o \in Ops |-> IF o = c.op THEN committed
                        ELSE IF c.type = "feedback.undo" /\ o = c.original THEN CompensatedEntry(c)
                        ELSE entries[o]]
      /\ running' = None /\ UNCHANGED queue
  BY <1>c DEF Commit
<1>6. profile.revision \in Nat /\ p \in Nat
  BY <1>4 DEF Profiles
<1>7. /\ profile' \in Profiles /\ profile'.revision = p
      /\ profile'.feedback = running.draft.feedback /\ profile'.rules = running.draft.rules
  BY <1>4, <1>5, <1>6 DEF Profiles
<1>8. /\ entries[c.op] \in OperationEntries /\ entries[c.op].effect = "none"
      /\ entries[c.op].target.item = c.item
  BY <1>1, <1>3 DEF IInv, EntryTypes, EffectsCommitted
<1>9. EffectOf(c.type) \in {"recorded", "removed", "saved"}
  BY <1>3 DEF EffectOf, Types
<1>10. /\ committed \in OperationEntries /\ committed # None /\ committed.state = "committed"
       /\ committed.effect = EffectOf(c.type) /\ committed.target.item = c.item
  <2> HIDE DEF p
  <2>1. committed \in OperationEntries
    BY <1>6, <1>8, <1>9 DEF OperationEntries, OperationStates
  <2> QED BY <1>8, <2>1 DEF OperationEntries, JournalAssumption
<1>11. ASSUME c.type = "feedback.undo"
       PROVE  /\ c.original \in Ops /\ c.original # c.op /\ entries[c.original] # None
              /\ entries[c.original].state = "committed" /\ entries[c.original].effect = "recorded"
              /\ entries[c.original].target.item = c.item
              /\ CompensatedEntry(c) \in OperationEntries /\ CompensatedEntry(c) # None
              /\ CompensatedEntry(c).state = "compensated" /\ CompensatedEntry(c).effect = "recorded"
              /\ CompensatedEntry(c).target.item = c.item
  <2>1. /\ c.original \in Ops /\ c.original # c.op /\ entries[c.original] # None
        /\ entries[c.original].state = "committed" /\ entries[c.original].effect = "recorded"
        /\ entries[c.original].target.item = c.item
    BY <1>1, <1>3, <1>11 DEF Compensable
  <2>2. entries[c.original] \in OperationEntries
    BY <2>1 DEF IInv, EntryTypes
  <2>3. CompensatedEntry(c) \in OperationEntries
    BY <1>3, <2>2 DEF CompensatedEntry, OperationEntries, OperationStates
  <2>4. /\ CompensatedEntry(c).state = "compensated" /\ CompensatedEntry(c).effect = "recorded"
        /\ CompensatedEntry(c).target.item = c.item
    BY <2>1, <2>2 DEF CompensatedEntry, OperationEntries
  <2> QED BY <2>1, <2>3, <2>4 DEF JournalAssumption
<1> HIDE DEF committed, p
<1>12. EntryTypes'
  BY <1>5, <1>10, <1>11 DEF EntryTypes, IInv
<1>13. EffectsCommitted'
  <2>1. ASSUME NEW o \in Ops, entries'[o] # None
        PROVE  entries'[o].effect # "none" <=> entries'[o].state \in {"committed", "compensated"}
    <3>1. CASE o = c.op
      BY <1>5, <1>9, <1>10, <2>1, <3>1
    <3>2. CASE o # c.op /\ c.type = "feedback.undo" /\ o = c.original
      BY <1>5, <1>11, <2>1, <3>2
    <3>3. CASE o # c.op /\ ~(c.type = "feedback.undo" /\ o = c.original)
      BY <1>5, <2>1, <3>3 DEF IInv, EffectsCommitted
    <3> QED BY <3>1, <3>2, <3>3
  <2> QED BY <2>1 DEF EffectsCommitted
<1>14. IInv'
  BY <1>5, <1>7, <1>12, <1>13 DEF IInv, RunningLegal
<1>15. /\ EffectIn(c.op) = [kind |-> "none"]
       /\ EffectIn(c.op)' = [kind |-> EffectOf(c.type), item |-> c.item]
       /\ c.type = "feedback.undo" =>
            /\ EffectIn(c.original) = [kind |-> "recorded", item |-> c.item]
            /\ EffectIn(c.original)' = [kind |-> "undone", item |-> c.item]
       /\ \A o \in Ops : o # c.op /\ ~(c.type = "feedback.undo" /\ o = c.original) =>
            EffectIn(o)' = EffectIn(o)
  <2>1. EffectIn(c.op) = [kind |-> "none"]
    BY <1>8 DEF EffectIn
  <2>2. EffectIn(c.op)' = [kind |-> EffectOf(c.type), item |-> c.item]
    <3>1. entries'[c.op] = committed
      BY <1>3, <1>5
    <3> QED BY <1>9, <1>10, <3>1 DEF EffectIn
  <2>3. ASSUME c.type = "feedback.undo"
        PROVE  /\ EffectIn(c.original) = [kind |-> "recorded", item |-> c.item]
               /\ EffectIn(c.original)' = [kind |-> "undone", item |-> c.item]
    <3>1. entries'[c.original] = CompensatedEntry(c)
      BY <1>5, <1>11, <2>3
    <3> QED BY <1>11, <2>3, <3>1 DEF EffectIn
  <2>4. ASSUME NEW o \in Ops, o # c.op, ~(c.type = "feedback.undo" /\ o = c.original)
        PROVE  EffectIn(o)' = EffectIn(o)
    BY <1>5, <2>4 DEF EffectIn
  <2> QED BY <2>1, <2>2, <2>3, <2>4
<1> DEFINE effects == [o \in Ops |-> EffectIn(o)]
<1>16. ASSUME c.type = "feedback.record" PROVE Atomic!Next
  <2>1. effects' = [effects EXCEPT ![c.op] = [kind |-> "recorded", item |-> c.item]]
    BY <1>3, <1>15, <1>16 DEF EffectOf
  <2>2. Atomic!Record(c.op, c.item)
    BY <1>3, <1>4, <1>6, <1>7, <1>15, <1>16, <2>1
    DEF p, Profiles, Atomic!Record, Atomic!TakesEffect, Atomic!Did, Atomic!Nothing
  <2> QED BY <1>3, <2>2 DEF Atomic!Next
<1>17. ASSUME c.type = "rule.save" PROVE Atomic!Next
  <2>1. effects' = [effects EXCEPT ![c.op] = [kind |-> "saved", item |-> c.item]]
    BY <1>3, <1>15, <1>17 DEF EffectOf
  <2>2. Atomic!Save(c.op, c.item)
    BY <1>3, <1>4, <1>6, <1>7, <1>15, <1>17, <2>1
    DEF p, Profiles, Atomic!Save, Atomic!TakesEffect, Atomic!Did, Atomic!Nothing
  <2> QED BY <1>3, <2>2 DEF Atomic!Next
<1>18. ASSUME c.type = "feedback.undo" PROVE Atomic!Next
  <2>1. effects' = [effects EXCEPT ![c.op] = [kind |-> "removed", item |-> c.item],
                                   ![c.original] = [kind |-> "undone", item |-> c.item]]
    BY <1>3, <1>11, <1>15, <1>18 DEF EffectOf
  <2>2. Atomic!Undo(c.op, c.original, c.item)
    BY <1>3, <1>4, <1>6, <1>7, <1>11, <1>15, <1>18, <2>1
    DEF p, Profiles, Atomic!Undo, Atomic!TakesEffect, Atomic!Did, Atomic!Nothing
  <2> QED BY <1>3, <1>11, <1>18, <2>2 DEF Atomic!Next
<1>19. CancelledStays
  <2>1. ASSUME NEW o \in Ops, entries[o] # None, entries[o].state = "cancelled"
        PROVE  EffectIn(o)'.kind = "none"
    <3>1. o # c.op /\ ~(c.type = "feedback.undo" /\ o = c.original)
      BY <1>1, <1>11, <2>1
    <3>2. EffectIn(o)' = EffectIn(o) /\ EffectIn(o) = [kind |-> "none"]
      BY <1>15, <2>1, <3>1 DEF EffectIn, IInv, EffectsCommitted
    <3> QED BY <3>2
  <2> QED BY <2>1 DEF CancelledStays
<1> QED BY <1>3, <1>14, <1>16, <1>17, <1>18, <1>19 DEF Types

\* The next execution begins with an entry that has no effect, or is answered at once.
LEMMA BeginStep ==
  ASSUME JournalAssumption, IInv, Begin
  PROVE  IInv' /\ UNCHANGED AtomicVars /\ CancelledStays
<1>1. queue \in Seq(Commands) /\ queue # <<>> /\ queue' = Tail(queue) /\ running = None
  BY DEF IInv, Begin
<1>2. queue' \in Seq(Commands) /\ Head(queue) \in Commands
  BY <1>1
<1>c. PICK c \in Commands : c = Head(queue)
  BY <1>2
<1>3. CASE entries[c.op] # None /\ (~Matches(c) \/ Decided(c.op))
  <2>1. UNCHANGED <<profile, entries, running>>
    BY <1>c, <1>3 DEF Begin
  <2> QED BY <1>1, <1>2, <2>1, NoEntryStep DEF RunningLegal
<1>4. CASE ~(entries[c.op] # None /\ (~Matches(c) \/ Decided(c.op)))
  <2> DEFINE entry == IF entries[c.op] = None THEN Acknowledged(c) ELSE entries[c.op]
             e == [entry EXCEPT !.state = "running", !.attempt = @ + 1, !.retryable = TRUE]
  <2>1. /\ entries' = [entries EXCEPT ![c.op] = e]
        /\ running' = [command |-> c, draft |-> Mutated(profile, c)] /\ UNCHANGED profile
    BY <1>c, <1>4 DEF Begin
  <2>2. c.op \in Ops
    BY CommandFields
  <2>3. /\ entry \in OperationEntries /\ entry.target = TargetOf(c) /\ entry.effect = "none"
        /\ entries[c.op] = None \/ entries[c.op].effect = "none"
    <3>1. CASE entries[c.op] = None
      BY <3>1, AcknowledgedEntry
    <3>2. CASE entries[c.op] # None
      BY <1>4, <2>2, <3>2 DEF IInv, EntryTypes, EffectsCommitted, Matches, Decided
    <3> QED BY <3>1, <3>2
  <2> HIDE DEF entry
  <2>4. /\ e \in OperationEntries /\ e.target = TargetOf(c) /\ e.effect = "none"
        /\ e.state = "running"
    <3>1. entry.attempt \in Nat
      BY <2>3 DEF OperationEntries
    <3> DEFINE number == entry.attempt + 1
    <3>2. number \in Nat
      BY <3>1
    <3>3. e = [entry EXCEPT !.state = "running", !.attempt = number, !.retryable = TRUE]
      OBVIOUS
    <3> HIDE DEF number, e
    <3> QED BY <2>3, <3>2, <3>3 DEF OperationEntries, OperationStates
  <2> HIDE DEF e
  <2>5. RunningLegal'
    <3>1. running' \in Executions
      BY <2>1, Drafts DEF IInv, Executions
    <3>2. entries'[c.op] = e /\ e # None
      BY <2>1, <2>2, <2>4 DEF IInv, EntryTypes, JournalAssumption
    <3> QED BY <2>1, <2>4, <3>1, <3>2 DEF RunningLegal
  <2> QED BY <1>2, <2>1, <2>2, <2>3, <2>4, <2>5, EntryStep
<1> QED BY <1>3, <1>4

\* The execution fails, and its entry with it.
LEMMA FailsStep ==
  ASSUME JournalAssumption, IInv, Fails
  PROVE  IInv' /\ UNCHANGED AtomicVars /\ CancelledStays
<1>c. PICK c \in Commands : c = running.command
  BY DEF IInv, RunningLegal, Fails, Executions
<1> DEFINE e == [entries[c.op] EXCEPT !.state = "failed", !.retryable = FALSE, !.effect = "none"]
<1>1. c.op \in Ops /\ entries[c.op] # None /\ entries[c.op].effect = "none"
  BY <1>c, CommandFields DEF IInv, RunningLegal, EffectsCommitted, Fails
<1>2. /\ entries' = [entries EXCEPT ![c.op] = e] /\ running' = None /\ UNCHANGED <<profile, queue>>
  BY <1>c DEF Fails
<1>3. entries[c.op] \in OperationEntries
  BY <1>1 DEF IInv, EntryTypes
<1>4. e \in OperationEntries /\ e.effect = "none" /\ e.state = "failed"
  BY <1>3 DEF OperationEntries, OperationStates
<1> HIDE DEF e
<1>5. RunningLegal' /\ queue' \in Seq(Commands)
  BY <1>2 DEF RunningLegal, IInv
<1> QED BY <1>1, <1>2, <1>4, <1>5, EntryStep

\* A cancellation changes an entry without effect, also that of the execution.
LEMMA CancelStep ==
  ASSUME JournalAssumption, IInv, NEW o \in Ops, Cancel(o)
  PROVE  IInv' /\ UNCHANGED AtomicVars /\ CancelledStays
<1> DEFINE e == [entries[o] EXCEPT !.state = "cancelled", !.retryable = FALSE]
<1>1. entries[o] \in OperationEntries /\ entries[o] # None /\ entries[o].effect = "none"
  BY DEF Cancel, IInv, EntryTypes, EffectsCommitted
<1>2. entries' = [entries EXCEPT ![o] = e] /\ UNCHANGED <<profile, queue, running>>
  BY DEF Cancel
<1>3. /\ e \in OperationEntries /\ e.effect = "none" /\ e.state = "cancelled"
      /\ e.target = entries[o].target
  BY <1>1 DEF OperationEntries, OperationStates
<1> HIDE DEF e
<1>4. RunningLegal'
  <2>1. CASE running = None
    BY <1>2, <2>1 DEF RunningLegal
  <2>2. CASE running # None
    <3>1. PICK c \in Commands : c = running.command
      BY <2>2 DEF IInv, RunningLegal, Executions
    <3>2. c.op \in Ops
      BY CommandFields
    <3>3. /\ entries'[c.op] # None /\ entries'[c.op].target = TargetOf(c)
          /\ entries'[c.op].state \in {"running", "cancelled"}
      BY <1>2, <1>3, <2>2, <3>1, <3>2 DEF IInv, EntryTypes, RunningLegal, JournalAssumption
    <3> QED BY <1>2, <2>2, <3>1, <3>3 DEF IInv, RunningLegal
  <2> QED BY <2>1, <2>2
<1> QED BY <1>1, <1>2, <1>3, <1>4, EntryStep DEF IInv

\* An operation that had no entry gets one; the execution has had its own.
LEMMA AcknowledgeStep ==
  ASSUME JournalAssumption, IInv, NEW c \in Commands, Acknowledge(c)
  PROVE  IInv' /\ UNCHANGED AtomicVars /\ CancelledStays
<1>1. /\ entries[c.op] = None /\ entries' = [entries EXCEPT ![c.op] = Acknowledged(c)]
      /\ UNCHANGED <<profile, queue, running>> /\ c.op \in Ops
  BY CommandFields DEF Acknowledge
<1>2. RunningLegal'
  <2>1. CASE running = None
    BY <1>1, <2>1 DEF RunningLegal
  <2>2. CASE running # None
    <3>1. running.command.op # c.op
      BY <1>1, <2>2 DEF IInv, RunningLegal
    <3>2. entries'[running.command.op] = entries[running.command.op]
      BY <1>1, <2>2, <3>1 DEF IInv, EntryTypes
    <3> QED BY <1>1, <2>2, <3>2 DEF IInv, RunningLegal
  <2> QED BY <2>1, <2>2
<1> QED BY <1>1, <1>2, AcknowledgedEntry, EntryStep DEF IInv

\* Every step keeps the invariant, is one of the atomic profile or leaves it as it is,
\* and gives no effect to what was cancelled.
LEMMA NextIInv ==
  JournalAssumption /\ IInv /\ [Next]_jVars =>
    IInv' /\ (Atomic!Next \/ UNCHANGED AtomicVars) /\ CancelledStays
<1> SUFFICES ASSUME JournalAssumption, IInv, [Next]_jVars
             PROVE  IInv' /\ (Atomic!Next \/ UNCHANGED AtomicVars) /\ CancelledStays
  OBVIOUS
<1>1. CASE UNCHANGED jVars
  BY <1>1, NoEntryStep DEF jVars, IInv, RunningLegal
<1>2. CASE Tick
  <2>1. CASE Abandon \/ Interrupted
    <3>1. running' = None /\ UNCHANGED <<profile, entries, queue>>
      BY <2>1 DEF Abandon, Interrupted
    <3> QED BY <3>1, NoEntryStep DEF IInv, RunningLegal
  <2> QED BY <1>2, <2>1, BeginStep, FailsStep, CommitStep DEF Tick
<1>3. CASE FromSnapshot
  <2>1. running' = None /\ queue' = <<>> /\ UNCHANGED <<profile, entries>>
    BY <1>3 DEF FromSnapshot
  <2> QED BY <2>1, NoEntryStep DEF RunningLegal
<1>4. ASSUME NEW c \in Commands, Execute(c)
      PROVE  IInv' /\ UNCHANGED AtomicVars /\ CancelledStays
  <2>1. queue' \in Seq(Commands) /\ UNCHANGED <<profile, entries, running>>
    BY <1>4 DEF Execute, IInv
  <2> QED BY <2>1, NoEntryStep DEF IInv, RunningLegal
<1> QED BY <1>1, <1>2, <1>3, <1>4, AcknowledgeStep, CancelStep DEF Next

\* Profile and journal implement the atomic profile: every operation changes it at most
\* once and as a whole, however often it is executed, interrupted or taken up again.
THEOREM ExecutesOnceThm == JournalAssumption /\ Spec => ExecutesOnce
<1>1. JournalAssumption => JournalAssumption'
  BY DEF JournalAssumption, Types, Targets, Profiles, OperationEntries, OperationStates, Executions
<1>2. JournalAssumption /\ IInv /\ [Next]_jVars => IInv' /\ [Atomic!Next]_AtomicVars
  BY NextIInv
<1>3. JournalAssumption /\ Spec => Atomic!Init /\ [][Atomic!Next]_AtomicVars
  BY <1>1, <1>2, InitIInv, PTL DEF Spec
<1> QED BY <1>3, PTL DEF ExecutesOnce, Atomic!Spec, AtomicVars

\* What was cancelled never takes effect, though its mutation may be under way.
THEOREM CancelledHasNoEffectThm == JournalAssumption /\ Spec => CancelledHasNoEffect
<1>1. JournalAssumption => JournalAssumption'
  BY DEF JournalAssumption, Types, Targets, Profiles, OperationEntries, OperationStates, Executions
<1>2. JournalAssumption /\ IInv /\ [Next]_jVars =>
        IInv' /\ [\A o \in Ops : (entries[o] # None /\ entries[o].state = "cancelled")
                    => EffectIn(o)'.kind = "none"]_entries
  BY NextIInv DEF CancelledStays
<1> QED BY <1>1, <1>2, InitIInv, PTL DEF Spec, CancelledHasNoEffect

-----------------------------------------------------------------------------
(* The submissions.                                                             *)

\* What is in flight, and how far it is.
Flights ==
  {Grounded} \cup [pc : {"read", "check", "revalidate", "verify"}, trusted : BOOLEAN, at : Nat]

\* The inductive invariant: of what the store has not forgotten, who may click an attempt has
\* not clicked it, and what is about to be clicked, or was, is stored as begun.
FInv ==
  /\ today \in Nat
  /\ attempt = [a \in Attempts |-> attempt[a]]
  /\ flight \in [Attempts -> Flights]
  /\ clicks \in [Attempts -> Nat]
  /\ forgotten \subseteq Attempts
  /\ \A a \in Attempts \ forgotten :
       /\ clicks[a] \in {0, 1}
       /\ flight[a].pc \in {"check", "revalidate"} => clicks[a] = 0
       /\ flight[a].pc = "revalidate" => Begun(attempt[a])
       /\ clicks[a] = 1 => Begun(attempt[a])

\* What a write takes away that was begun is forgotten.
LEMMA PutKeeps ==
  ASSUME NEW a, NEW state, NEW at, Put(a, state, at), attempt = [b \in Attempts |-> attempt[b]]
  PROVE  /\ attempt' = [b \in Attempts |-> attempt'[b]]
         /\ forgotten \subseteq forgotten' /\ forgotten' \subseteq forgotten \cup Attempts
         /\ \A b \in Attempts \ forgotten' : b # a /\ Begun(attempt[b]) => Begun(attempt'[b])
         /\ (a \in Attempts \ forgotten' /\ Begun(At(state, at))) => Begun(attempt'[a])
<1> DEFINE written == [attempt EXCEPT ![a] = At(state, at)]
           fresh == {b \in Attempts : written[b] # None /\ at - written[b].at <= KeptFor(written[b])}
<1>1. PICK kept \in SUBSET fresh :
        /\ attempt' = [b \in Attempts |-> IF b \in kept THEN written[b] ELSE None]
        /\ forgotten' = forgotten \cup {b \in Attempts \ kept : Begun(written[b])}
  BY Zenon DEF Put
<1>2. /\ \A b \in Attempts : b # a => written[b] = attempt[b]
      /\ a \in Attempts => written[a] = At(state, at)
  OBVIOUS
<1> HIDE DEF written, fresh
<1>3. \A b \in Attempts \ forgotten' : Begun(written[b]) => Begun(attempt'[b])
  BY <1>1
<1> QED BY <1>1, <1>2, <1>3

\* A submission that ends.
LEMMA FinishFInv ==
  ASSUME FeedbackAssumption, FInv, NEW a \in Attempts, NEW state \in Final,
         flight[a] # Grounded, Finish(a, state), UNCHANGED clicks
  PROVE  FInv'
<1>1. At(state, flight[a].at) # None /\ At(state, flight[a].at).state # "pending-review"
  BY DEF At, FInv, Flights, Final, AttemptStates, FeedbackAssumption
<1>2. /\ attempt' = [b \in Attempts |-> attempt'[b]]
      /\ forgotten \subseteq forgotten' /\ forgotten' \subseteq Attempts
      /\ a \notin forgotten' => Begun(attempt'[a])
      /\ \A b \in Attempts \ forgotten' : b # a /\ Begun(attempt[b]) => Begun(attempt'[b])
  BY <1>1, PutKeeps DEF Finish, FInv, Begun
<1>3. /\ flight' = [flight EXCEPT ![a] = Grounded] /\ UNCHANGED <<today, clicks>>
      /\ Grounded \in Flights /\ Grounded.pc = "grounded"
  BY DEF Finish, Flights, Grounded
<1> QED BY <1>2, <1>3 DEF FInv

LEMMA InitFInv == FeedbackInit => FInv
  BY DEF FeedbackInit, FInv, Flights, Grounded, Begun

\* An attempt is stored anew, by an offer, a recovery or a cancellation.
LEMMA StoreFInv ==
  ASSUME FeedbackAssumption, FInv, NEW a \in Attempts, NEW state \in AttemptStates,
         Begun(attempt[a]) => state # "pending-review",
         Put(a, state, today), UNCHANGED <<today, flight, clicks>>
  PROVE  FInv'
<1>1. At(state, today) # None /\ At(state, today).state = state
  BY DEF At, FInv, FeedbackAssumption
<1>2. /\ attempt' = [b \in Attempts |-> attempt'[b]]
      /\ forgotten \subseteq forgotten' /\ forgotten' \subseteq Attempts
      /\ \A b \in Attempts \ forgotten' : Begun(attempt[b]) => Begun(attempt'[b])
  BY <1>1, PutKeeps DEF FInv, Begun
<1> QED BY <1>2 DEF FInv

\* A step of a submission.
LEMMA GoesFInv ==
  ASSUME FeedbackAssumption, FInv, NEW a \in Attempts, Goes(a)
  PROVE  FInv'
<1>f. flight[a] \in Flights /\ (flight[a].pc # "grounded" => flight[a] # Grounded)
  BY DEF FInv, Flights, Grounded
<1>1. CASE ReadAttempt(a)
  <2>1. CASE Finish(a, "uncertain")
    BY <1>1, <1>f, <2>1, FinishFInv DEF ReadAttempt, Page, Final
  <2>2. CASE ~Finish(a, "uncertain")
    <3> DEFINE f == IF attempt[a] # None /\ attempt[a].state = "pending-review"
                    THEN [flight[a] EXCEPT !.pc = "check"] ELSE Grounded
    <3>1. flight' = [flight EXCEPT ![a] = f] /\ UNCHANGED <<attempt, forgotten, today, clicks>>
      BY <1>1, <2>2 DEF ReadAttempt, Page
    <3>2. /\ f \in Flights /\ f.pc \in {"check", "grounded"}
          /\ (f.pc = "check" /\ a \notin forgotten) => clicks[a] = 0
      BY <1>1, <1>f DEF ReadAttempt, Flights, Grounded, FInv, Begun
    <3> HIDE DEF f
    <3> QED BY <3>1, <3>2 DEF FInv
  <2> QED BY <2>1, <2>2
<1>2. CASE CheckGesture(a)
  <2>1. CASE ~enabled \/ ~flight[a].trusted
    BY <1>2, <1>f, <2>1, FinishFInv DEF CheckGesture, Page, Final
  <2>2. CASE enabled /\ flight[a].trusted /\ ~Allows
    BY <1>2, <1>f, <2>2, FinishFInv DEF CheckGesture, Page, Final
  <2>3. CASE enabled /\ flight[a].trusted /\ Allows
    <3>1. /\ Put(a, "submitting", flight[a].at) /\ flight[a].pc = "check"
          /\ flight' = [flight EXCEPT ![a].pc = "revalidate"] /\ UNCHANGED <<today, clicks>>
      BY <1>2, <2>3 DEF CheckGesture, Page
    <3>2. At("submitting", flight[a].at) # None /\ At("submitting", flight[a].at).state = "submitting"
      BY <1>f, <3>1 DEF At, Flights, Grounded, FeedbackAssumption, AttemptStates
    <3>3. /\ attempt' = [b \in Attempts |-> attempt'[b]]
          /\ forgotten \subseteq forgotten' /\ forgotten' \subseteq Attempts
          /\ a \notin forgotten' => Begun(attempt'[a])
          /\ \A b \in Attempts \ forgotten' : b # a /\ Begun(attempt[b]) => Begun(attempt'[b])
      BY <3>1, <3>2, PutKeeps DEF FInv, Begun
    <3>4. [flight[a] EXCEPT !.pc = "revalidate"] \in Flights
      BY <1>f, <3>1 DEF Flights, Grounded
    <3> QED BY <3>1, <3>3, <3>4 DEF FInv
  <2> QED BY <2>1, <2>2, <2>3
<1>3. CASE RevalidationThrows(a)
  BY <1>3, <1>f, FinishFInv DEF RevalidationThrows, Page, Final
<1>4. ASSUME NEW state \in {"uncertain", "cancelled"}, Invalid(a, state) PROVE FInv'
  BY <1>4, <1>f, FinishFInv DEF Invalid, Page, Final
<1>5. ASSUME NEW present \in BOOLEAN, ActivateControl(a, present) PROVE FInv'
  <2>1. CASE a \in activated \/ ~present
    BY <1>5, <1>f, <2>1, FinishFInv DEF ActivateControl, Page, Final
  <2>2. CASE ~(a \in activated \/ ~present)
    <3>1. /\ clicks' = [clicks EXCEPT ![a] = @ + 1] /\ flight' = [flight EXCEPT ![a].pc = "verify"]
          /\ UNCHANGED <<attempt, forgotten, today>> /\ flight[a].pc = "revalidate"
      BY <1>5, <2>2 DEF ActivateControl
    <3>2. [flight[a] EXCEPT !.pc = "verify"] \in Flights
      BY <1>f, <3>1 DEF Flights, Grounded
    <3>3. a \notin forgotten => clicks[a] = 0 /\ Begun(attempt[a])
      BY <3>1 DEF FInv
    <3> QED BY <3>1, <3>2, <3>3 DEF FInv
  <2> QED BY <2>1, <2>2
<1>6. ASSUME NEW state \in {"submitted", "rejected", "cooldown", "uncertain"}, Verify(a, state) PROVE FInv'
  BY <1>6, <1>f, FinishFInv DEF Verify, Page, Final
<1> QED BY <1>1, <1>2, <1>3, <1>4, <1>5, <1>6 DEF Goes

\* Every step keeps the invariant, wherever the worker stops and the page is loaded again.
LEMMA NextFInv == FeedbackAssumption /\ FInv /\ [FeedbackNext]_nVars => FInv'
<1> SUFFICES ASSUME FeedbackAssumption, FInv, [FeedbackNext]_nVars PROVE FInv'
  OBVIOUS
<1>1. CASE UNCHANGED nVars
  BY <1>1 DEF nVars, FInv
<1>2. ASSUME NEW a \in Attempts, Goes(a) PROVE FInv'
  BY <1>2, GoesFInv
<1>3. ASSUME NEW a \in Attempts, CancelInFlight(a) PROVE FInv'
  <2>1. CASE attempt[a] # None /\ attempt[a].state = "pending-review"
    BY <1>3, <2>1, StoreFInv DEF CancelInFlight, AttemptStates, Final
  <2>2. CASE ~(attempt[a] # None /\ attempt[a].state = "pending-review")
    BY <1>3, <2>2 DEF CancelInFlight, FInv
  <2> QED BY <2>1, <2>2
<1>4. ASSUME NEW a \in Attempts, RecoverInterrupted(a) PROVE FInv'
  BY <1>4, StoreFInv DEF RecoverInterrupted, AttemptStates, Final
<1>5. ASSUME NEW a \in Attempts, NEW yes \in BOOLEAN, Offer(a, yes) PROVE FInv'
  <2>1. ~Begun(attempt[a]) /\ UNCHANGED <<today, flight, clicks>>
    BY <1>5 DEF Offer, Begun
  <2> DEFINE s == IF enabled /\ yes /\ Allows THEN "pending-review" ELSE "unavailable"
  <2>2. s \in AttemptStates /\ Put(a, s, today)
    BY <1>5 DEF Offer, AttemptStates, Final
  <2> HIDE DEF s
  <2> QED BY <2>1, <2>2, StoreFInv
<1>6. ASSUME NEW a \in Attempts, NEW yes \in BOOLEAN, Submit(a, yes) PROVE FInv'
  <2>1. [pc |-> "read", trusted |-> yes, at |-> today] \in Flights
    BY DEF Flights, FInv
  <2> QED BY <1>6, <2>1 DEF Submit, FInv
<1>7. ASSUME NEW on \in BOOLEAN, WorkerRestart(on) PROVE FInv'
  BY <1>7 DEF WorkerRestart, FInv, Flights, Grounded
<1>8. CASE DisableFeedback
  <2>1. \A a \in Attempts : Begun(attempt[a]) => attempt'[a] = attempt[a]
    BY <1>8 DEF DisableFeedback, Begun
  <2> QED BY <1>8, <2>1 DEF DisableFeedback, FInv
<1>9. CASE SelfTestSucceeded \/ Enable \/ ListInterrupted \/ PageReload \/ NextDay
  BY <1>9 DEF SelfTestSucceeded, Enable, ListInterrupted, PageReload, NextDay, FInv
<1> QED BY <1>1, <1>2, <1>3, <1>4, <1>5, <1>6, <1>7, <1>8, <1>9 DEF FeedbackNext, RetryOffer

\* The control of an attempt is clicked at most once, whatever gestures are repeated and
\* wherever the worker stops, with or without a recovery, unless the store has discarded the
\* attempt after it was begun.
THEOREM ClickedOnceThm == FeedbackAssumption /\ FeedbackSpec => []ClickedOnce
<1>1. FeedbackAssumption => FeedbackAssumption'
  BY DEF FeedbackAssumption, AttemptStates, Final
<1>2. FInv => ClickedOnce
  BY DEF FInv, ClickedOnce
<1> QED BY <1>1, <1>2, InitFInv, NextFInv, PTL DEF FeedbackSpec

-----------------------------------------------------------------------------
(* The release.                                                                 *)

\* The steps of a job that has made a release.
Released == {"planned", "branched", "proposed", "mergeable", "merged"}

\* A request is for what CI passed, and so is the release made for it; one that is merged is
\* on main.
RequestLegal(r) == r = [source |-> r.source, count |-> r.count] /\ r.source \in verified
JobLegal ==
  /\ DOMAIN job = {"pc", "request", "release", "publish", "more"} /\ RequestLegal(job.request)
  /\ job.pc \in Released => job.release.version \in Nat /\ job.release.source \in verified
  /\ job.pc = "merged" => \E i \in Commits : main[i] = Merged(job.release)

\* What merges on main say comes from verified commits.
MainLegal ==
  /\ main \in Seq([bump : BOOLEAN, version : Nat, source : Nat])
  /\ \A i \in Commits : IsMerge(i) => main[i].source \in verified

\* So do the tags, and there is a highest version.
TagsLegal ==
  /\ \A t \in tags : t.version \in Nat /\ t.source \in verified
  /\ \E n \in Nat : \A t \in tags : t.version <= n

\* The inductive invariant.
RInv ==
  /\ verified \subseteq Nat /\ MainLegal /\ TagsLegal
  /\ waiting # None => RequestLegal(waiting)
  /\ job # None => JobLegal

\* A set of natural numbers that is not empty has a least one.
LEMMA LeastIs ==
  ASSUME NEW T, T \subseteq Nat, T # {}
  PROVE  \E x \in T : \A y \in T : x <= y
<1> DEFINE R == OpToRel(<, Nat)
<1>1. IsWellFoundedOn(R, Nat)
  BY NatLessThanWellFounded
<1>2. \A y \in Nat, x \in Nat : <<y, x>> \in R <=> y < x
  BY DEF OpToRel
<1> HIDE DEF R
<1>3. \E x \in T : \A y \in T : ~(<<y, x>> \in R)
  BY <1>1, WFMin
<1>4. PICK x \in T : \A y \in T : ~(<<y, x>> \in R)
  BY <1>3
<1>5. \A y \in T : ~(y < x)
  BY <1>2, <1>4
<1> QED BY <1>5

\* A set of tags with natural versions has one of the least.
LEMMA OldestIs ==
  ASSUME NEW S, S # {}, \A t \in S : t.version \in Nat
  PROVE  Oldest(S) \in S
<1> DEFINE V == {t.version : t \in S}
<1>1. V \subseteq Nat /\ V # {}
  OBVIOUS
<1>2. PICK v \in V : \A w \in V : v <= w
  BY <1>1, LeastIs
<1>3. PICK t \in S : t.version = v
  OBVIOUS
<1>4. \A u \in S : t.version <= u.version
  BY <1>2, <1>3
<1> QED BY <1>3, <1>4 DEF Oldest

\* A set of tags with bounded versions has one of the highest.
LEMMA LatestExists ==
  ASSUME NEW S, S # {}, \A t \in S : t.version \in Nat,
         NEW n \in Nat, \A t \in S : t.version <= n
  PROVE  \E t \in S : \A u \in S : u.version <= t.version
<1> DEFINE B == {m \in Nat : \A t \in S : t.version <= m}
<1>1. B \subseteq Nat /\ B # {}
  OBVIOUS
<1>2. PICK m \in B : \A k \in B : m <= k
  BY <1>1, LeastIs
<1>3. \E t \in S : t.version = m
  <2>1. SUFFICES ASSUME \A t \in S : t.version # m PROVE FALSE
    OBVIOUS
  <2>2. \A t \in S : t.version < m
    BY <2>1
  <2>3. m - 1 \in B
    BY <2>2
  <2> QED BY <1>2, <2>3
<1>4. PICK t \in S : t.version = m
  BY <1>3
<1>5. \A u \in S : u.version <= t.version
  BY <1>2, <1>4
<1> QED BY <1>5

\* It is the one that is chosen.
LEMMA LatestIs ==
  ASSUME NEW S, S # {}, \A t \in S : t.version \in Nat,
         NEW n \in Nat, \A t \in S : t.version <= n
  PROVE  Latest(S) \in S
BY LatestExists DEF Latest

\* The version that is planned is a version.
LEMMA PlannedVersionIs == TagsLegal => PlannedVersion \in Nat
<1> SUFFICES ASSUME TagsLegal, Baseline # {} PROVE Latest(Baseline).version \in Nat
  BY DEF PlannedVersion
<1>1. PICK n \in Nat : \A t \in tags : t.version <= n
  BY DEF TagsLegal
<1>2. Baseline \subseteq tags /\ \A t \in tags : t.version \in Nat
  BY DEF Baseline, TagsLegal
<1>3. Latest(Baseline) \in Baseline
  BY <1>1, <1>2, LatestIs
<1> QED BY <1>2, <1>3

\* A commit of main.
LEMMA CommitIs ==
  ASSUME MainLegal, NEW i \in Commits
  PROVE  i \in Nat /\ main[i] \in [bump : BOOLEAN, version : Nat, source : Nat]
<1> DEFINE R == [bump : BOOLEAN, version : Nat, source : Nat]
<1>1. main \in Seq(R)
  BY DEF MainLegal
<1> HIDE DEF R
<1>2. i \in 1 .. Len(main)
  BY <1>1 DEF Commits
<1>3. main[i] \in R
  BY <1>1, <1>2
<1> QED BY <1>2, <1>3 DEF R

\* main grows by a push or by the merge of what was verified.
LEMMA MainGrows ==
  ASSUME MainLegal, UNCHANGED verified, NEW c \in [bump : BOOLEAN, version : Nat, source : Nat],
         c.version > 0 => c.source \in verified, main' = Append(main, c)
  PROVE  /\ MainLegal' /\ \A i \in Commits : i \in Commits' /\ main'[i] = main[i]
         /\ \E i \in Commits' : main'[i] = c
<1>1. main' \in Seq([bump : BOOLEAN, version : Nat, source : Nat]) /\ Len(main') = Len(main) + 1
  BY DEF MainLegal
<1>2. Commits = 1 .. Len(main) /\ Commits' = 1 .. (Len(main) + 1) /\ Len(main) \in Nat
  BY <1>1 DEF Commits, MainLegal
<1>3. (\A i \in Commits : main'[i] = main[i]) /\ main'[Len(main) + 1] = c
  BY <1>2 DEF MainLegal
<1>4. \A i \in Commits' : i \in Commits \/ i = Len(main) + 1
  BY <1>2
<1>5. \A i \in Commits' : IsMerge(i)' => main'[i].source \in verified
  BY <1>3, <1>4 DEF MainLegal, IsMerge
<1> QED BY <1>1, <1>2, <1>3, <1>5 DEF MainLegal

\* A tag is put on a commit that names a verified one.
LEMMA TagAdded ==
  ASSUME MainLegal, TagsLegal, NEW i \in Commits, main[i].source \in verified, PushTag(i),
         UNCHANGED verified
  PROVE  TagsLegal'
<1>1. main[i].version \in Nat
  BY CommitIs
<1>2. /\ tags' = tags \cup {TagOf(i)} /\ TagOf(i).version = main[i].version
      /\ TagOf(i).source = main[i].source
  BY DEF PushTag, TagOf
<1>3. PICK n \in Nat : \A t \in tags : t.version <= n
  BY DEF TagsLegal
<1>4. PICK k \in Nat : n <= k /\ main[i].version <= k
  <2>1. CASE n <= main[i].version
    BY <1>1, <2>1
  <2>2. CASE ~(n <= main[i].version)
    BY <1>1, <2>2
  <2> QED BY <2>1, <2>2
<1>5. \A t \in tags' : t.version <= k
  BY <1>1, <1>2, <1>3, <1>4 DEF TagsLegal
<1>6. \A t \in tags' : t.version \in Nat /\ t.source \in verified
  BY <1>1, <1>2 DEF TagsLegal
<1> QED BY <1>5, <1>6 DEF TagsLegal

LEMMA InitRInv == ReleaseInit => RInv
<1> SUFFICES ASSUME ReleaseInit PROVE RInv
  OBVIOUS
<1>1. main \in Seq([bump : BOOLEAN, version : Nat, source : Nat]) /\ Commits = {1} /\ ~IsMerge(1)
  BY DEF ReleaseInit, Push, Commits, IsMerge
<1> QED BY <1>1 DEF ReleaseInit, RInv, MainLegal, TagsLegal

\* A step that changes neither main nor the tags and gives a legal job and request.
LEMMA JobRInv ==
  ASSUME RInv, UNCHANGED <<main, verified, tags>>,
         waiting' # None => RequestLegal(waiting'), job' # None => JobLegal'
  PROVE  RInv'
BY DEF RInv, MainLegal, TagsLegal, RequestLegal, IsMerge, Commits

\* A job that goes to a step without a release of its own, or answers.
LEMMA JobAnswers ==
  ASSUME RInv, job # None, NEW pc, pc \notin Released, UNCHANGED verified,
         job'.pc = pc, job'.request = job.request, DOMAIN job' = DOMAIN job
  PROVE  JobLegal'
BY DEF RInv, JobLegal, RequestLegal, Released

\* A job that goes on with its release.
LEMMA JobGoesOn ==
  ASSUME RInv, job # None, job.pc \in Released, NEW pc \in Released, pc # "merged", Goto(pc),
         UNCHANGED <<main, verified>>
  PROVE  JobLegal'
BY DEF RInv, JobLegal, RequestLegal, Released, Goto

\* main and the concurrency group.
LEMMA AroundRInv ==
  ASSUME RInv,
         \/ \E bump \in BOOLEAN : PushCommit(bump)
         \/ \E i \in Commits : CiPasses(i)
         \/ StartJob \/ JobFails \/ PublishFails
  PROVE  RInv'
<1>1. ASSUME NEW bump \in BOOLEAN, PushCommit(bump) PROVE RInv'
  <2>1. /\ main' = Append(main, Push(bump)) /\ UNCHANGED <<verified, tags, job, waiting>>
        /\ Push(bump) \in [bump : BOOLEAN, version : Nat, source : Nat] /\ ~(Push(bump).version > 0)
    BY <1>1 DEF PushCommit, Push
  <2>2. MainLegal' /\ \A i \in Commits : i \in Commits' /\ main'[i] = main[i]
    BY <2>1, MainGrows DEF RInv
  <2> QED BY <2>1, <2>2 DEF RInv, TagsLegal, JobLegal, RequestLegal
<1>2. ASSUME NEW i \in Commits, CiPasses(i) PROVE RInv'
  <2>1. /\ verified' = verified \cup {i} /\ UNCHANGED <<main, tags, job>>
        /\ waiting' = [source |-> i, count |-> 0]
    BY <1>2 DEF CiPasses, Queue
  <2>2. i \in Nat
    BY CommitIs DEF RInv
  <2>3. MainLegal' /\ TagsLegal'
    BY <2>1 DEF RInv, MainLegal, TagsLegal, Commits, IsMerge
  <2>4. waiting' # None => RequestLegal(waiting)'
    BY <2>1 DEF RequestLegal
  <2>5. job' # None => JobLegal'
    BY <2>1 DEF RInv, JobLegal, RequestLegal, Commits
  <2> QED BY <2>1, <2>2, <2>3, <2>4, <2>5 DEF RInv
<1>3. CASE StartJob
  <2>1. /\ UNCHANGED <<main, verified, tags>> /\ waiting' = None /\ waiting # None
        /\ job' = Job(waiting)
    BY <1>3 DEF StartJob
  <2>2. JobLegal'
    BY <2>1 DEF Job, JobLegal, Released, RInv, RequestLegal
  <2> QED BY <2>1, <2>2, JobRInv
<1>4. CASE JobFails
  BY <1>4 DEF JobFails, RInv, MainLegal, TagsLegal, RequestLegal, IsMerge, Commits
<1>5. CASE PublishFails
  <2>1. /\ UNCHANGED <<main, verified, tags>> /\ job' = None /\ job # None
        /\ waiting' = waiting \/ waiting' = Continued
    BY <1>5 DEF PublishFails, Queue, JobAt
  <2>2. RequestLegal(Continued)
    BY <2>1 DEF RInv, JobLegal, RequestLegal, Continued
  <2>3. waiting' # None => RequestLegal(waiting')
    BY <2>1, <2>2 DEF RInv
  <2> QED BY <2>1, <2>3, JobRInv
<1> QED BY <1>1, <1>2, <1>3, <1>4, <1>5

\* The tagging of a merge that is found on main.
LEMMA TagPendingRInv ==
  ASSUME RInv, TagPending
  PROVE  RInv'
<1> DEFINE t == Oldest(Pending(tags))
<1>1. \A u \in Pending(tags) :
        \E i \in Commits : IsMerge(i) /\ u.merge = i /\ u.version = main[i].version
  <2> TAKE u \in Pending(tags)
  <2>1. PICK i \in Commits : IsMerge(i) /\ u = TagOf(i)
    BY DEF Pending
  <2> QED BY <2>1 DEF TagOf
<1>2. \A u \in Pending(tags) : u.version \in Nat
  BY <1>1, CommitIs DEF RInv
<1>3. t \in Pending(tags)
  BY <1>2, OldestIs DEF TagPending
<1>4. PICK i \in Commits : IsMerge(i) /\ t.merge = i
  BY <1>1, <1>3
<1>5. /\ PushTag(t.merge) /\ UNCHANGED <<main, verified, waiting>> /\ job # None
      /\ \E release, more : Answer(release, more)
  BY DEF TagPending, JobAt
<1> HIDE DEF t
<1>6. TagsLegal'
  BY <1>4, <1>5, TagAdded DEF RInv, MainLegal
<1>7. /\ job'.pc = "tagged" /\ job'.request = job.request /\ DOMAIN job' = DOMAIN job
  BY <1>5 DEF Answer, RInv, JobLegal
<1>8. JobLegal'
  BY <1>5, <1>7, JobAnswers DEF Released
<1> QED BY <1>5, <1>6, <1>8 DEF RInv, MainLegal, RequestLegal, IsMerge, Commits

\* The tagging of the merge the job has made itself.
LEMMA TagMergedRInv ==
  ASSUME RInv, TagMerged
  PROVE  RInv'
<1> DEFINE merge == CHOOSE i \in Commits : main[i] = Merged(job.release)
<1>1. job # None /\ job.pc = "merged" /\ JobLegal
  BY DEF TagMerged, JobAt, RInv
<1>2. merge \in Commits /\ main[merge] = Merged(job.release)
  BY <1>1 DEF JobLegal
<1>3. main[merge].source \in verified
  BY <1>1, <1>2 DEF JobLegal, Released, Merged
<1>4. /\ PushTag(merge) /\ UNCHANGED <<main, verified, waiting>>
      /\ \E release, more : Answer(release, more)
  BY DEF TagMerged
<1> HIDE DEF merge
<1>5. TagsLegal'
  BY <1>2, <1>3, <1>4, TagAdded DEF RInv
<1>6. /\ job'.pc = "tagged" /\ job'.request = job.request /\ DOMAIN job' = DOMAIN job
  BY <1>1, <1>4 DEF Answer, JobLegal
<1>7. JobLegal'
  BY <1>1, <1>4, <1>6, JobAnswers DEF Released
<1> QED BY <1>4, <1>5, <1>7 DEF RInv, MainLegal, RequestLegal, IsMerge, Commits

\* The merge of a release, onto whatever main is.
LEMMA MergeReleaseRInv ==
  ASSUME RInv, MergeRelease
  PROVE  RInv'
<1>1. /\ job # None /\ JobLegal /\ job.pc = "mergeable" /\ Goto("merged")
      /\ UNCHANGED <<verified, tags, waiting>> /\ main' = Append(main, Merged(job.release))
  BY DEF MergeRelease, JobAt, RInv
<1>2. job.release.version \in Nat /\ job.release.source \in verified /\ job.release.source \in Nat
  BY <1>1 DEF JobLegal, Released, RInv
<1>3. /\ Merged(job.release) \in [bump : BOOLEAN, version : Nat, source : Nat]
      /\ Merged(job.release).source \in verified
  BY <1>2 DEF Merged
<1>4. MainLegal' /\ \E i \in Commits' : main'[i] = Merged(job.release)
  BY <1>1, <1>3, MainGrows DEF RInv
<1>5. JobLegal'
  BY <1>1, <1>2, <1>4 DEF JobLegal, RequestLegal, Goto, Released
<1> QED BY <1>1, <1>4, <1>5 DEF RInv, TagsLegal, RequestLegal

\* The steps of a job.
LEMMA JobStepRInv ==
  ASSUME RInv, JobStep
  PROVE  RInv'
<1>1. CASE CleanUp
  <2>1. /\ UNCHANGED <<main, verified, tags, waiting>> /\ job # None /\ Goto("clean")
    BY <1>1 DEF CleanUp, JobAt
  <2>2. job'.pc = "clean" /\ job'.request = job.request /\ DOMAIN job' = DOMAIN job
    BY <2>1 DEF Goto, RInv, JobLegal
  <2>3. JobLegal'
    BY <2>1, <2>2, JobAnswers DEF Released
  <2> QED BY <2>1, <2>3, JobRInv DEF RInv
<1>2. CASE RepairIncomplete \/ AnswerCovered
  <2>1. /\ UNCHANGED <<main, verified, tags, waiting>> /\ job # None
        /\ \E release, more : Answer(release, more)
    BY <1>2 DEF RepairIncomplete, AnswerCovered, JobAt
  <2>2. job'.pc = "tagged" /\ job'.request = job.request /\ DOMAIN job' = DOMAIN job
    BY <2>1 DEF Answer, RInv, JobLegal
  <2>3. JobLegal'
    BY <2>1, <2>2, JobAnswers DEF Released
  <2> QED BY <2>1, <2>3, JobRInv DEF RInv
<1>3. CASE Plan
  <2>1. /\ UNCHANGED <<main, verified, tags, waiting>> /\ job # None /\ JobLegal
        /\ job' = [job EXCEPT !.pc = "planned", !.release = Release(PlannedVersion, Source)]
    BY <1>3 DEF Plan, NothingElseToDo, JobAt, RInv
  <2>2. PlannedVersion \in Nat
    BY PlannedVersionIs DEF RInv
  <2>3. JobLegal'
    BY <2>1, <2>2 DEF JobLegal, RequestLegal, Release, Source, Released
  <2> QED BY <2>1, <2>3, JobRInv DEF RInv
<1>4. CASE SkipRelease \/ NothingToPublish \/ PublishRelease \/ CloseStale
  <2>1. /\ UNCHANGED <<main, verified, tags, waiting>> /\ job # None /\ JobLegal
        /\ \/ Goto("answered") \/ Goto("published")
           \/ job' = [job EXCEPT !.pc = "answered", !.more = TRUE]
    BY <1>4 DEF SkipRelease, NothingToPublish, PublishRelease, CloseStale, NothingElseToDo, JobAt, RInv
  <2>2. /\ job'.pc \in {"answered", "published"} /\ job'.request = job.request
        /\ DOMAIN job' = DOMAIN job
    BY <2>1 DEF Goto, JobLegal
  <2>3. JobLegal'
    BY <2>1, <2>2, JobAnswers DEF Released
  <2> QED BY <2>1, <2>3, JobRInv DEF RInv
<1>5. CASE EnsureBranch \/ ProposeRelease \/ CheckMergeable
  <2>1. /\ UNCHANGED <<main, verified, tags, waiting>> /\ job # None /\ job.pc \in Released
        /\ \E pc \in Released : pc # "merged" /\ Goto(pc)
    BY <1>5 DEF EnsureBranch, ProposeRelease, CheckMergeable, JobAt, Released
  <2>2. JobLegal'
    BY <2>1, JobGoesOn
  <2> QED BY <2>1, <2>2, JobRInv DEF RInv
<1>6. CASE EndJob
  <2>1. /\ UNCHANGED <<main, verified, tags>> /\ job' = None /\ job # None
        /\ waiting' = waiting \/ waiting' = Continued
    BY <1>6 DEF EndJob, Queue, JobAt
  <2>2. RequestLegal(Continued)
    BY <2>1 DEF RInv, JobLegal, RequestLegal, Continued
  <2> QED BY <2>1, <2>2, JobRInv DEF RInv
<1> QED BY <1>1, <1>2, <1>3, <1>4, <1>5, <1>6, TagPendingRInv, TagMergedRInv, MergeReleaseRInv
        DEF JobStep

\* Every step keeps the invariant.
LEMMA NextRInv == RInv /\ [ReleaseNext]_rVars => RInv'
<1> SUFFICES ASSUME RInv, [ReleaseNext]_rVars PROVE RInv'
  OBVIOUS
<1>1. CASE UNCHANGED rVars
  BY <1>1 DEF rVars, RInv, MainLegal, TagsLegal, JobLegal, RequestLegal, Commits, IsMerge
<1> QED BY <1>1, AroundRInv, JobStepRInv DEF ReleaseNext

\* A tag holds nothing but what CI passed, wherever main advances and a run dies.
THEOREM TagIsVerifiedThm == ReleaseSpec => []TagIsVerified
<1>1. RInv => TagIsVerified
  BY DEF RInv, TagsLegal, TagIsVerified
<1> QED BY <1>1, InitRInv, NextRInv, PTL DEF ReleaseSpec

\* Where a job is that has planned a version and not merged it yet.
Planning == {"planned", "branched", "proposed", "mergeable"}

\* The merges on main: their versions grow, each is of an earlier commit, and only the last
\* one may be without its tag.
MergesInOrder ==
  \A i \in Commits : IsMerge(i) =>
    /\ main[i].source < i
    /\ \A j \in Commits : IsMerge(j) /\ i < j => main[i].version < main[j].version /\ TagOf(i) \in tags

\* A tag is of a merge, and one whose release is not complete is of the last merge.
TagsInOrder ==
  \A t \in tags :
    /\ t.merge \in Commits /\ IsMerge(t.merge) /\ t = TagOf(t.merge)
    /\ t.version \notin complete => \A i \in Commits : IsMerge(i) => i <= t.merge

\* What a job has planned is the version after all merges, which are tagged and complete; what
\* it has merged is the last of them.
JobInOrder ==
  /\ job.pc \in Planning =>
       /\ Incomplete = {} /\ job.release.version > 0
       /\ job.release.source \in Commits
       /\ \A i \in Commits : IsMerge(i) => main[i].version < job.release.version /\ TagOf(i) \in tags
  /\ job.pc = "merged" =>
       /\ Incomplete = {} /\ job.release.version > 0
       /\ \E i \in Commits : main[i] = Merged(job.release) /\ \A j \in Commits : IsMerge(j) => j <= i

\* The inductive invariant of the order.
OrderInv == verified \subseteq Commits /\ MergesInOrder /\ TagsInOrder /\ (job # None => JobInOrder)

\* A step that changes neither main nor the tags, completes releases at most, and puts the job
\* where nothing is said of it, or on with its release.
LEMMA OrderJob ==
  ASSUME OrderInv, UNCHANGED <<main, verified, tags>>, complete \subseteq complete',
         \/ job' = None
         \/ job'.pc \notin Planning \cup {"merged"}
         \/ /\ job # None /\ job.pc \in Planning /\ job'.pc \in Planning
            /\ job'.release = job.release
         \/ job # None /\ job' = job
  PROVE  OrderInv'
<1>1. Commits' = Commits /\ (\A i \in Commits : IsMerge(i)' = IsMerge(i) /\ TagOf(i)' = TagOf(i))
  BY DEF Commits, IsMerge, TagOf
<1>2. Incomplete = {} => Incomplete' = {}
  BY DEF Incomplete
<1>3. MergesInOrder' /\ TagsInOrder'
  BY <1>1 DEF OrderInv, MergesInOrder, TagsInOrder
<1>4. ASSUME job' # None PROVE JobInOrder'
  <2>1. CASE job'.pc \notin Planning \cup {"merged"}
    BY <2>1 DEF JobInOrder
  <2>2. CASE /\ job # None /\ job.pc \in Planning /\ job'.pc \in Planning
             /\ job'.release = job.release
    BY <1>1, <1>2, <2>2 DEF OrderInv, JobInOrder, Planning
  <2>3. CASE job # None /\ job' = job
    BY <1>1, <1>2, <2>3 DEF OrderInv, JobInOrder, Merged
  <2> QED BY <1>4, <2>1, <2>2, <2>3
<1> QED BY <1>1, <1>3, <1>4 DEF OrderInv

\* A commit is pushed to main, or CI passes one.
LEMMA OrderPush ==
  ASSUME RInv, OrderInv,
         (\E bump \in BOOLEAN : PushCommit(bump)) \/ \E i \in Commits : CiPasses(i)
  PROVE  OrderInv'
<1>1. ASSUME NEW bump \in BOOLEAN, PushCommit(bump) PROVE OrderInv'
  <2>0. PICK n : n = Len(main) + 1
    OBVIOUS
  <2>1. main' = Append(main, Push(bump)) /\ UNCHANGED <<verified, tags, complete, job>>
    BY <1>1 DEF PushCommit
  <2>2. main \in Seq([bump : BOOLEAN, version : Nat, source : Nat]) /\ Push(bump).version = 0
    BY DEF RInv, MainLegal, Push
  <2>3. Push(bump) \in [bump : BOOLEAN, version : Nat, source : Nat]
    BY DEF Push
  <2>4. /\ Commits = 1 .. Len(main) /\ Len(main) \in Nat /\ Commits' = Commits \cup {n} /\ n \notin Commits
        /\ main'[n] = Push(bump) /\ \A i \in Commits : main'[i] = main[i]
    <3>1. main' \in Seq([bump : BOOLEAN, version : Nat, source : Nat]) /\ Len(main') = Len(main) + 1
      BY <2>1, <2>2, <2>3
    <3>2. Commits = 1 .. Len(main) /\ Commits' = 1 .. (Len(main) + 1) /\ Len(main) \in Nat
      BY <2>2, <3>1 DEF Commits
    <3>3. (\A i \in Commits : main'[i] = main[i]) /\ main'[n] = Push(bump)
      BY <2>0, <2>1, <2>2, <2>3, <3>2
    <3> QED BY <2>0, <3>2, <3>3
  <2>5. /\ ~IsMerge(n)'
        /\ \A i \in Commits : IsMerge(i)' = IsMerge(i) /\ TagOf(i)' = TagOf(i)
    BY <2>2, <2>4 DEF IsMerge, TagOf
  <2>6. \A i \in Commits' : IsMerge(i)' => i \in Commits /\ IsMerge(i) /\ main'[i] = main[i] /\ TagOf(i)' = TagOf(i)
    BY <2>4, <2>5
  <2>7. MergesInOrder'
    BY <2>1, <2>6 DEF OrderInv, MergesInOrder
  <2>8. TagsInOrder'
    BY <2>1, <2>4, <2>5, <2>6 DEF OrderInv, TagsInOrder
  <2>9. job' # None => JobInOrder'
    BY <2>1, <2>4, <2>6 DEF OrderInv, JobInOrder, Incomplete, Merged
  <2> QED BY <2>1, <2>4, <2>7, <2>8, <2>9 DEF OrderInv
<1>2. ASSUME NEW i \in Commits, CiPasses(i) PROVE OrderInv'
  <2>1. verified' = verified \cup {i} /\ UNCHANGED <<main, tags, complete, job>>
    BY <1>2 DEF CiPasses
  <2>2. MergesInOrder' /\ TagsInOrder' /\ (job' # None => JobInOrder')
    BY <2>1 DEF OrderInv, MergesInOrder, TagsInOrder, JobInOrder, Commits, IsMerge, TagOf, Incomplete, Merged
  <2> QED BY <2>1, <2>2 DEF OrderInv, Commits
<1> QED BY <1>1, <1>2

\* Nothing else to do means that every merge is tagged, and the planned version is the next.
LEMMA OrderPlan ==
  ASSUME RInv, OrderInv, Plan
  PROVE  OrderInv'
<1>1. /\ job # None /\ JobLegal /\ Incomplete = {} /\ ~Covered /\ Pending(tags) = {}
      /\ UNCHANGED <<main, verified, tags, complete>>
      /\ job' = [job EXCEPT !.pc = "planned", !.release = Release(PlannedVersion, Source)]
  BY DEF Plan, NothingElseToDo, JobAt, RInv
<1>2. job'.pc = "planned" /\ job'.release = Release(PlannedVersion, Source)
  BY <1>1 DEF JobLegal
<1>3. Source \in Commits /\ \A i \in Commits : i \in Nat /\ i > 0 /\ main[i].version \in Nat
  BY <1>1, CommitIs DEF JobLegal, RequestLegal, Source, OrderInv, RInv, MainLegal, Commits
<1>4. PlannedVersion \in Nat /\ PlannedVersion > 0
      /\ \A i \in Commits : IsMerge(i) => main[i].version < PlannedVersion /\ TagOf(i) \in tags
  <2>1. PICK n \in Nat : \A t \in tags : t.version <= n
    BY DEF RInv, TagsLegal
  <2>2. \A t \in tags : t.version \in Nat /\ t.merge \in Commits /\ IsMerge(t.merge) /\ t = TagOf(t.merge)
    BY DEF RInv, TagsLegal, OrderInv, TagsInOrder
  <2>3. CASE tags = {}
    <3>1. PlannedVersion = 1
      BY <2>3 DEF PlannedVersion, Baseline
    <3>2. \A i \in Commits : ~IsMerge(i)
      <4> SUFFICES ASSUME NEW i \in Commits, IsMerge(i) PROVE FALSE
        OBVIOUS
      <4>1. TagOf(i) \in Pending(tags)
        BY <1>3, <2>3 DEF Pending
      <4> QED BY <1>1, <4>1
    <3> QED BY <3>1, <3>2
  <2>4. CASE tags # {}
    <3> DEFINE l == Latest(tags)
    <3>1. l \in tags /\ \A t \in tags : t.version <= l.version
      <4>1. l \in tags
        BY <2>1, <2>2, <2>4, LatestIs
      <4>2. \E m \in tags : \A t \in tags : t.version <= m.version
        BY <2>1, <2>2, <2>4, LatestExists
      <4> QED BY <4>1, <4>2 DEF Latest
    <3>2. Source > l.merge - 1
      BY <1>1, <1>3, <2>2, <2>4, <3>1 DEF Covered, Base
    <3>3. l.merge \in Commits /\ l.merge \in Nat /\ l.source \in Nat /\ l.source < l.merge
      BY <1>3, <2>2, <3>1, CommitIs DEF TagOf, OrderInv, MergesInOrder, RInv
    <3>4. \A i \in Commits : IsMerge(i) => TagOf(i) \in tags
      <4> SUFFICES ASSUME NEW i \in Commits, IsMerge(i), TagOf(i) \notin tags PROVE FALSE
        OBVIOUS
      <4>1. ~(i > l.source)
        BY <1>1, <2>4 DEF Pending
      <4>2. i < l.merge
        BY <1>3, <3>3, <4>1
      <4> QED BY <2>2, <3>1, <4>2 DEF OrderInv, MergesInOrder
    <3>5. l \in Baseline
      BY <1>3, <3>1, <3>2, <3>3 DEF Baseline
    <3>6. PlannedVersion = Latest(Baseline).version + 1
      BY <3>5 DEF PlannedVersion
    <3>7. \E m \in Baseline : \A t \in Baseline : t.version <= m.version
      BY <3>1, <3>5 DEF Baseline
    <3>8. Latest(Baseline) \in Baseline /\ l.version <= Latest(Baseline).version
      BY <3>5, <3>7 DEF Latest
    <3>9. PlannedVersion \in Nat /\ PlannedVersion > l.version /\ l.version \in Nat
      BY <2>2, <3>1, <3>6, <3>8 DEF Baseline
    <3>10. \A i \in Commits : IsMerge(i) => main[i].version <= l.version
      BY <3>1, <3>4 DEF TagOf
    <3> HIDE DEF l
    <3> QED BY <1>3, <3>4, <3>9, <3>10
  <2> QED BY <2>3, <2>4
<1>5. Commits' = Commits /\ Incomplete' = Incomplete
      /\ \A i \in Commits : IsMerge(i)' = IsMerge(i) /\ TagOf(i)' = TagOf(i)
  BY <1>1 DEF Commits, Incomplete, IsMerge, TagOf
<1>6. MergesInOrder' /\ TagsInOrder'
  BY <1>1, <1>5 DEF OrderInv, MergesInOrder, TagsInOrder
<1>7. JobInOrder'
  BY <1>1, <1>2, <1>3, <1>4, <1>5 DEF JobInOrder, Planning, Release
<1> QED BY <1>1, <1>5, <1>6, <1>7 DEF OrderInv

\* The merge becomes the last one.
LEMMA OrderMerge ==
  ASSUME RInv, OrderInv, MergeRelease
  PROVE  OrderInv'
<1> DEFINE m == Merged(job.release)
<1>0. PICK n : n = Len(main) + 1
  OBVIOUS
<1>1. /\ job # None /\ job.pc = "mergeable" /\ JobLegal /\ JobInOrder /\ Goto("merged")
      /\ main' = Append(main, m) /\ UNCHANGED <<verified, tags, complete>>
  BY DEF MergeRelease, JobAt, RInv, OrderInv
<1>2. job'.pc = "merged" /\ job'.release = job.release
  BY <1>1 DEF Goto, JobLegal
<1>3. /\ Incomplete = {} /\ job.release.version \in Nat /\ job.release.version > 0
      /\ job.release.source \in Commits
      /\ \A i \in Commits : IsMerge(i) => main[i].version < job.release.version /\ TagOf(i) \in tags
  BY <1>1 DEF JobInOrder, JobLegal, Planning, Released
<1>4. main \in Seq([bump : BOOLEAN, version : Nat, source : Nat])
  BY DEF RInv, MainLegal
<1>5. m.version = job.release.version /\ m.source = job.release.source /\ m' = m
  BY <1>2 DEF Merged
<1>6. m \in [bump : BOOLEAN, version : Nat, source : Nat]
  BY <1>3, <1>4 DEF Merged, Commits
<1> HIDE DEF m
<1>7. /\ Commits = 1 .. Len(main) /\ Len(main) \in Nat /\ Commits' = Commits \cup {n} /\ n \notin Commits
      /\ main'[n] = m /\ \A i \in Commits : main'[i] = main[i] /\ i < n
      /\ n \in Nat
  BY <1>0, <1>1, <1>4, <1>6 DEF Commits
<1>8. /\ n \in Nat /\ IsMerge(n)' /\ \A i \in Commits : IsMerge(i)' = IsMerge(i) /\ TagOf(i)' = TagOf(i)
  BY <1>3, <1>5, <1>7 DEF IsMerge, TagOf
<1>9. Incomplete' = {}
  BY <1>1, <1>3 DEF Incomplete
<1>10. MergesInOrder'
  <2>1. main'[n].source < n
    BY <1>3, <1>5, <1>7
  <2>2. ASSUME NEW i \in Commits, IsMerge(i)
        PROVE  main'[i].source < i /\ main'[i].version < main'[n].version /\ TagOf(i)' \in tags'
    BY <1>1, <1>3, <1>5, <1>7, <1>8, <2>2 DEF OrderInv, MergesInOrder
  <2>3. ASSUME NEW i \in Commits, NEW j \in Commits, IsMerge(i), IsMerge(j), i < j
        PROVE  main'[i].version < main'[j].version
    BY <1>7, <2>3 DEF OrderInv, MergesInOrder
  <2>4. \A j \in Commits' : n < j => FALSE
    BY <1>7
  <2> QED BY <1>7, <1>8, <2>1, <2>2, <2>3, <2>4 DEF MergesInOrder
<1>11. TagsInOrder'
  <2>1. \A t \in tags' : t.version \in complete'
    BY <1>9 DEF Incomplete
  <2> QED BY <1>1, <1>7, <1>8, <2>1 DEF OrderInv, TagsInOrder
<1>12. JobInOrder'
  <2>1. \A j \in Commits' : j <= n
    BY <1>7, <1>8
  <2>2. n \in Commits' /\ main'[n] = Merged(job'.release)
    BY <1>2, <1>7 DEF m
  <2> QED BY <1>2, <1>3, <1>9, <2>1, <2>2 DEF JobInOrder, Planning
<1> QED BY <1>1, <1>7, <1>10, <1>11, <1>12 DEF OrderInv

\* The last merge is tagged, when every other tag is complete.
LEMMA OrderTag ==
  ASSUME RInv, OrderInv, Incomplete = {}, NEW i \in Commits, IsMerge(i),
         \A j \in Commits : IsMerge(j) => j <= i,
         PushTag(i), UNCHANGED <<main, verified, complete>>,
         job'.pc = "tagged"
  PROVE  OrderInv'
<1>1. /\ tags' = tags \cup {TagOf(i)} /\ TagOf(i).merge = i
      /\ Commits' = Commits /\ \A j \in Commits : IsMerge(j)' = IsMerge(j) /\ TagOf(j)' = TagOf(j)
  BY DEF PushTag, TagOf, Commits, IsMerge
<1>2. MergesInOrder'
  BY <1>1 DEF OrderInv, MergesInOrder
<1>3. \A t \in tags : t.version \in complete
  BY DEF Incomplete
<1>4. TagsInOrder'
  <2> SUFFICES ASSUME NEW t \in tags'
               PROVE  /\ t.merge \in Commits /\ IsMerge(t.merge) /\ t = TagOf(t.merge)
                      /\ t.version \notin complete => \A j \in Commits : IsMerge(j) => j <= t.merge
    BY <1>1 DEF TagsInOrder
  <2>1. CASE t \in tags
    BY <1>3, <2>1 DEF OrderInv, TagsInOrder
  <2>2. CASE t = TagOf(i)
    BY <1>1, <2>2
  <2> QED BY <1>1, <2>1, <2>2
<1>5. JobInOrder'
  BY DEF JobInOrder, Planning
<1> QED BY <1>1, <1>2, <1>4, <1>5 DEF OrderInv

\* The merge that is tagged is the last one: the job's own, or the only one without a tag.
LEMMA OrderTagging ==
  ASSUME RInv, OrderInv, TagMerged \/ TagPending
  PROVE  OrderInv'
<1>1. CASE TagMerged
  <2> DEFINE merge == CHOOSE i \in Commits : main[i] = Merged(job.release)
  <2>1. /\ job # None /\ job.pc = "merged" /\ JobInOrder /\ JobLegal
        /\ PushTag(merge) /\ Answer(job.release, merge - 1 # job.release.source)
        /\ UNCHANGED <<main, verified, complete>>
    BY <1>1 DEF TagMerged, JobAt, OrderInv, RInv
  <2>2. PICK last \in Commits : main[last] = Merged(job.release) /\ \A j \in Commits : IsMerge(j) => j <= last
    BY <2>1 DEF JobInOrder
  <2>3. merge \in Commits /\ main[merge] = Merged(job.release)
    BY <2>2
  <2> HIDE DEF merge
  <2>4. /\ Incomplete = {} /\ job.release.version > 0 /\ job.release.version \in Nat
        /\ main[merge].version = job.release.version /\ main[last].version = job.release.version
    BY <2>1, <2>2, <2>3 DEF JobInOrder, JobLegal, Released, Merged
  <2>5. IsMerge(merge) /\ IsMerge(last) /\ merge \in Nat /\ last \in Nat
    BY <2>2, <2>3, <2>4, CommitIs DEF IsMerge, RInv
  <2>6. ~(merge < last)
    BY <2>2, <2>3, <2>4, <2>5 DEF OrderInv, MergesInOrder
  <2>7. merge = last
    BY <2>2, <2>3, <2>5, <2>6
  <2>8. job'.pc = "tagged"
    BY <2>1 DEF Answer, JobLegal
  <2> QED BY <2>1, <2>2, <2>4, <2>5, <2>7, <2>8, OrderTag
<1>2. CASE TagPending
  <2> DEFINE t == Oldest(Pending(tags))
  <2>1. /\ job # None /\ JobLegal /\ Incomplete = {} /\ PushTag(t.merge) /\ UNCHANGED <<main, verified, complete>>
        /\ \E release, more : Answer(release, more)
    BY <1>2 DEF TagPending, JobAt, RInv
  <2>2. \A u \in Pending(tags) : /\ u.merge \in Commits /\ IsMerge(u.merge) /\ u \notin tags
                                 /\ u = TagOf(u.merge) /\ u.version = main[u.merge].version
    <3> TAKE u \in Pending(tags)
    <3>1. PICK i \in Commits : IsMerge(i) /\ u = TagOf(i) /\ TagOf(i) \notin tags
      BY DEF Pending
    <3> QED BY <3>1 DEF TagOf
  <2>3. t \in Pending(tags)
    <3>1. \A u \in Pending(tags) : u.version \in Nat
      BY <2>2, CommitIs DEF RInv
    <3> QED BY <1>2, <3>1, OldestIs DEF TagPending
  <2> HIDE DEF t
  <2>4. ASSUME NEW j \in Commits, IsMerge(j) PROVE j <= t.merge
    <3>1. ~(t.merge < j)
      BY <2>2, <2>3, <2>4 DEF OrderInv, MergesInOrder
    <3>2. j \in Nat /\ t.merge \in Nat
      BY <2>2, <2>3, CommitIs DEF RInv
    <3> QED BY <3>1, <3>2
  <2>5. job'.pc = "tagged"
    BY <2>1 DEF Answer, JobLegal
  <2> QED BY <2>1, <2>2, <2>3, <2>4, <2>5, OrderTag
<1> QED BY <1>1, <1>2

\* Every step keeps the order.
LEMMA NextOrderInv ==
  ASSUME RInv, OrderInv, [ReleaseNext]_rVars
  PROVE  OrderInv'
<1>1. CASE UNCHANGED rVars
  BY <1>1 DEF rVars, OrderInv, MergesInOrder, TagsInOrder, JobInOrder, Commits, IsMerge, TagOf,
              Incomplete, Merged
<1>2. job # None => JobLegal
  BY DEF RInv
<1>3. CASE StartJob
  BY <1>3, OrderJob DEF StartJob, Job, Planning
<1>4. CASE JobFails \/ PublishFails \/ EndJob
  BY <1>4, OrderJob DEF JobFails, PublishFails, EndJob
<1>5. CASE \/ CleanUp \/ RepairIncomplete \/ AnswerCovered \/ SkipRelease \/ CloseStale
           \/ PublishRelease \/ NothingToPublish
  <2>1. /\ UNCHANGED <<main, verified, tags>> /\ complete \subseteq complete' /\ job # None
        /\ \/ Goto("clean") \/ Goto("answered") \/ Goto("published")
           \/ \E release, more : Answer(release, more)
           \/ job' = [job EXCEPT !.pc = "answered", !.more = TRUE]
    BY <1>5 DEF CleanUp, RepairIncomplete, AnswerCovered, SkipRelease, CloseStale, PublishRelease,
                NothingToPublish, NothingElseToDo, JobAt
  <2>2. job'.pc \in {"clean", "answered", "published", "tagged"}
    <3>1. CASE \/ Goto("clean") \/ Goto("answered") \/ Goto("published")
               \/ job' = [job EXCEPT !.pc = "answered", !.more = TRUE]
      BY <1>2, <2>1, <3>1 DEF Goto, JobLegal
    <3>2. CASE \E release, more : Answer(release, more)
      <4>1. PICK release, more : Answer(release, more)
        BY <3>2
      <4>2. DOMAIN job = {"pc", "request", "release", "publish", "more"}
        BY <1>2, <2>1 DEF JobLegal
      <4> QED BY <4>1, <4>2 DEF Answer
    <3> QED BY <2>1, <3>1, <3>2
  <2> QED BY <2>1, <2>2, OrderJob DEF Planning
<1>6. CASE EnsureBranch \/ ProposeRelease \/ CheckMergeable
  <2>1. /\ UNCHANGED <<main, verified, tags, complete>> /\ job # None /\ job.pc \in Planning
        /\ \E pc \in Planning : Goto(pc)
    BY <1>6 DEF EnsureBranch, ProposeRelease, CheckMergeable, JobAt, Planning
  <2>2. job'.pc \in Planning /\ job'.release = job.release
    BY <1>2, <2>1 DEF Goto, JobLegal
  <2> QED BY <2>1, <2>2, OrderJob
<1> QED BY <1>1, <1>3, <1>4, <1>5, <1>6, OrderPush, OrderPlan, OrderMerge, OrderTagging
        DEF ReleaseNext, JobStep

\* A version is not published before an older one that was tagged, whatever run died before
\* it had published and whichever run goes on with it.
THEOREM PublishedInOrderThm == ReleaseSpec => []PublishedInOrder
<1>1. ReleaseInit => RInv /\ OrderInv
  <2> SUFFICES ASSUME ReleaseInit PROVE OrderInv
    BY InitRInv
  <2>1. Commits = {1} /\ ~IsMerge(1) /\ verified = {} /\ tags = {} /\ job = None
    BY DEF ReleaseInit, Push, Commits, IsMerge
  <2> QED BY <2>1 DEF OrderInv, MergesInOrder, TagsInOrder
<1>2. RInv /\ OrderInv /\ [ReleaseNext]_rVars => RInv' /\ OrderInv'
  BY NextRInv, NextOrderInv
<1>3. RInv /\ OrderInv => PublishedInOrder
  <2> SUFFICES ASSUME RInv, OrderInv, NEW t \in tags, NEW u \in tags, t.version < u.version,
                      t.version \notin complete
               PROVE  u.version \notin complete
    BY DEF PublishedInOrder
  <2>1. /\ t.merge \in Commits /\ IsMerge(t.merge) /\ main[t.merge].version = t.version
        /\ u.merge \in Commits /\ IsMerge(u.merge) /\ main[u.merge].version = u.version
        /\ u.merge <= t.merge
    BY DEF OrderInv, TagsInOrder, TagOf
  <2>2. u.merge \in Nat /\ t.merge \in Nat /\ t.version \in Nat /\ u.version \in Nat
    BY <2>1, CommitIs DEF RInv, TagsLegal
  <2>3. u.merge = t.merge \/ u.merge < t.merge
    BY <2>1, <2>2
  <2> QED BY <2>1, <2>2, <2>3 DEF OrderInv, MergesInOrder
<1> QED BY <1>1, <1>2, <1>3, PTL DEF ReleaseSpec

-----------------------------------------------------------------------------
(* The migrations.                                                             *)

RunPlaces == Phases \cup {"preflight", "store-snapshot", "snapshot-stored", "replace", "applied"}
RunType ==
  [pc : RunPlaces, at : 0 .. MaxTime, base : Envelopes \cup {None}, entry : Journals \cup {None}]
    \cup {Idle}

\* A run that went past its preflight knows its journal, which is the stored one unless the
\* reset deleted it; what it is about to keep is what its migration started from, and so is
\* what it is about to migrate when there is no other migration.
RunLegal(r, stored) ==
  /\ r.pc \notin {"idle", "preflight"} => r.entry \in Journals /\ stored \in {r.entry, None}
  /\ r.pc = "preflight" => stored = None /\ r.base \in Envelopes
  /\ r.pc = "store-snapshot" => r.base = r.entry.source
  /\ r.pc \in {"store-snapshot", "snapshot-stored"} => r.entry.phase = "snapshotting"
  /\ r.pc \in Phases => r.pc = r.entry.phase
  /\ r.pc \in {"replace", "applied"} => r.base \in Envelopes /\ r.entry.phase = "applying"
  /\ r.pc = "replace" => (OneMigration => r.base = r.entry.source)

\* A run that has stored its snapshot.
Past(r) == r.pc \notin {"idle", "preflight"} /\ (r.entry.phase \in Kept \/ r.pc = "snapshot-stored")

\* A snapshot that an operation took is of the source of this entry.
SnapshotOfSource(record, o, entry) ==
  (record # None /\ record.op = o) => record.profile = entry.source

\* What was stored as being kept is what the migration started from.
Sourced(record, o, r, stored) ==
  /\ (stored # None /\ stored.phase \in Kept) => SnapshotOfSource(record, o, stored)
  /\ Past(r) => SnapshotOfSource(record, o, r.entry)

\* The inductive invariant.
MInv ==
  /\ active \in Envelopes /\ undo \in Envelopes \cup {None} /\ clock \in 0 .. MaxTime /\ body \in Nat
  /\ restore \in [pc : {"replace", "clear"}, profile : Envelopes] \cup {Idle}
  /\ journal \in [Migrations -> Journals \cup {None}] /\ snapshot \in Snapshots \cup {None}
  /\ run \in [Migrations -> RunType]
  /\ \A o \in Migrations :
       RunLegal(run[o], journal[o]) /\ Sourced(snapshot, o, run[o], journal[o])

\* What holds of a step of one run.
LEMMA RunMoves ==
  ASSUME MigrationAssumption, MInv, NEW o \in Migrations,
         NEW r \in RunType, NEW entry \in Journals \cup {None},
         run' = [run EXCEPT ![o] = r], journal' = [journal EXCEPT ![o] = entry],
         RunLegal(r, entry), Sourced(snapshot', o, r, entry),
         active' \in Envelopes, UNCHANGED <<undo, restore, clock, body>>,
         snapshot' = snapshot \/ (snapshot' \in Snapshots /\ snapshot'.op = o)
  PROVE  MInv'
<1>1. /\ journal' \in [Migrations -> Journals \cup {None}] /\ journal'[o] = entry
      /\ \A p \in Migrations \ {o} : journal'[p] = journal[p]
  BY DEF MInv
<1>2. /\ run' \in [Migrations -> RunType] /\ run'[o] = r
      /\ \A p \in Migrations \ {o} : run'[p] = run[p]
  BY DEF MInv
<1>3. snapshot' \in Snapshots \cup {None}
  BY DEF MInv
<1>4. ASSUME NEW p \in Migrations, p # o
      PROVE  RunLegal(run'[p], journal'[p]) /\ Sourced(snapshot', p, run'[p], journal'[p])
  <2>1. RunLegal(run[p], journal[p]) /\ Sourced(snapshot, p, run[p], journal[p])
    BY DEF MInv
  <2>2. run'[p] = run[p] /\ journal'[p] = journal[p]
    BY <1>1, <1>2, <1>4
  <2>3. snapshot' = snapshot \/ snapshot'.op # p
    BY <1>4
  <2> QED BY <2>1, <2>2, <2>3 DEF Sourced, SnapshotOfSource
<1>5. \A p \in Migrations :
        RunLegal(run'[p], journal'[p]) /\ Sourced(snapshot', p, run'[p], journal'[p])
  BY <1>1, <1>2, <1>4
<1>6. \A p \in Migrations :
        (RunLegal(run[p], journal[p]) /\ Sourced(snapshot, p, run[p], journal[p]))'
  BY <1>5 DEF RunLegal, Sourced, OneMigration, Past, SnapshotOfSource
<1> QED BY <1>1, <1>2, <1>3, <1>6 DEF MInv

\* An entry is written, and the run goes to its phase or ends.
LEMMA PhaseKeeps ==
  ASSUME MigrationAssumption, MInv, NEW o \in Migrations, run[o] # Idle, NEW entry \in Journals,
         Phase(o, entry), entry.phase \in Kept => SnapshotOfSource(snapshot, o, entry),
         UNCHANGED <<active, snapshot>>, Others
  PROVE  MInv'
<1> DEFINE r == IF entry.phase \in Ended THEN Idle
                ELSE [run[o] EXCEPT !.pc = entry.phase, !.base = None, !.entry = entry]
<1>1. run' = [run EXCEPT ![o] = r] /\ journal' = [journal EXCEPT ![o] = entry] /\ entry # None
  BY DEF Phase, MInv, MigrationAssumption
<1>2. run[o] \in [pc : RunPlaces, at : 0 .. MaxTime, base : Envelopes \cup {None},
                  entry : Journals \cup {None}]
  BY DEF MInv, RunType
<1>3. /\ entry.phase \in Phases
      /\ entry.phase \notin {"idle", "preflight", "store-snapshot", "snapshot-stored", "replace", "applied"}
  BY DEF Journals, Phases
<1>4. r \in RunType /\ (r = Idle \/ (r.pc = entry.phase /\ r.entry = entry))
  BY <1>2, <1>3 DEF RunType, RunPlaces
<1> HIDE DEF r
<1>5. RunLegal(r, entry) /\ Sourced(snapshot, o, r, entry)
  BY <1>1, <1>3, <1>4 DEF RunLegal, Idle, Sourced, Past, Phases
<1> QED BY <1>1, <1>4, <1>5, RunMoves DEF Others, MInv

\* The entry a run knows, with another phase and code.
LEMMA EntryKeeps ==
  ASSUME NEW entry \in Journals, NEW phase \in Phases, NEW code \in Codes,
         NEW next \in {[entry EXCEPT !.phase = phase, !.code = code], [entry EXCEPT !.phase = phase]}
  PROVE  next \in Journals /\ next.source = entry.source /\ next.phase = phase
BY DEF Journals

\* The run goes on without a word in its journal.
LEMMA GoesOn ==
  ASSUME MigrationAssumption, MInv, NEW o \in Migrations, NEW r \in RunType,
         run' = [run EXCEPT ![o] = r], UNCHANGED journal, RunLegal(r, journal[o]),
         Sourced(snapshot', o, r, journal[o]), active' \in Envelopes,
         snapshot' = snapshot \/ (snapshot' \in Snapshots /\ snapshot'.op = o),
         Others
  PROVE  MInv'
<1>1. journal' = [journal EXCEPT ![o] = journal[o]] /\ journal[o] \in Journals \cup {None}
  BY DEF MInv
<1> QED BY <1>1, RunMoves DEF Others

\* Whatever a run does keeps the invariant.
LEMMA RunStepKeeps ==
  ASSUME MigrationAssumption, MInv, NEW o \in Migrations, RunStep(o)
  PROVE  MInv'
<1>0. /\ journal[o] \in Journals \cup {None} /\ run[o] \in RunType /\ RunLegal(run[o], journal[o])
      /\ Sourced(snapshot, o, run[o], journal[o])
      /\ active \in Envelopes /\ Idle.pc = "idle"
  BY DEF MInv, Idle
<1>1. CASE Start(o)
  <2> DEFINE r == IF journal[o] = None
                  THEN [pc |-> "preflight", at |-> clock, base |-> active, entry |-> None]
                  ELSE [pc |-> journal[o].phase, at |-> clock, base |-> None, entry |-> journal[o]]
  <2>1. /\ run' = [run EXCEPT ![o] = r] /\ UNCHANGED <<active, journal, snapshot>> /\ Others
        /\ journal[o] # None => journal[o].phase \in Phases
    BY <1>1, <1>0 DEF Start, Journals
  <2>2. r \in RunType
    BY <2>1, <1>0 DEF RunType, RunPlaces, MInv
  <2>3. RunLegal(r, journal[o]) /\ Sourced(snapshot, o, r, journal[o])
    BY <2>1, <1>0 DEF RunLegal, Phases, Sourced, Past
  <2> HIDE DEF r
  <2> QED BY <2>1, <2>2, <2>3, <1>0, GoesOn
<1>2. CASE Preflight(o)
  <2>1. run[o].pc = "preflight" /\ run[o] # Idle /\ journal[o] = None /\ run[o].base \in Envelopes
    BY <1>2, <1>0 DEF Preflight, RunLegal
  <2>2. \E phase \in Phases \ Kept, code \in Codes :
          Phase(o, [phase |-> phase, source |-> run[o].base, target |-> None, code |-> code])
    BY <1>2, Zenon DEF Preflight, Phases, Codes, Kept
  <2>3. PICK phase \in Phases \ Kept, code \in Codes :
          Phase(o, [phase |-> phase, source |-> run[o].base, target |-> None, code |-> code])
    BY <2>2, Zenon
  <2>4. [phase |-> phase, source |-> run[o].base, target |-> None, code |-> code] \in Journals
    BY <2>1 DEF Journals
  <2> QED BY <1>2, <2>1, <2>3, <2>4, PhaseKeeps DEF Preflight
<1>3. ASSUME run[o].pc \notin {"idle", "preflight"}, NEW phase \in Phases, NEW code \in Codes,
             \/ Phase(o, [run[o].entry EXCEPT !.phase = phase, !.code = code])
             \/ Phase(o, [run[o].entry EXCEPT !.phase = phase]),
             phase \in Kept => Past(run[o]),
             UNCHANGED <<active, snapshot>>, Others
      PROVE  MInv'
  <2> DEFINE e == run[o].entry
  <2>1. e \in Journals /\ run[o] # Idle
    BY <1>0, <1>3 DEF RunLegal
  <2>2. PICK entry \in {[e EXCEPT !.phase = phase, !.code = code], [e EXCEPT !.phase = phase]} :
          Phase(o, entry)
    BY <1>3
  <2>3. SnapshotOfSource(snapshot, o, e) \/ phase \notin Kept
    BY <1>0, <1>3 DEF Sourced
  <2> HIDE DEF e
  <2>4. entry \in Journals /\ entry.source = e.source /\ entry.phase = phase
    BY <2>1, <2>2 DEF Journals
  <2>5. phase \in Kept => SnapshotOfSource(snapshot, o, entry)
    BY <2>3, <2>4 DEF SnapshotOfSource
  <2> QED BY <2>1, <2>2, <2>4, <2>5, <1>3, PhaseKeeps
<1>4. ASSUME run[o].pc \notin {"idle", "preflight"}, NEW code \in Codes, Fail(o, code),
             UNCHANGED <<active, snapshot>>, Others
      PROVE  MInv'
  <2>1. "failed" \in Phases /\ "failed" \notin Kept
    BY DEF Phases, Kept
  <2> QED BY <2>1, <1>4, <1>3, Zenon DEF Fail
<1>5. ASSUME run[o].pc \notin {"idle", "preflight"},
             NEW pc \in {"store-snapshot", "snapshot-stored", "replace", "applied"},
             NEW base \in Envelopes \cup {None},
             run' = [run EXCEPT ![o].pc = pc, ![o].base = base], UNCHANGED journal,
             pc = "store-snapshot" => base = run[o].entry.source,
             pc \in {"store-snapshot", "snapshot-stored"} => run[o].entry.phase = "snapshotting",
             pc \in {"replace", "applied"} => base \in Envelopes /\ run[o].entry.phase = "applying",
             pc = "replace" => (OneMigration => base = run[o].entry.source),
             active' \in Envelopes,
             \/ snapshot' = snapshot /\ pc # "snapshot-stored"
             \/ /\ snapshot' \in Snapshots /\ snapshot'.op = o
                /\ snapshot'.profile = run[o].entry.source,
             Others
      PROVE  MInv'
  <2> DEFINE r == [run[o] EXCEPT !.pc = pc, !.base = base]
  <2>1. run[o].entry \in Journals /\ journal[o] \in {run[o].entry, None} /\ run[o] # Idle
    BY <1>0, <1>5 DEF RunLegal
  <2>2. run' = [run EXCEPT ![o] = r]
    BY <1>5
  <2>3. run[o] \in [pc : RunPlaces, at : 0 .. MaxTime, base : Envelopes \cup {None},
                   entry : Journals \cup {None}]
    BY <1>0, <2>1 DEF RunType
  <2>4. r \in RunType /\ r.pc = pc /\ r.base = base /\ r.entry = run[o].entry
    BY <2>3, <1>5 DEF RunType, RunPlaces
  <2> HIDE DEF r
  <2>5. RunLegal(r, journal[o])
    BY <2>1, <2>4, <1>5 DEF RunLegal, Phases
  <2>6. Sourced(snapshot', o, r, journal[o])
    <3>1. CASE snapshot' = snapshot /\ pc # "snapshot-stored"
      BY <3>1, <2>4, <1>0, <1>5 DEF Sourced, Past
    <3>2. CASE snapshot'.profile = run[o].entry.source
      BY <3>2, <2>1, <2>4 DEF Sourced, SnapshotOfSource
    <3> QED BY <3>1, <3>2, <1>5
  <2> QED BY <2>1, <2>2, <2>4, <2>5, <2>6, <1>5, GoesOn
<1>6. CASE ReadForSnapshot(o)
  <2>1. /\ run[o].pc = "snapshotting" /\ UNCHANGED <<active, snapshot>> /\ Others
        /\ \/ Fail(o, "source-changed")
           \/ /\ active = run[o].entry.source /\ UNCHANGED journal
              /\ run' = [run EXCEPT ![o].pc = "store-snapshot", ![o].base = active]
           \/ Phase(o, [run[o].entry EXCEPT !.phase = "blocked", !.code = "quota"])
    BY <1>6 DEF ReadForSnapshot
  <2>2. "blocked" \in Phases \ Kept /\ {"source-changed", "quota"} \subseteq Codes
    BY DEF Phases, Codes, Kept
  <2>3. run[o].pc \notin {"idle", "preflight"} /\ run[o].entry.phase = "snapshotting"
    BY <2>1, <1>0 DEF RunLegal, Phases
  <2>4. CASE Fail(o, "source-changed")
    BY <2>1, <2>2, <2>3, <2>4, <1>4, Zenon
  <2>5. CASE Phase(o, [run[o].entry EXCEPT !.phase = "blocked", !.code = "quota"])
    <3>1. "blocked" \in Phases /\ "quota" \in Codes /\ ("blocked" \in Kept => Past(run[o]))
      BY <2>2
    <3> QED BY <2>1, <2>3, <2>5, <3>1, <1>3, Zenon
  <2>6. CASE /\ active = run[o].entry.source /\ UNCHANGED journal
             /\ run' = [run EXCEPT ![o].pc = "store-snapshot", ![o].base = active]
    BY <2>1, <2>3, <2>6, <1>0, <1>5
  <2> QED BY <2>1, <2>4, <2>5, <2>6
<1>7. CASE StoreSnapshot(o)
  <2> DEFINE record == SnapshotOf(o, run[o].base, run[o].at)
  <2>1. /\ run[o].pc = "store-snapshot" /\ snapshot' = record /\ UNCHANGED <<active, journal>> /\ Others
        /\ run' = [run EXCEPT ![o].pc = "snapshot-stored"]
    BY <1>7 DEF StoreSnapshot, GoOn
  <2>2. /\ run[o].entry \in Journals /\ run[o].base = run[o].entry.source
        /\ run[o].base \in Envelopes /\ run[o].entry.phase = "snapshotting"
    BY <2>1, <1>0 DEF RunLegal, Journals
  <2>3. run[o].at + Retention \in Nat
    BY <2>1, <1>0 DEF RunType, MigrationAssumption
  <2>4. record \in Snapshots /\ record.op = o /\ record.profile = run[o].entry.source
    BY <2>2, <2>3 DEF SnapshotOf, Snapshots
  <2> HIDE DEF record
  <2>5. run' = [run EXCEPT ![o].pc = "snapshot-stored", ![o].base = run[o].base]
    BY <2>1, <1>0 DEF RunType, MInv
  <2>6. run[o].pc \notin {"idle", "preflight"}
    BY <2>1
  <2> QED BY <2>1, <2>2, <2>4, <2>5, <2>6, <1>0, <1>5
<1>8. CASE SnapshotStored(o)
  <2>1. "snapshot-ready" \in Phases /\ "none" \in Codes
    BY DEF Phases, Codes
  <2>2. Past(run[o]) /\ run[o].pc \notin {"idle", "preflight"}
    BY <1>8 DEF SnapshotStored, Past
  <2>3. /\ Phase(o, [run[o].entry EXCEPT !.phase = "snapshot-ready"])
        /\ UNCHANGED <<active, snapshot>> /\ Others
    BY <1>8 DEF SnapshotStored
  <2> QED BY <2>1, <2>2, <2>3, <1>3, Zenon
<1>9. CASE ValidateSnapshot(o)
  <2>1. "applying" \in Phases /\ {"snapshot-missing", "snapshot-expired"} \subseteq Codes
    BY DEF Phases, Codes
  <2>2. Past(run[o]) /\ run[o].pc \notin {"idle", "preflight"}
    BY <1>9, <1>0 DEF ValidateSnapshot, Past, RunLegal, Phases, Kept
  <2>3. UNCHANGED <<active, snapshot>> /\ Others
    BY <1>9 DEF ValidateSnapshot
  <2>4. \/ Phase(o, [run[o].entry EXCEPT !.phase = "applying"])
        \/ \E code \in Codes : Fail(o, code)
    BY <1>9, <2>1 DEF ValidateSnapshot
  <2>5. CASE Phase(o, [run[o].entry EXCEPT !.phase = "applying"])
    BY <2>1, <2>2, <2>3, <2>5, <1>3, Zenon
  <2> QED BY <2>2, <2>3, <2>4, <2>5, <1>4, Zenon
<1>10. CASE ReadToApply(o)
  <2>1. /\ run[o].pc = "applying" /\ UNCHANGED <<active, snapshot>> /\ Others
        /\ \/ \E code \in Codes : Fail(o, code)
           \/ /\ snapshot # None /\ UNCHANGED journal
              /\ \E pc \in {"replace", "applied"} :
                   run' = [run EXCEPT ![o].pc = pc, ![o].base = snapshot.profile]
    BY <1>10 DEF ReadToApply, Codes
  <2>2. snapshot # None => snapshot.profile \in Envelopes /\ snapshot.op \in Migrations
    BY DEF MInv, Snapshots
  <2>3. run[o].pc \notin {"idle", "preflight"} /\ run[o].entry.phase = "applying" /\ Past(run[o])
    BY <2>1, <1>0 DEF RunLegal, Past, Phases, Kept
  <2>4. (snapshot # None /\ OneMigration) => snapshot.profile = run[o].entry.source
    BY <2>2, <2>3, <1>0 DEF OneMigration, Sourced, SnapshotOfSource
  <2> QED BY <2>1, <2>2, <2>3, <2>4, <1>0, <1>4, <1>5
<1>11. CASE Replace(o)
  <2>1. /\ run[o].pc = "replace" /\ active' = Migrated(run[o].base, run[o].at)
        /\ run' = [run EXCEPT ![o].pc = "applied"] /\ UNCHANGED <<journal, snapshot>> /\ Others
    BY <1>11 DEF Replace, GoOn
  <2>2. run[o].base \in Envelopes /\ run[o].at \in 0 .. MaxTime /\ run[o].entry.phase = "applying"
    BY <2>1, <1>0 DEF RunLegal, RunType, Idle
  <2>3. active' \in Envelopes
    BY <2>1, <2>2 DEF Migrated, Envelopes, Versions
  <2>4. run' = [run EXCEPT ![o].pc = "applied", ![o].base = run[o].base]
    BY <2>1, <1>0 DEF RunType, MInv
  <2>5. run[o].pc \notin {"idle", "preflight"}
    BY <2>1
  <2> QED BY <2>1, <2>2, <2>3, <2>4, <2>5, <1>5
<1>12. CASE Applied(o)
  <2> DEFINE target == Migrated(run[o].base, run[o].at)
             entry == [run[o].entry EXCEPT !.phase = "validating-target", !.target = target]
  <2>1. run[o].pc = "applied" /\ Phase(o, entry) /\ UNCHANGED <<active, snapshot>> /\ Others
    BY <1>12 DEF Applied
  <2>2. /\ run[o].entry \in Journals /\ run[o] # Idle /\ run[o].base \in Envelopes
        /\ run[o].entry.phase = "applying"
    BY <2>1, <1>0 DEF RunLegal
  <2>3. run[o].at \in 0 .. MaxTime
    BY <2>2, <1>0 DEF RunType
  <2>4. target \in Envelopes
    BY <2>2, <2>3 DEF Migrated, Envelopes, Versions
  <2> HIDE DEF target
  <2>5. "validating-target" \in Phases
    BY DEF Phases
  <2>6. entry \in Journals /\ entry.source = run[o].entry.source
    BY <2>2, <2>4, <2>5 DEF Journals
  <2> HIDE DEF entry
  <2>7. Past(run[o])
    BY <2>1, <2>2 DEF Past, Kept
  <2>8. SnapshotOfSource(snapshot, o, entry)
    BY <2>6, <2>7, <1>0 DEF Sourced, SnapshotOfSource
  <2> QED BY <2>1, <2>2, <2>6, <2>8, PhaseKeeps
<1>13. CASE ValidateTarget(o)
  <2>1. "committed" \in Phases /\ "invalid-target" \in Codes
    BY DEF Phases, Codes
  <2>2. Past(run[o]) /\ run[o].pc \notin {"idle", "preflight"}
    BY <1>13, <1>0 DEF ValidateTarget, Past, RunLegal, Phases, Kept
  <2>3. UNCHANGED <<active, snapshot>> /\ Others
    BY <1>13 DEF ValidateTarget
  <2>4. \/ Phase(o, [run[o].entry EXCEPT !.phase = "committed"])
        \/ \E code \in Codes : Fail(o, code)
    BY <1>13, <2>1 DEF ValidateTarget
  <2>5. CASE Phase(o, [run[o].entry EXCEPT !.phase = "committed"])
    BY <2>1, <2>2, <2>3, <2>5, <1>3, Zenon
  <2> QED BY <2>2, <2>3, <2>4, <2>5, <1>4, Zenon
<1>14. CASE EndMigration(o)
  <2>1. {"cleanup-pending", "complete"} \subseteq Phases /\ "none" \in Codes
    BY DEF Phases, Codes
  <2>2. run[o].pc \in {"committed", "cleanup-pending"} /\ UNCHANGED <<active, snapshot>> /\ Others
    BY <1>14 DEF EndMigration
  <2>3. \E phase \in Phases : Phase(o, [run[o].entry EXCEPT !.phase = phase])
    BY <1>14, <2>1 DEF EndMigration
  <2>4. Past(run[o]) /\ run[o].pc \notin {"idle", "preflight"}
    BY <2>2, <1>0 DEF Past, RunLegal, Phases, Kept
  <2>5. PICK phase \in Phases : Phase(o, [run[o].entry EXCEPT !.phase = phase])
    BY <2>3, Zenon
  <2> QED BY <2>1, <2>2, <2>4, <2>5, <1>3, Zenon
<1> QED BY <1>1, <1>2, <1>6, <1>7, <1>8, <1>9, <1>10, <1>11, <1>12, <1>13, <1>14 DEF RunStep

\* What holds of a step that writes no journal but may delete them, and leaves the runs alone
\* or ends one.
LEMMA AroundKeeps ==
  ASSUME MInv, UNCHANGED journal \/ journal' = [o \in Migrations |-> None],
         UNCHANGED run \/ \E o \in Migrations : run' = [run EXCEPT ![o] = Idle],
         active' \in Envelopes, undo' \in Envelopes \cup {None}, clock' \in 0 .. MaxTime, body' \in Nat,
         restore' \in [pc : {"replace", "clear"}, profile : Envelopes] \cup {Idle},
         snapshot' \in {snapshot, None}
  PROVE  MInv'
<1>1. /\ run' \in [Migrations -> RunType]
      /\ \A o \in Migrations : run'[o] = run[o] \/ run'[o] = Idle
  <2>1. CASE UNCHANGED run
    BY <2>1 DEF MInv
  <2>2. ASSUME NEW o \in Migrations, run' = [run EXCEPT ![o] = Idle]
        PROVE  /\ run' \in [Migrations -> RunType]
               /\ \A p \in Migrations : run'[p] = run[p] \/ run'[p] = Idle
    BY <2>2 DEF MInv, RunType
  <2> QED BY <2>1, <2>2
<1>2. Idle.pc = "idle" /\ "idle" \notin Phases
  BY DEF Idle, Phases
<1>3. /\ journal' \in [Migrations -> Journals \cup {None}]
      /\ \A o \in Migrations : journal'[o] \in {journal[o], None}
  BY DEF MInv
<1>4. ASSUME NEW o \in Migrations
      PROVE  RunLegal(run'[o], journal'[o]) /\ Sourced(snapshot', o, run'[o], journal'[o])
  <2>1. RunLegal(run[o], journal[o]) /\ Sourced(snapshot, o, run[o], journal[o])
    BY DEF MInv
  <2>2. RunLegal(run'[o], journal'[o])
    BY <1>1, <1>2, <1>3, <2>1 DEF RunLegal
  <2>3. Sourced(snapshot', o, run'[o], journal'[o])
    BY <1>1, <1>2, <1>3, <2>1 DEF Sourced, Past, SnapshotOfSource
  <2> QED BY <2>2, <2>3
<1>5. \A o \in Migrations : (RunLegal(run[o], journal[o]) /\ Sourced(snapshot, o, run[o], journal[o]))'
  BY <1>4 DEF RunLegal, Sourced, OneMigration, Past, SnapshotOfSource
<1> QED BY <1>1, <1>3, <1>5 DEF MInv

LEMMA MigrationNextKeeps ==
  MigrationAssumption /\ MInv /\ [MigrationNext]_mVars => MInv'
<1> SUFFICES ASSUME MigrationAssumption, MInv, [MigrationNext]_mVars PROVE MInv'
  OBVIOUS
<1>0. /\ active \in Envelopes /\ undo \in Envelopes \cup {None} /\ clock \in 0 .. MaxTime /\ body \in Nat
      /\ restore \in [pc : {"replace", "clear"}, profile : Envelopes] \cup {Idle}
      /\ snapshot # None => snapshot.profile \in Envelopes
      /\ MaxBody \in Nat /\ MaxTime \in Nat
  BY DEF MInv, Snapshots, MigrationAssumption
<1>1. CASE UNCHANGED mVars
  BY <1>1, <1>0, AroundKeeps DEF mVars
<1>2. ASSUME NEW o \in Migrations, Crash(o) PROVE MInv'
  BY <1>2, <1>0, AroundKeeps DEF Crash
<1>3. CASE Edit
  <2> DEFINE b == body'
             edited == [active EXCEPT !.body = b, !.at = 0]
  <2>1. b \in 0 .. MaxBody /\ b \in Nat /\ body' = b /\ active' = edited
    BY <1>3, <1>0 DEF Edit, Fresh
  <2> HIDE DEF b
  <2>2. edited \in Envelopes
    <3>1. 0 \in 0 .. MaxTime
      BY <1>0
    <3> QED BY <2>1, <3>1, <1>0 DEF Envelopes
  <2> HIDE DEF edited
  <2> QED BY <1>3, <2>1, <2>2, <1>0, AroundKeeps DEF Edit
<1>4. ASSUME NEW version \in {"source", "target"}, ImportProfile(version) PROVE MInv'
  <2> DEFINE imported == [version |-> version, body |-> body', at |-> 0]
  <2>1. body' \in 0 .. MaxBody /\ body' \in Nat /\ active' = imported
    BY <1>4, <1>0 DEF ImportProfile, Fresh
  <2>2. imported \in Envelopes
    BY <2>1, <1>0 DEF Envelopes, Versions
  <2> HIDE DEF imported
  <2> QED BY <1>4, <2>1, <2>2, <1>0, AroundKeeps DEF ImportProfile
<1>5. CASE RestoreImport
  BY <1>5, <1>0, AroundKeeps DEF RestoreImport
<1>6. CASE RestoreMigration
  BY <1>6, <1>0, AroundKeeps DEF RestoreMigration
<1>7. CASE Inspect
  BY <1>7, <1>0, AroundKeeps DEF Inspect
<1>8. CASE TimePasses
  BY <1>8, <1>0, AroundKeeps DEF TimePasses
<1>9. CASE RecoveryReads
  <2>1. [pc |-> "replace", profile |-> snapshot.profile] \in [pc : {"replace", "clear"}, profile : Envelopes]
    BY <1>9, <1>0 DEF RecoveryReads
  <2> QED BY <1>9, <2>1, <1>0, AroundKeeps DEF RecoveryReads
<1>10. CASE RecoveryReplaces
  <2>1. restore \in [pc : {"replace", "clear"}, profile : Envelopes]
    BY <1>10, <1>0 DEF RecoveryReplaces, Idle
  <2>2. [restore EXCEPT !.pc = "clear"] \in [pc : {"replace", "clear"}, profile : Envelopes]
    BY <2>1
  <2> QED BY <1>10, <2>1, <2>2, <1>0, AroundKeeps DEF RecoveryReplaces
<1>11. CASE RecoveryClears
  BY <1>11, <1>0, AroundKeeps DEF RecoveryClears
<1>12. CASE Reset
  <2>1. [version |-> "unreadable", body |-> 0, at |-> 0] \in Envelopes
    BY <1>0 DEF Envelopes, Versions
  <2> QED BY <1>12, <2>1, <1>0, AroundKeeps DEF Reset
<1> QED BY <1>1, <1>2, <1>3, <1>4, <1>5, <1>6, <1>7, <1>8, <1>9, <1>10, <1>11, <1>12, RunStepKeeps
        DEF MigrationNext

LEMMA MigrationInitMInv == MigrationAssumption /\ MigrationInit => MInv
<1> SUFFICES ASSUME MigrationAssumption, MigrationInit PROVE MInv
  OBVIOUS
<1>1. active \in Envelopes
  BY DEF MigrationInit, MigrationAssumption, Envelopes, Versions
<1>2. \A o \in Migrations : run[o] = Idle /\ journal[o] = None
  BY DEF MigrationInit
<1>3. \A o \in Migrations :
        RunLegal(run[o], journal[o]) /\ Sourced(snapshot, o, run[o], journal[o])
  BY <1>2 DEF RunLegal, Idle, Phases, Sourced, Past
<1>4. clock \in 0 .. MaxTime /\ body \in Nat
  BY DEF MigrationInit, MigrationAssumption
<1>5. run \in [Migrations -> RunType] /\ journal \in [Migrations -> Journals \cup {None}]
  BY DEF MigrationInit, RunType
<1> QED BY <1>1, <1>3, <1>4, <1>5 DEF MInv, MigrationInit

\* What is assumed of the constants holds in every state.
LEMMA MigrationConstants ==
  /\ MigrationAssumption => MigrationAssumption'
  /\ OneMigration => OneMigration'
<1>1. Journals' = Journals /\ Snapshots' = Snapshots
  BY DEF Journals, Snapshots, Phases, Codes, Envelopes, Versions
<1> QED BY <1>1 DEF MigrationAssumption, OneMigration

\* The snapshot an operation took is the profile its migration started from, for any
\* number of migrations that overlap, edits, imports and restorations.
THEOREM SnapshotIsSourceThm == MigrationAssumption /\ MigrationSpec => []SnapshotIsSource
<1>1. MInv => SnapshotIsSource
  BY DEF MInv, Snapshots, SnapshotIsSource, Sourced, SnapshotOfSource
<1> QED BY <1>1, MigrationInitMInv, MigrationNextKeeps, MigrationConstants, PTL DEF MigrationSpec

\* One migration, however often it stops and whatever replaces the profile meanwhile,
\* replaces a profile by what it started from.
THEOREM MigratesItsSourceThm ==
  MigrationAssumption /\ OneMigration /\ MigrationSpec => MigratesItsSource
<1> DEFINE Migrates(o) == (run[o].pc = "replace" /\ run'[o].pc = "applied")
                            => active' = Migrated(run[o].entry.source, run[o].at)
<1>1. MigrationAssumption /\ OneMigration /\ MInv /\ [MigrationNext]_mVars
        => [\A o \in Migrations : Migrates(o)]_mVars
  <2> SUFFICES ASSUME OneMigration, MInv, MigrationNext, NEW o \in Migrations,
                      run[o].pc = "replace", run'[o].pc = "applied"
               PROVE  active' = Migrated(run[o].entry.source, run[o].at)
    BY DEF mVars
  <2>1. run[o].base = run[o].entry.source
    BY DEF MInv, RunLegal
  <2>2. RunStep(o)
    <3>1. ~UNCHANGED run
      OBVIOUS
    <3>2. ~Crash(o)
      BY DEF Crash, Idle, MInv
    <3>3. \E p \in Migrations : RunStep(p) \/ Crash(p)
      BY <3>1 DEF MigrationNext, Edit, RestoreImport, RestoreMigration, Inspect, Reset, TimePasses, ImportProfile,
                  RecoveryReads, RecoveryReplaces, RecoveryClears
    <3> QED BY <3>2, <3>3 DEF OneMigration
  <2>3. Replace(o)
    BY <2>2 DEF RunStep, Start, Preflight, ReadForSnapshot, StoreSnapshot, SnapshotStored, ValidateSnapshot,
                ReadToApply, Applied, ValidateTarget, EndMigration, Idle
  <2> QED BY <2>1, <2>3 DEF Replace
<1> QED BY <1>1, MigrationInitMInv, MigrationNextKeeps, MigrationConstants, PTL DEF MigrationSpec, MigratesItsSource

-----------------------------------------------------------------------------
(* Settings on their way to the tabs.                                          *)

\* What a tab runs, and was told, is not of later settings than v.
TabUpTo(r, v) ==
  /\ r.shown # None => r.shown <= v
  /\ \A i \in 1 .. Len(r.inbox) : r.inbox[i].state = "active" => r.inbox[i].version <= v

\* A tab is told of settings in their order, and nothing is left of a port that was lost.
InOrder(r) ==
  /\ \A i, j \in 1 .. Len(r.inbox) :
       (i < j /\ r.inbox[i].state = "active" /\ r.inbox[j].state = "active")
         => r.inbox[i].version <= r.inbox[j].version
  /\ r.shown # None => \A i \in 1 .. Len(r.inbox) :
       r.inbox[i].state = "active" => r.shown <= r.inbox[i].version
  /\ r.port \in {"none", "loaded"} => r.shown = None /\ r.inbox = <<>>

\* Nobody was told of settings later than v.
NotAfter(v) ==
  /\ published # None => (published.state = "active" => published.version <= v)
  /\ \A t \in Tabs : TabUpTo(tab[t], v)

\* Only the first reconciliation has begun, and what it read is not older than what anybody
\* was told.
TurnsLegal ==
  /\ \A i \in 1 .. Len(turns) : i > 1 => turns[i].pc = "asked"
  /\ (turns # <<>> /\ turns[1].pc # "asked") =>
       /\ turns[1].read \in Settings /\ turns[1].read.version <= saved.version
       /\ NotAfter(turns[1].read.version)

\* The inductive invariant.
AInv ==
  /\ saved \in Settings /\ changes \in 0 .. MaxChanges /\ saved.version <= changes
  /\ granted \in BOOLEAN /\ turns \in Seq(Runs) /\ published \in Messages \cup {None}
  /\ tab \in [Tabs -> ContentScripts] /\ \A t \in Tabs : InOrder(tab[t])
  /\ NotAfter(saved.version) /\ TurnsLegal

\* What is left of a sequence without its first element.
LEMMA RemoveFirstOf ==
  ASSUME NEW S, NEW s \in Seq(S), s # <<>>
  PROVE  /\ RemoveAt(s, 1) \in Seq(S) /\ Len(RemoveAt(s, 1)) = Len(s) - 1
         /\ \A k \in 1 .. Len(s) - 1 : RemoveAt(s, 1)[k] = s[k + 1]
<1>1. SubSeq(s, 1, 0) = <<>>
  OBVIOUS
<1>2. /\ SubSeq(s, 2, Len(s)) \in Seq(S) /\ Len(SubSeq(s, 2, Len(s))) = Len(s) - 1
      /\ \A k \in 1 .. Len(s) - 1 : SubSeq(s, 2, Len(s))[k] = s[k + 1]
  OBVIOUS
<1>3. RemoveAt(s, 1) = <<>> \o SubSeq(s, 2, Len(s))
  BY <1>1 DEF RemoveAt
<1> DEFINE tail == SubSeq(s, 2, Len(s))
<1>4. RemoveAt(s, 1) = <<>> \o tail /\ tail \in Seq(S)
  BY <1>2, <1>3
<1> HIDE DEF tail
<1>5. <<>> \o tail = tail
  BY <1>4
<1> QED BY <1>2, <1>4, <1>5 DEF tail

\* A message that is not older than anything a tab was told keeps its messages in order.
LEMMA PostKeeps ==
  ASSUME ActivationAssumption, NEW r \in ContentScripts, InOrder(r), NEW message \in Messages,
         message.state = "active" => TabUpTo(r, message.version)
  PROVE  LET after == [r EXCEPT !.inbox = Append(@, message)] IN
         /\ r.port = "open" => after \in ContentScripts /\ InOrder(after)
         /\ \A v \in Nat : (TabUpTo(r, v) /\ (message.state = "active" => message.version <= v))
                             => TabUpTo(after, v)
<1> DEFINE after == [r EXCEPT !.inbox = Append(@, message)]
<1>1. /\ r.inbox \in Seq(Messages) /\ after.inbox = Append(r.inbox, message)
      /\ after.port = r.port /\ after.shown = r.shown /\ after \in ContentScripts
  BY DEF ContentScripts
<1> HIDE DEF after
<1>2. /\ Len(after.inbox) = Len(r.inbox) + 1 /\ Len(r.inbox) \in Nat
      /\ \A i \in 1 .. Len(r.inbox) : after.inbox[i] = r.inbox[i]
      /\ after.inbox[Len(r.inbox) + 1] = message
  BY <1>1
<1>3. ASSUME NEW v \in Nat, TabUpTo(r, v), message.state = "active" => message.version <= v
      PROVE  TabUpTo(after, v)
  BY <1>1, <1>2, <1>3 DEF TabUpTo
<1>4. ASSUME r.port = "open" PROVE InOrder(after)
  BY <1>1, <1>2, <1>4 DEF InOrder, TabUpTo
<1> QED BY <1>1, <1>3, <1>4 DEF after

\* What is told to tabs keeps the reconciliations legal that nothing else changes.
LEMMA ToldKeeps ==
  ASSUME ActivationAssumption, AInv, UNCHANGED <<saved, turns, changes>>, granted' \in BOOLEAN,
         published' \in Messages \cup {None}, tab' \in [Tabs -> ContentScripts],
         \A t \in Tabs : InOrder(tab'[t]),
         \A v \in Nat : NotAfter(v) => NotAfter(v)'
  PROVE  AInv'
<1>1. saved.version \in Nat
  BY DEF AInv, Settings
<1>2. ASSUME turns # <<>>, turns[1].pc # "asked" PROVE turns[1].read.version \in Nat
  BY <1>2 DEF AInv, TurnsLegal, Settings
<1>3. NotAfter(saved.version)'
  BY <1>1 DEF AInv
<1>4. TurnsLegal'
  BY <1>2 DEF AInv, TurnsLegal
<1> QED BY <1>3, <1>4 DEF AInv

\* Who was told of nothing later than v was told of nothing later than what is later than v.
LEMMA NotAfterLater ==
  ASSUME ActivationAssumption, AInv, NEW v \in Nat, NEW w \in Nat, v <= w, NotAfter(v)
  PROVE  NotAfter(w)
<1>1. ASSUME NEW m \in Messages, m.state = "active" PROVE m.version \in Nat
  BY <1>1 DEF Messages, Unverified
<1>2. ASSUME published # None, published.state = "active" PROVE published.version <= w
  BY <1>1, <1>2 DEF NotAfter, AInv
<1>3. ASSUME NEW t \in Tabs PROVE TabUpTo(tab[t], w)
  <2>1. tab[t] \in ContentScripts /\ TabUpTo(tab[t], v)
    BY DEF AInv, NotAfter
  <2>2. tab[t].inbox \in Seq(Messages)
    BY <2>1 DEF ContentScripts
  <2>3. tab[t].shown # None => tab[t].shown \in Nat
    BY <2>1 DEF ContentScripts, ActivationAssumption
  <2>4. tab[t].shown # None => tab[t].shown <= w
    BY <2>1, <2>3 DEF TabUpTo
  <2>5. ASSUME NEW i \in 1 .. Len(tab[t].inbox), tab[t].inbox[i].state = "active"
        PROVE  tab[t].inbox[i].version <= w
    <3>1. tab[t].inbox[i] \in Messages
      BY <2>2
    <3> QED BY <1>1, <2>1, <2>5, <3>1 DEF TabUpTo
  <2> QED BY <2>4, <2>5 DEF TabUpTo
<1> QED BY <1>2, <1>3 DEF NotAfter

\* A reconciliation that has begun is the first.
LEMMA BegunIsFirst ==
  ASSUME AInv, NEW i \in DOMAIN turns, turns[i].pc # "asked"
  PROVE  i = 1
<1>1. DOMAIN turns = 1 .. Len(turns) /\ Len(turns) \in Nat
  BY DEF AInv
<1> QED BY <1>1 DEF AInv, TurnsLegal

\* The first reconciliation goes on with settings that nobody is ahead of.
LEMMA FirstGoesOn ==
  ASSUME ActivationAssumption, AInv, turns # <<>>, UNCHANGED <<saved, granted, published, tab, changes>>,
         NEW next \in Runs, turns' = [turns EXCEPT ![1] = next], next.read \in Settings,
         next.read.version <= saved.version, NotAfter(next.read.version)
  PROVE  AInv'
<1>1. turns \in Seq(Runs) /\ Len(turns) \in Nat /\ 1 \in 1 .. Len(turns)
  BY DEF AInv
<1>2. /\ turns' \in Seq(Runs) /\ Len(turns') = Len(turns) /\ turns'[1] = next
      /\ \A i \in 1 .. Len(turns) : i > 1 => turns'[i] = turns[i]
  BY <1>1
<1>3. NotAfter(saved.version)' /\ NotAfter(next.read.version)'
  BY DEF AInv, NotAfter
<1>4. TurnsLegal'
  <2>1. \A i \in 1 .. Len(turns') : i > 1 => turns'[i].pc = "asked"
    BY <1>1, <1>2 DEF AInv, TurnsLegal
  <2>2. NotAfter(turns[1].read.version)'
    BY <1>2, <1>3 DEF NotAfter
  <2> QED BY <1>2, <2>1, <2>2 DEF TurnsLegal
<1> QED BY <1>2, <1>3, <1>4 DEF AInv

\* When the first reconciliation ends the next one has not begun.
LEMMA FirstEnds ==
  ASSUME AInv, turns # <<>>, turns' = RemoveAt(turns, 1)
  PROVE  turns' \in Seq(Runs) /\ TurnsLegal'
<1>1. turns \in Seq(Runs) /\ Len(turns) \in Nat
  BY DEF AInv
<1>2. /\ turns' \in Seq(Runs) /\ Len(turns') = Len(turns) - 1
      /\ \A k \in 1 .. Len(turns) - 1 : turns'[k] = turns[k + 1]
  BY <1>1, RemoveFirstOf
<1>3. \A k \in 1 .. Len(turns) - 1 : turns'[k].pc = "asked"
  BY <1>1, <1>2 DEF AInv, TurnsLegal
<1>4. turns' # <<>> => 1 \in 1 .. Len(turns) - 1
  BY <1>1, <1>2
<1> QED BY <1>2, <1>3, <1>4 DEF TurnsLegal

\* A reconciliation that is asked for comes after the others.
LEMMA AskedLast ==
  ASSUME NEW s \in Seq(Runs), \A i \in 1 .. Len(s) : i > 1 => s[i].pc = "asked"
  PROVE  /\ Append(s, Asked) \in Seq(Runs)
         /\ \A i \in 1 .. Len(Append(s, Asked)) : i > 1 => Append(s, Asked)[i].pc = "asked"
         /\ s # <<>> => Append(s, Asked)[1] = s[1]
         /\ s = <<>> => Append(s, Asked)[1] = Asked
<1>1. Asked \in Runs /\ Asked.pc = "asked"
  BY DEF Asked, Runs
<1>2. Len(s) \in Nat /\ (s # <<>> => 1 \in 1 .. Len(s))
  OBVIOUS
<1> HIDE DEF Asked
<1> QED BY <1>1, <1>2

\* A step of the reconciliation that runs.
LEMMA ReconcilingKeeps ==
  ASSUME ActivationAssumption, AInv, NEW i,
         \/ ReadProfile(i) \/ CheckPermission(i) \/ SettleRegistration(i) \/ ReadFails(i)
         \/ RegistrationFails(i)
  PROVE  AInv'
<1>1. /\ turns \in Seq(Runs) /\ i \in DOMAIN turns /\ i = 1 /\ turns # <<>> /\ turns[1] \in Runs
      /\ saved \in Settings /\ saved.version \in Nat
  <2>1. i \in DOMAIN turns /\ i = 1
    BY DEF ReadProfile, CheckPermission, SettleRegistration, ReadFails, RegistrationFails, Step, Turn
  <2>2. turns \in Seq(Runs) /\ saved \in Settings
    BY DEF AInv
  <2> QED BY <2>1, <2>2 DEF Settings
<1>2. CASE ReadProfile(i)
  <2> DEFINE next == [pc |-> "read", read |-> saved, active |-> FALSE]
  <2>1. /\ turns' = [turns EXCEPT ![1] = next]
        /\ UNCHANGED <<saved, granted, published, tab, changes>>
    BY <1>1, <1>2 DEF ReadProfile, Step
  <2>2. next \in Runs /\ next.read = saved
    BY <1>1 DEF Runs
  <2> HIDE DEF next
  <2>3. next.read \in Settings /\ next.read.version <= saved.version
    BY <1>1, <2>2
  <2>4. NotAfter(next.read.version)
    BY <2>2 DEF AInv
  <2> QED BY <1>1, <2>1, <2>2, <2>3, <2>4, FirstGoesOn
<1>3. CASE CheckPermission(i) \/ SettleRegistration(i) \/ RegistrationFails(i)
  <2>1. turns[1].pc # "asked" /\ UNCHANGED <<saved, granted, published, tab, changes>>
    BY <1>1, <1>3 DEF CheckPermission, SettleRegistration, RegistrationFails, Step
  <2>2. /\ turns[1].read \in Settings /\ turns[1].read.version <= saved.version
        /\ NotAfter(turns[1].read.version)
    BY <1>1, <2>1 DEF AInv, TurnsLegal
  <2>3. turns[1].read.on \in BOOLEAN /\ granted \in BOOLEAN
    BY <2>2 DEF Settings, AInv
  <2>4. PICK next \in Runs : turns' = [turns EXCEPT ![1] = next] /\ next.read = turns[1].read
    <3> DEFINE checked == [turns[1] EXCEPT !.pc = "checked", !.active = turns[1].read.on /\ granted]
    <3> DEFINE settled == [turns[1] EXCEPT !.pc = "settled"]
    <3> DEFINE failed == [turns[1] EXCEPT !.pc = "settled", !.active = FALSE]
    <3>1. \E next \in {checked, settled, failed} : turns' = [turns EXCEPT ![1] = next]
      BY <1>1, <1>3 DEF CheckPermission, SettleRegistration, RegistrationFails, Step
    <3>2. {checked, settled, failed} \subseteq Runs
      BY <1>1, <2>3 DEF Runs
    <3>3. \A next \in {checked, settled, failed} : next.read = turns[1].read
      BY <1>1 DEF Runs
    <3> HIDE DEF checked, settled, failed
    <3> QED BY <3>1, <3>2, <3>3
  <2> QED BY <1>1, <2>1, <2>2, <2>4, FirstGoesOn
<1>4. CASE ReadFails(i)
  <2>1. turns' = RemoveAt(turns, 1) /\ UNCHANGED <<saved, granted, published, tab, changes>>
    BY <1>1, <1>4 DEF ReadFails
  <2>2. NotAfter(saved.version)'
    BY <2>1 DEF AInv, NotAfter
  <2> QED BY <1>1, <2>1, <2>2, FirstEnds DEF AInv
<1> QED BY <1>2, <1>3, <1>4

\* The settings, the permission or the worker change: nobody was told of later settings, and
\* what is asked for comes last.
LEMMA ChangeKeeps ==
  ASSUME ActivationAssumption, AInv,
         \/ \E on \in BOOLEAN : SaveSettings(on) \/ ReplaceProfile(on)
         \/ PermissionChanges \/ WorkerStarts
  PROVE  AInv'
<1>1. /\ turns \in Seq(Runs) /\ changes \in 0 .. MaxChanges /\ MaxChanges \in Nat
      /\ saved \in Settings /\ saved.version \in Nat /\ granted \in BOOLEAN
      /\ \A i \in 1 .. Len(turns) : i > 1 => turns[i].pc = "asked"
  BY DEF AInv, Settings, ActivationAssumption, TurnsLegal
<1>2. UNCHANGED <<published, tab>>
  BY DEF SaveSettings, ReplaceProfile, PermissionChanges, WorkerStarts
<1>3. /\ saved' \in Settings /\ changes' \in 0 .. MaxChanges /\ saved'.version <= changes'
      /\ saved.version <= saved'.version /\ granted' \in BOOLEAN
  <2>1. saved.version <= changes
    BY DEF AInv
  <2>2. CASE \E on \in BOOLEAN : SaveSettings(on) \/ ReplaceProfile(on)
    <3>1. PICK on \in BOOLEAN : saved' = [on |-> on, version |-> changes + 1]
      BY <2>2 DEF SaveSettings, ReplaceProfile
    <3>2. changes' = changes + 1 /\ changes' \in 0 .. MaxChanges /\ granted' = granted
      BY <1>1, <2>2 DEF SaveSettings, ReplaceProfile, Change
    <3> QED BY <1>1, <2>1, <3>1, <3>2 DEF Settings
  <2>3. CASE PermissionChanges
    <3>1. changes' = changes + 1 /\ changes' \in 0 .. MaxChanges /\ saved' = saved
      BY <1>1, <2>3 DEF PermissionChanges, Change
    <3>2. granted' \in BOOLEAN
      BY <2>3, Zenon DEF PermissionChanges
    <3> QED BY <1>1, <2>1, <3>1, <3>2
  <2>4. CASE WorkerStarts
    BY <1>1, <2>1, <2>4 DEF WorkerStarts
  <2> QED BY <2>2, <2>3, <2>4
<1>4. saved'.version \in Nat
  BY <1>3 DEF Settings
<1>5. NotAfter(saved.version)
  BY DEF AInv
<1>6. NotAfter(saved'.version)
  BY <1>1, <1>3, <1>4, <1>5, NotAfterLater
<1>7. NotAfter(saved.version)'
  BY <1>2, <1>6 DEF NotAfter
<1>8. <<Asked>> \in Seq(Runs) /\ Len(<<Asked>>) = 1 /\ <<Asked>>[1] = Asked /\ <<Asked>> # <<>>
  BY DEF Asked, Runs
<1>9. /\ turns' \in Seq(Runs)
      /\ \A i \in 1 .. Len(turns') : i > 1 => turns'[i].pc = "asked"
      /\ turns' # <<>> => turns'[1] = Asked \/ (turns # <<>> /\ turns'[1] = turns[1])
  <2>1. CASE turns' = Append(turns, Asked)
    BY <1>1, <2>1, AskedLast
  <2>2. CASE turns' = turns
    BY <1>1, <2>2
  <2>3. CASE turns' = Append(<<Asked>>, Asked)
    <3> DEFINE one == <<Asked>>
    <3>1. /\ one \in Seq(Runs) /\ one # <<>> /\ one[1] = Asked /\ turns' = Append(one, Asked)
          /\ \A i \in 1 .. Len(one) : i > 1 => one[i].pc = "asked"
      BY <1>8, <2>3
    <3> HIDE DEF one
    <3> QED BY <3>1, AskedLast
  <2>4. CASE turns' = <<Asked>>
    BY <1>8, <2>4
  <2> QED BY <2>1, <2>2, <2>3, <2>4
      DEF SaveSettings, ReplaceProfile, PermissionChanges, WorkerStarts
<1>10. TurnsLegal'
  <2>1. ASSUME turns' # <<>>, turns'[1].pc # "asked"
        PROVE  /\ turns'[1].read \in Settings /\ turns'[1].read.version <= saved'.version
               /\ NotAfter(turns[1].read.version) /\ turns'[1] = turns[1]
    <3>1. turns # <<>> /\ turns'[1] = turns[1]
      BY <1>9, <2>1 DEF Asked
    <3>2. /\ turns[1].read \in Settings /\ turns[1].read.version <= saved.version
          /\ NotAfter(turns[1].read.version)
      BY <2>1, <3>1 DEF AInv, TurnsLegal
    <3> QED BY <1>1, <1>3, <1>4, <3>1, <3>2 DEF Settings
  <2>2. ASSUME turns' # <<>>, turns'[1].pc # "asked" PROVE NotAfter(turns[1].read.version)'
    BY <1>2, <2>1, <2>2 DEF NotAfter
  <2> QED BY <1>9, <2>1, <2>2 DEF TurnsLegal
<1> QED BY <1>2, <1>3, <1>7, <1>9, <1>10 DEF AInv

\* What the first reconciliation publishes is not older than what any tab was told.
LEMMA PublishKeeps ==
  ASSUME ActivationAssumption, AInv, NEW i, Publish(i)
  PROVE  AInv'
<1> DEFINE message == Message(turns[i].active, turns[i].read)
<1>1. /\ i \in DOMAIN turns /\ i = 1 /\ turns # <<>> /\ turns[1].pc = "settled" /\ published' = message
      /\ tab' = [t \in Tabs |-> Posted(t, message)] /\ turns' = RemoveAt(turns, 1)
      /\ UNCHANGED <<saved, granted, changes>>
  <2>1. i \in DOMAIN turns /\ turns[i].pc = "settled"
    BY DEF Publish
  <2>2. i = 1
    BY <2>1, BegunIsFirst
  <2> QED BY <2>1, <2>2 DEF Publish, AInv
<1>2. /\ turns[1].read \in Settings /\ turns[1].read.version <= saved.version
      /\ NotAfter(turns[1].read.version) /\ saved.version \in Nat /\ turns[1].read.version \in Nat
  BY <1>1 DEF AInv, TurnsLegal, Settings
<1>3. message \in Messages /\ (message.state = "active" => message.version = turns[1].read.version)
  BY <1>1, <1>2 DEF Message, Messages, Settings, Unverified
<1>4. tab \in [Tabs -> ContentScripts]
  BY DEF AInv
<1> HIDE DEF message
<1>5. ASSUME NEW t \in Tabs
      PROVE  tab'[t] \in ContentScripts /\ InOrder(tab'[t]) /\ TabUpTo(tab'[t], saved.version)
  <2>1. tab[t] \in ContentScripts /\ InOrder(tab[t]) /\ TabUpTo(tab[t], saved.version)
    BY <1>4 DEF AInv, NotAfter
  <2>2. message.state = "active" => TabUpTo(tab[t], message.version)
    BY <1>2, <1>3 DEF NotAfter
  <2>3. CASE tab[t].port = "open"
    <3> DEFINE after == [tab[t] EXCEPT !.inbox = Append(@, message)]
    <3>1. tab'[t] = after
      BY <1>1, <2>3 DEF Posted
    <3>2. message.state = "active" => message.version <= saved.version
      BY <1>2, <1>3
    <3>3. after \in ContentScripts /\ InOrder(after) /\ TabUpTo(after, saved.version)
      BY <1>2, <1>3, <2>1, <2>2, <2>3, <3>2, PostKeeps
    <3> QED BY <3>1, <3>3
  <2>4. CASE tab[t].port # "open"
    BY <1>1, <2>1, <2>4 DEF Posted
  <2> QED BY <2>3, <2>4
<1>6. tab' \in [Tabs -> ContentScripts]
  BY <1>1, <1>5
<1>7. NotAfter(saved.version)'
  BY <1>1, <1>2, <1>3, <1>5 DEF NotAfter
<1>8. turns' \in Seq(Runs) /\ TurnsLegal'
  BY <1>1, FirstEnds
<1> QED BY <1>1, <1>3, <1>5, <1>6, <1>7, <1>8 DEF AInv

\* The worker stops: nothing is left of what runs and of what it published.
LEMMA StopKeeps ==
  ASSUME ActivationAssumption, AInv, WorkerStops
  PROVE  AInv'
<1>1. tab \in [Tabs -> ContentScripts]
  BY DEF AInv
<1>2. ASSUME NEW t \in Tabs
      PROVE  tab'[t] \in ContentScripts /\ InOrder(tab'[t]) /\ TabUpTo(tab'[t], saved.version)
  <2>1. tab[t] \in ContentScripts /\ InOrder(tab[t]) /\ TabUpTo(tab[t], saved.version)
    BY <1>1 DEF AInv, NotAfter
  <2>2. /\ tab'[t].inbox = tab[t].inbox /\ tab'[t].shown = tab[t].shown /\ tab'[t] \in ContentScripts
        /\ tab'[t].port \in {"none", "loaded"} => tab[t].port \in {"none", "loaded"}
    BY <2>1 DEF WorkerStops, ContentScripts
  <2> QED BY <2>1, <2>2 DEF InOrder, TabUpTo
<1>3. tab' \in [Tabs -> ContentScripts]
  BY <1>2 DEF WorkerStops
<1>4. turns' = <<>> /\ published' = None /\ UNCHANGED <<saved, granted, changes>>
  BY DEF WorkerStops
<1>5. TurnsLegal' /\ turns' \in Seq(Runs)
  BY <1>4 DEF TurnsLegal
<1>6. NotAfter(saved.version)'
  BY <1>2, <1>4 DEF NotAfter
<1> QED BY <1>2, <1>3, <1>4, <1>5, <1>6 DEF AInv

\* One tab changes, and was told of nothing that nobody was told of.
LEMMA TabKeeps ==
  ASSUME ActivationAssumption, AInv, UNCHANGED <<saved, granted, turns, published, changes>>,
         NEW t \in Tabs, NEW r \in ContentScripts, tab' = [tab EXCEPT ![t] = r], InOrder(r),
         \A v \in Nat : NotAfter(v) => TabUpTo(r, v)
  PROVE  AInv'
<1>1. tab \in [Tabs -> ContentScripts] /\ granted' \in BOOLEAN /\ published' \in Messages \cup {None}
  BY DEF AInv
<1>2. /\ tab' \in [Tabs -> ContentScripts] /\ tab'[t] = r
      /\ \A u \in Tabs : u # t => tab'[u] = tab[u]
  BY <1>1
<1>3. \A u \in Tabs : InOrder(tab'[u])
  BY <1>2 DEF AInv
<1>4. ASSUME NEW v \in Nat, NotAfter(v) PROVE NotAfter(v)'
  BY <1>2, <1>4 DEF NotAfter
<1> QED BY <1>1, <1>2, <1>3, <1>4, ToldKeeps

\* A page is loaded or left, its script connects or loses its port.
LEMMA PageKeeps ==
  ASSUME ActivationAssumption, AInv, NEW t \in Tabs,
         Connect(t) \/ LoadPage(t) \/ LeavePage(t) \/ LosePort(t)
  PROVE  AInv'
<1>1. tab[t] \in ContentScripts /\ InOrder(tab[t]) /\ UNCHANGED <<saved, granted, turns, published, changes>>
  BY DEF AInv, Connect, LoadPage, LeavePage, LosePort
<1>2. CASE Connect(t)
  <2> DEFINE r == [port |-> "open", inbox |-> <<Greeting>>, shown |-> None]
  <2>1. tab[t].shown = None
    BY <1>1, <1>2 DEF Connect, InOrder
  <2>2. tab' = [tab EXCEPT ![t] = r]
    BY <1>2, <2>1 DEF Connect, AInv
  <2>3. /\ Greeting \in Messages
        /\ Greeting.state = "active" => published # None /\ published.state = "active" /\ Greeting = published
    BY DEF Greeting, AInv, Messages, Unverified
  <2>4. /\ r.inbox \in Seq(Messages) /\ Len(r.inbox) = 1 /\ r.inbox[1] = Greeting /\ r.shown = None
        /\ r.port = "open" /\ r \in ContentScripts
    BY <2>3 DEF ContentScripts
  <2> HIDE DEF r
  <2>5. InOrder(r)
    BY <2>4 DEF InOrder
  <2>6. ASSUME NEW v \in Nat, NotAfter(v) PROVE TabUpTo(r, v)
    BY <2>3, <2>4, <2>6 DEF TabUpTo, NotAfter
  <2> QED BY <1>1, <2>2, <2>4, <2>5, <2>6, TabKeeps
<1>3. CASE LoadPage(t) \/ LeavePage(t) \/ LosePort(t)
  <2>1. PICK r \in {Absent, [Absent EXCEPT !.port = "loaded"]} : tab' = [tab EXCEPT ![t] = r]
    BY <1>3 DEF LoadPage, LeavePage, LosePort
  <2>2. r \in ContentScripts /\ r.shown = None /\ r.inbox = <<>> /\ Len(r.inbox) = 0
    <3>1. /\ Absent.inbox = <<>> /\ Absent.shown = None /\ Absent.port = "none"
          /\ Absent = [port |-> "none", inbox |-> <<>>, shown |-> None]
      BY DEF Absent
    <3>2. \E port \in {"none", "loaded"} : r = [port |-> port, inbox |-> <<>>, shown |-> None]
      BY <2>1, <3>1
    <3>3. PICK port \in {"none", "loaded"} : r = [port |-> port, inbox |-> <<>>, shown |-> None]
      BY <3>2
    <3>4. <<>> \in Seq(Messages) /\ Len(<<>>) = 0
      OBVIOUS
    <3>5. r.shown = None /\ r.inbox = <<>>
      BY <3>3
    <3>6. r \in ContentScripts
      BY <3>3, <3>4 DEF ContentScripts
    <3> QED BY <3>4, <3>5, <3>6
  <2>3. InOrder(r) /\ \A v \in Nat : TabUpTo(r, v)
    BY <2>2 DEF InOrder, TabUpTo
  <2> QED BY <1>1, <2>1, <2>2, <2>3, TabKeeps
<1> QED BY <1>2, <1>3

\* A tab runs what its first message says.
LEMMA ReceiveKeeps ==
  ASSUME ActivationAssumption, AInv, NEW t \in Tabs, Receive(t)
  PROVE  /\ AInv'
         /\ (tab[t].shown # None /\ tab'[t].shown # None) => tab'[t].shown >= tab[t].shown
<1> DEFINE old == tab[t]
<1> DEFINE heard == IF Head(old.inbox).state = "active" THEN Head(old.inbox).version ELSE None
<1> DEFINE r == [old EXCEPT !.inbox = Tail(@), !.shown = heard]
<1>1. /\ tab \in [Tabs -> ContentScripts] /\ old \in ContentScripts /\ InOrder(old)
      /\ old.inbox \in Seq(Messages) /\ old.inbox # <<>> /\ old.shown \in (0 .. MaxChanges) \cup {None}
      /\ UNCHANGED <<saved, granted, turns, published, changes>>
  BY DEF AInv, Receive, ContentScripts
<1>2. tab' = [tab EXCEPT ![t] = r]
  BY <1>1 DEF Receive, ContentScripts
<1>3. /\ Head(old.inbox) = old.inbox[1] /\ old.inbox[1] \in Messages /\ Tail(old.inbox) \in Seq(Messages)
      /\ Len(old.inbox) \in Nat /\ Len(old.inbox) >= 1 /\ Len(Tail(old.inbox)) = Len(old.inbox) - 1
      /\ \A k \in 1 .. Len(old.inbox) - 1 : Tail(old.inbox)[k] = old.inbox[k + 1]
  BY <1>1
<1>4. ASSUME NEW m \in Messages, m.state = "active" PROVE m.version \in 0 .. MaxChanges
  BY <1>4 DEF Messages, Unverified
<1>5. heard \in (0 .. MaxChanges) \cup {None}
  BY <1>3, <1>4
<1>6. r \in ContentScripts /\ r.inbox = Tail(old.inbox) /\ r.shown = heard /\ r.port = old.port
  BY <1>1, <1>3, <1>5 DEF ContentScripts
<1>7. heard # None => old.inbox[1].state = "active" /\ heard = old.inbox[1].version
  BY <1>3
<1> HIDE DEF heard, r
<1>8. InOrder(r)
  <2>1. ~ old.port \in {"none", "loaded"}
    BY <1>1 DEF InOrder
  <2>2. \A a, b \in 1 .. Len(r.inbox) :
          (a < b /\ r.inbox[a].state = "active" /\ r.inbox[b].state = "active")
            => r.inbox[a].version <= r.inbox[b].version
    BY <1>1, <1>3, <1>6 DEF InOrder
  <2>3. r.shown # None => \A k \in 1 .. Len(r.inbox) :
          r.inbox[k].state = "active" => r.shown <= r.inbox[k].version
    BY <1>1, <1>3, <1>6, <1>7 DEF InOrder
  <2> QED BY <1>6, <2>1, <2>2, <2>3 DEF InOrder
<1>9. ASSUME NEW v \in Nat, NotAfter(v) PROVE TabUpTo(r, v)
  <2>1. TabUpTo(old, v)
    BY <1>9 DEF NotAfter
  <2> QED BY <1>3, <1>6, <1>7, <2>1 DEF TabUpTo
<1>10. AInv'
  BY <1>1, <1>2, <1>6, <1>8, <1>9, TabKeeps
<1>11. (old.shown # None /\ r.shown # None) => r.shown >= old.shown
  <2> SUFFICES ASSUME old.shown # None, r.shown # None PROVE r.shown >= old.shown
    OBVIOUS
  <2>1. old.shown <= old.inbox[1].version /\ r.shown = old.inbox[1].version
    BY <1>1, <1>3, <1>6, <1>7 DEF InOrder
  <2>2. r.shown \in Int /\ old.shown \in Int
    BY <1>1, <1>5, <1>6
  <2> QED BY <2>1, <2>2
<1>12. tab'[t] = r
  BY <1>1, <1>2
<1> QED BY <1>10, <1>11, <1>12

\* The invariant and the order of what a tab runs, for every step.
LEMMA ActivationNextKeeps ==
  ASSUME ActivationAssumption, AInv, [ActivationNext]_aVars
  PROVE  /\ AInv'
         /\ \A t \in Tabs : (tab[t].shown # None /\ tab'[t].shown # None) => tab'[t].shown >= tab[t].shown
<1>1. \A t \in Tabs : tab[t].shown # None => tab[t].shown \in Nat
  BY DEF AInv, ContentScripts
<1>2. ASSUME \A t \in Tabs : tab'[t].shown \in {tab[t].shown, None}
      PROVE  \A t \in Tabs : (tab[t].shown # None /\ tab'[t].shown # None) => tab'[t].shown >= tab[t].shown
  BY <1>1, <1>2
<1>3. ASSUME UNCHANGED tab PROVE \A t \in Tabs : tab'[t].shown \in {tab[t].shown, None}
  BY <1>3
<1>4. CASE UNCHANGED aVars
  <2>1. UNCHANGED <<saved, granted, turns, published, tab, changes>>
    BY <1>4 DEF aVars
  <2>2. AInv'
    BY <2>1 DEF AInv, NotAfter, TurnsLegal
  <2> QED BY <1>2, <1>3, <2>1, <2>2
<1>5. ASSUME NEW i,
             \/ ReadProfile(i) \/ CheckPermission(i) \/ SettleRegistration(i) \/ ReadFails(i)
             \/ RegistrationFails(i)
      PROVE  AInv' /\ UNCHANGED tab
  BY <1>5, ReconcilingKeeps
     DEF ReadProfile, CheckPermission, SettleRegistration, ReadFails, RegistrationFails
<1>6. ASSUME NEW i, Publish(i)
      PROVE  AInv' /\ \A t \in Tabs : tab'[t].shown \in {tab[t].shown, None}
  <2>1. AInv'
    BY <1>6, PublishKeeps
  <2>2. ASSUME NEW t \in Tabs PROVE tab'[t].shown = tab[t].shown
    <3>1. tab[t] \in ContentScripts
      BY DEF AInv
    <3> QED BY <1>6, <3>1 DEF Publish, Posted, ContentScripts
  <2> QED BY <2>1, <2>2
<1>7. CASE (\E on \in BOOLEAN : SaveSettings(on) \/ ReplaceProfile(on)) \/ PermissionChanges \/ WorkerStarts
  <2>1. UNCHANGED tab
    BY <1>7 DEF SaveSettings, ReplaceProfile, PermissionChanges, WorkerStarts
  <2> QED BY <1>2, <1>3, <1>7, <2>1, ChangeKeeps
<1>8. CASE WorkerStops
  <2>1. ASSUME NEW t \in Tabs PROVE tab'[t].shown = tab[t].shown
    <3>1. tab[t] \in ContentScripts
      BY DEF AInv
    <3> QED BY <1>8, <3>1 DEF WorkerStops, ContentScripts
  <2> QED BY <1>2, <1>8, <2>1, StopKeeps
<1>9. ASSUME NEW t \in Tabs, Connect(t) \/ LoadPage(t) \/ LeavePage(t) \/ LosePort(t)
      PROVE  AInv' /\ \A u \in Tabs : tab'[u].shown \in {tab[u].shown, None}
  <2>1. tab \in [Tabs -> ContentScripts]
    BY DEF AInv
  <2>2. \A u \in Tabs : tab'[u].shown \in {tab[u].shown, None}
    BY <1>9, <2>1 DEF Connect, LoadPage, LeavePage, LosePort, Absent
  <2> QED BY <1>9, <2>2, PageKeeps
<1>10. ASSUME NEW t \in Tabs, Receive(t)
       PROVE  /\ AInv'
              /\ \A u \in Tabs : (tab[u].shown # None /\ tab'[u].shown # None) => tab'[u].shown >= tab[u].shown
  <2>1. ASSUME NEW u \in Tabs, u # t PROVE tab'[u] = tab[u]
    BY <1>10, <2>1 DEF Receive, AInv
  <2> QED BY <1>1, <1>10, <2>1, ReceiveKeeps
<1> QED BY <1>2, <1>3, <1>4, <1>5, <1>6, <1>7, <1>8, <1>9, <1>10 DEF ActivationNext, Reconcile

\* The first state.
LEMMA ActivationInitAInv ==
  ASSUME ActivationAssumption, ActivationInit
  PROVE  AInv
<1>1. Absent \in ContentScripts /\ Absent.shown = None /\ Absent.inbox = <<>> /\ Len(Absent.inbox) = 0
  BY DEF Absent, ContentScripts
<1>2. /\ saved = [on |-> FALSE, version |-> 0] /\ saved \in Settings /\ changes = 0 /\ granted = TRUE
      /\ turns = <<>> /\ published = None /\ MaxChanges \in Nat
      /\ tab \in [Tabs -> ContentScripts] /\ \A t \in Tabs : tab[t] = Absent
  BY <1>1 DEF ActivationInit, Settings, ActivationAssumption
<1>3. \A t \in Tabs : InOrder(tab[t]) /\ TabUpTo(tab[t], saved.version)
  BY <1>1, <1>2 DEF InOrder, TabUpTo
<1>4. NotAfter(saved.version) /\ TurnsLegal /\ turns \in Seq(Runs)
  BY <1>2, <1>3 DEF NotAfter, TurnsLegal
<1> QED BY <1>2, <1>3, <1>4 DEF AInv

\* The constants do not change.
LEMMA ActivationConstants == ActivationAssumption => ActivationAssumption'
  BY DEF ActivationAssumption, Settings, Messages, Unverified

\* A tab that runs under some settings is never put back to older ones, for any tabs, changes
\* of settings and permissions, and stops of the worker.
THEOREM NoStaleLanguageThm == ActivationAssumption /\ ActivationSpec => NoStaleLanguage
<1>1. (ActivationAssumption /\ AInv /\ [ActivationNext]_aVars) => AInv'
  BY ActivationNextKeeps
<1>2. (ActivationAssumption /\ AInv /\ [ActivationNext]_aVars) =>
        \A t \in Tabs : (tab[t].shown # None /\ tab'[t].shown # None) => tab'[t].shown >= tab[t].shown
  BY ActivationNextKeeps
<1> QED BY <1>1, <1>2, ActivationInitAInv, ActivationConstants, PTL DEF ActivationSpec, NoStaleLanguage
=============================================================================
