------------------------- MODULE OperationsJournal -------------------------
(* The journal that executes each operation on the profile once, however often   *)
(* it is asked for, cancelled, interrupted and asked for again, and the feedback    *)
(* and rule operations executed through it.  Executions run one after the other;    *)
(* a cancellation comes at any time, also while the mutation of one is awaited.     *)
EXTENDS Nothing, Naturals, Sequences

CONSTANTS
  Ops, Items,  \* operation identifiers; feedback examples and rules
  Commands,    \* the commands that are given: an operation, its type and its target
  MaxAsked     \* bounds how often an execution is asked for

VARIABLES
  profile,  \* the profile
  entries,  \* the entry of each operation
  queue,    \* the executions that wait for the ones before them, in their order
  running,  \* the execution whose mutation is awaited, and its outcome
  asked     \* counts the executions asked for

jVars == <<profile, entries, queue, running, asked>>

OperationStates == {"acknowledged", "running", "committed", "cancelled", "failed", "compensated"}
Types == {"feedback.record", "feedback.undo", "rule.save"}
Targets == [type : Types, item : Items, original : Ops \cup {None}]
Profiles == [revision : Nat, feedback : SUBSET Items, rules : SUBSET Items]

OperationEntries ==
  [state : OperationStates, target : Targets, attempt : Nat, retryable : BOOLEAN,
   effect : {"none", "recorded", "removed", "saved"}, revision : Nat, by : Ops \cup {None}]

Executions == [command : Commands, draft : Profiles \cup {None}]

\* A command names an operation, and an undo the one it takes back; having no entry, no
\* execution and no draft is none of these.
JournalAssumption ==
  /\ Commands \subseteq [op : Ops, type : Types, item : Items, original : Ops \cup {None}]
  /\ \A c \in Commands : c.type = "feedback.undo" => c.original \in Ops
  /\ None \notin OperationEntries \cup Profiles \cup Executions

TargetOf(c) == [type |-> c.type, item |-> c.item, original |-> c.original]

Matches(c) == entries[c.op].target = TargetOf(c)

\* An operation is in flight from the call of execute until its promise settles.
InFlight == {queue[k] : k \in 1..Len(queue)} \cup (IF running = None THEN {} ELSE {running.command})

-----------------------------------------------------------------------------
(* The mutations of FeedbackProfileService: the draft they make, or no draft.     *)

CommitFeedback(draft, c) ==
  IF c.item \in draft.feedback THEN None
  ELSE [draft EXCEPT !.feedback = @ \cup {c.item}]

CommitFeedbackUndo(draft, c) ==
  IF c.item \in draft.feedback THEN [draft EXCEPT !.feedback = @ \ {c.item}] ELSE None

CommitRule(draft, c) == [draft EXCEPT !.rules = @ \cup {c.item}]

Mutated(draft, c) ==
  CASE c.type = "feedback.record" -> CommitFeedback(draft, c)
    [] c.type = "feedback.undo" -> CommitFeedbackUndo(draft, c)
    [] c.type = "rule.save" -> CommitRule(draft, c)

EffectOf(type) ==
  CASE type = "feedback.record" -> "recorded"
    [] type = "feedback.undo" -> "removed"
    [] type = "rule.save" -> "saved"

-----------------------------------------------------------------------------
\* An entry for an operation that has none.
Acknowledged(c) ==
  [state |-> "acknowledged", target |-> TargetOf(c), attempt |-> 0, retryable |-> TRUE,
   effect |-> "none", revision |-> 0, by |-> None]

Acknowledge(c) ==
  /\ entries[c.op] = None
  /\ entries' = [entries EXCEPT ![c.op] = Acknowledged(c)]
  /\ UNCHANGED <<profile, queue, running, asked>>

\* A call joins the execution of its operation that is in flight; another waits for
\* every execution before it.
Execute(c) ==
  /\ asked < MaxAsked /\ asked' = asked + 1
  /\ \A other \in InFlight : other.op # c.op
  /\ queue' = Append(queue, c)
  /\ UNCHANGED <<profile, entries, running>>

\* Slip: a committed operation is executed again.
SlipDecided(o) ==
  \/ entries[o].state \in {"compensated", "cancelled"}
  \/ entries[o].state = "failed" /\ ~entries[o].retryable

\* What has been decided is answered and not executed again.
Decided(o) ==
  \/ entries[o].state \in {"committed", "compensated", "cancelled"}
  \/ entries[o].state = "failed" /\ ~entries[o].retryable

\* The next execution begins: the entry is acknowledged when it is new, runs, and
\* its mutation is awaited, or the call is answered at once.
Begin ==
  /\ running = None /\ queue # <<>> /\ queue' = Tail(queue)
  /\ LET c == Head(queue)
         entry == IF entries[c.op] = None THEN Acknowledged(c) ELSE entries[c.op] IN
       IF entries[c.op] # None /\ (~Matches(c) \/ Decided(c.op))
       THEN UNCHANGED <<entries, running>>
       ELSE /\ entries' = [entries EXCEPT ![c.op] =
                 [entry EXCEPT !.state = "running", !.attempt = @ + 1, !.retryable = TRUE]]
            /\ running' = [command |-> c, draft |-> Mutated(profile, c)]
  /\ UNCHANGED <<profile, asked>>

\* The entry an undo compensates.
Compensable(c) ==
  /\ entries[c.original] # None /\ entries[c.original].state = "committed"
  /\ entries[c.original].effect = "recorded" /\ entries[c.original].target.item = c.item

CompensatedEntry(c) == [entries[c.original] EXCEPT !.state = "compensated", !.retryable = FALSE,
                                                   !.by = c.op]

\* A mutation that throws, or an undo without the effect it takes back.
Fails ==
  /\ running # None
  /\ LET c == running.command IN
       /\ \/ running.draft = None
          \/ /\ entries[c.op].state # "cancelled"
             /\ c.type = "feedback.undo" /\ ~Compensable(c)
       /\ entries' = [entries EXCEPT ![c.op] = [@ EXCEPT !.state = "failed", !.retryable = FALSE,
                                                         !.effect = "none"]]
  /\ running' = None /\ UNCHANGED <<profile, queue, asked>>

\* The mutation succeeded and the operation was cancelled meanwhile.
Abandon ==
  /\ running # None /\ running.draft # None
  /\ entries[running.command.op].state = "cancelled"
  /\ running' = None /\ UNCHANGED <<profile, entries, queue, asked>>

\* Slip: a cancellation during the mutation is not looked for.
SlipMayCommit ==
  /\ running # None /\ running.draft # None
  /\ running.command.type = "feedback.undo" => Compensable(running.command)

MayCommit ==
  /\ running # None /\ running.draft # None
  /\ entries[running.command.op].state # "cancelled"
  /\ running.command.type = "feedback.undo" => Compensable(running.command)

\* Profile, entry and compensated entry change in one synchronous piece of code.
Commit ==
  /\ MayCommit
  /\ LET c == running.command
         revision == profile.revision + 1
         committed == [entries[c.op] EXCEPT !.state = "committed", !.retryable = FALSE,
                                            !.revision = revision, !.effect = EffectOf(c.type)]
     IN /\ profile' = [running.draft EXCEPT !.revision = revision]
        /\ entries' = [o \in Ops |->
             IF o = c.op THEN committed
             ELSE IF c.type = "feedback.undo" /\ o = c.original THEN CompensatedEntry(c)
             ELSE entries[o]]
  /\ running' = None /\ UNCHANGED <<queue, asked>>

\* The execution is interrupted before its commit; the next one follows.
Interrupted ==
  /\ MayCommit /\ running' = None
  /\ UNCHANGED <<profile, entries, queue, asked>>

Cancel(o) ==
  /\ entries[o] # None /\ entries[o].state \in {"acknowledged", "running"}
  /\ entries' = [entries EXCEPT ![o].state = "cancelled", ![o].retryable = FALSE]
  /\ UNCHANGED <<profile, queue, running, asked>>

\* A journal is made from the snapshot of one that ended.
FromSnapshot ==
  /\ queue # <<>> \/ running # None
  /\ queue' = <<>> /\ running' = None
  /\ UNCHANGED <<profile, entries, asked>>

Init ==
  /\ profile = [revision |-> 0, feedback |-> {}, rules |-> {}]
  /\ entries = [o \in Ops |-> None]
  /\ queue = <<>> /\ running = None /\ asked = 0

Tick == Begin \/ Fails \/ Abandon \/ Commit \/ Interrupted

Next ==
  \/ Tick \/ FromSnapshot
  \/ \E c \in Commands : Acknowledge(c) \/ Execute(c)
  \/ \E o \in Ops : Cancel(o)

\* The promise chain of the journal always goes on.
Spec == Init /\ [][Next]_jVars /\ WF_jVars(Tick)

-----------------------------------------------------------------------------
TypeOK ==
  /\ profile \in Profiles
  /\ \A o \in Ops : entries[o] = None \/ entries[o] \in OperationEntries
  /\ \A k \in 1..Len(queue) : queue[k] \in Commands
  /\ running = None \/ running.command \in Commands

EffectIn(o) ==
  LET e == entries[o] IN
    IF e = None \/ e.effect = "none" THEN [kind |-> "none"]
    ELSE [kind |-> IF e.state = "compensated" THEN "undone" ELSE e.effect, item |-> e.target.item]

Atomic == INSTANCE AtomicProfile WITH
  feedback <- profile.feedback, rules <- profile.rules, revision <- profile.revision,
  effect <- [o \in Ops |-> EffectIn(o)]

\* However often an operation is asked for, cancelled, interrupted between its
\* mutation and its commit or answered from a restored journal, it changes the
\* profile at most once, and profile and entries always tell the same (executeOnce).
ExecutesOnce == Atomic!Spec

\* An operation that was cancelled never takes effect afterwards, although its
\* mutation may already be running when it is cancelled (the check after the await
\* of mutate).
CancelledHasNoEffect ==
  [][\A o \in Ops : (entries[o] # None /\ entries[o].state = "cancelled")
                      => EffectIn(o)'.kind = "none"]_entries

\* Every execution asked for comes to its turn, also after ones that failed or were
\* interrupted (#transactionTail), unless the journal is replaced.
QueueDrains == []<>(queue = <<>> /\ running = None)
=============================================================================
