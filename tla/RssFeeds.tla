------------------------------ MODULE RssFeeds ------------------------------
(* The feeds of the profile and what the service worker stores of them: the    *)
(* panel that pauses and removes a feed, the worker's batches of due feeds and *)
(* revalidations, and the notice of a removal between the two.                 *)
(* The acquisition of this version performs no request: it answers at once.    *)
EXTENDS Integers

CONSTANTS
  Feeds,         \* feed ids
  Panels,        \* side panels that show the feeds
  Slots,         \* bound: runs of the worker in progress at once
  MaxRevision,   \* bound: writes of the profile
  MaxAsked,      \* bound: revalidations asked for
  MaxFeedFaults  \* bound: failing writes, lost notices and stopped workers

ASSUME FeedAssumption ==
  Feeds # {} /\ MaxRevision \in Nat /\ MaxAsked \in Nat /\ MaxFeedFaults \in Nat

VARIABLES
  subscription,  \* the profile's part: feed -> "active", "paused" or "none"
  revision,      \* the profile's revision
  status,        \* the stored runtime state of a feed
  panel,         \* panel -> the removal or pause it is carrying out
  batch,         \* the worker's batch of due feeds
  slot,          \* the worker's runs
  cancelled,     \* the feeds the worker was told to be removed
  asked,         \* revalidations asked for
  faults         \* faults left

feedVars == <<subscription, revision, status, panel, batch, slot, cancelled, asked, faults>>

-----------------------------------------------------------------------------
Statuses == {"none", "fetching", "unavailable", "removed"}

\* A state that names no next attempt makes its feed due.
Unscheduled == {"none", "fetching", "removed"}

IdlePanel(p) == panel[p].pc = "idle"
Quiet == [pc |-> "idle", kind |-> "pause", feed |-> CHOOSE f \in Feeds : TRUE, basis |-> 0]
Stop(p) == panel' = [panel EXCEPT ![p] = Quiet]

NoBatch == [pc |-> "idle", feeds |-> {}]

\* A run belongs to the batch in progress, to a revalidation or to a batch that
\* another of its runs has already ended by failing.
FreeSlot == [pc |-> "free", feed |-> CHOOSE f \in Feeds : TRUE, ofBatch |-> FALSE]

Free == {s \in Slots : slot[s].pc = "free"}
RunsOf(f) == {s \in Slots : slot[s].pc # "free" /\ slot[s].feed = f}

Fault == faults > 0 /\ faults' = faults - 1

UnchangedProfile == UNCHANGED <<subscription, revision>>
UnchangedWorker == UNCHANGED <<batch, slot, cancelled, asked>>

-----------------------------------------------------------------------------
(* The panel *)

\* mutate reads the revision.
Choose(p, f, kind) ==
  /\ IdlePanel(p) /\ subscription[f] # "none"
  /\ panel' = [panel EXCEPT ![p] = [pc |-> "commit", kind |-> kind, feed |-> f, basis |-> revision]]
  /\ UnchangedProfile /\ UnchangedWorker /\ UNCHANGED <<status, faults>>

Toggled(f) == IF subscription[f] = "active" THEN "paused" ELSE "active"

\* setPaused and remove commit in one transaction at the revision read.
Commit(p) ==
  /\ panel[p].pc = "commit" /\ revision = panel[p].basis /\ revision < MaxRevision
  /\ LET f == panel[p].feed IN
     /\ subscription[f] # "none"
     /\ revision' = revision + 1
     /\ \/ /\ panel[p].kind = "pause"
           /\ subscription' = [subscription EXCEPT ![f] = Toggled(f)]
           /\ Stop(p)
        \/ /\ panel[p].kind = "remove"
           /\ subscription' = [subscription EXCEPT ![f] = "none"]
           /\ panel' = [panel EXCEPT ![p].pc = "clear"]
  /\ UnchangedWorker /\ UNCHANGED <<status, faults>>

\* The profile has moved on, or the feed is gone.
CommitRefused(p) ==
  /\ panel[p].pc = "commit"
  /\ revision # panel[p].basis \/ subscription[panel[p].feed] = "none"
  /\ Stop(p)
  /\ UnchangedProfile /\ UnchangedWorker /\ UNCHANGED <<status, faults>>

\* The state clearRssFeedData stores.
Tombstone == "removed"

Clear(p) ==
  /\ panel[p].pc = "clear"
  /\ status' = [status EXCEPT ![panel[p].feed] = Tombstone]
  /\ panel' = [panel EXCEPT ![p].pc = "notify"]
  /\ UnchangedProfile /\ UnchangedWorker /\ UNCHANGED faults

\* The worker is told; a worker that was stopped starts to hear it.
Cancel(p) ==
  /\ panel[p].pc = "notify"
  /\ cancelled' = cancelled \cup {panel[p].feed}
  /\ Stop(p)
  /\ UnchangedProfile /\ UNCHANGED <<status, batch, slot, asked, faults>>

\* A write or the notice fails, or the panel is closed: nothing is taken up again.
PanelFails(p) ==
  /\ ~IdlePanel(p) /\ Fault
  /\ Stop(p)
  /\ UnchangedProfile /\ UnchangedWorker /\ UNCHANGED status

\* Another writer of the profile: an edit, or an import or a synchronization that
\* brings back a feed under the id it had.
Elsewhere ==
  /\ revision < MaxRevision /\ revision' = revision + 1
  /\ \/ UNCHANGED subscription
     \/ \E f \in Feeds : /\ subscription[f] = "none"
                         /\ subscription' = [subscription EXCEPT ![f] = "active"]
  /\ UNCHANGED <<status, panel, faults>> /\ UnchangedWorker

-----------------------------------------------------------------------------
(* The worker *)

UnchangedPanel == UNCHANGED <<panel, subscription, revision, asked>>

\* The feeds a batch is made of.
Active == {f \in Feeds : subscription[f] = "active"}

\* runDue, unless one is in flight, reads the subscriptions ...
WakeUp ==
  /\ batch.pc = "idle"
  /\ batch' = [pc |-> "due", feeds |-> Active]
  /\ UnchangedPanel /\ UNCHANGED <<status, slot, cancelled, faults>>

\* ... and then the states, and runs what is due.  Whether the time of an attempt
\* has come is any choice.
RunDue ==
  /\ batch.pc = "due"
  /\ \E due \in SUBSET batch.feeds :
       /\ {f \in batch.feeds : status[f] \in Unscheduled} \subseteq due
       /\ \E place \in [due -> Free] :
            /\ \A f, g \in due : f # g => place[f] # place[g]
            /\ slot' = [s \in Slots |->
                 IF \E f \in due : place[f] = s
                   THEN [pc |-> "begin", feed |-> CHOOSE f \in due : place[f] = s, ofBatch |-> TRUE]
                   ELSE slot[s]]
       /\ batch' = IF due = {} THEN NoBatch ELSE [pc |-> "running", feeds |-> due]
  /\ UnchangedPanel /\ UNCHANGED <<status, cancelled, faults>>

\* A message asks for one feed; a paused one is answered without a run.
Revalidate(f, s) ==
  /\ subscription[f] = "active" /\ s \in Free
  /\ asked < MaxAsked /\ asked' = asked + 1
  /\ slot' = [slot EXCEPT ![s] = [pc |-> "begin", feed |-> f, ofBatch |-> FALSE]]
  /\ UNCHANGED <<panel, subscription, revision, status, batch, cancelled, faults>>

\* A run is over; the batch with the last of its runs.
Finish(s) ==
  /\ slot' = [slot EXCEPT ![s] = FreeSlot]
  /\ batch' = IF slot[s].ofBatch /\ \A t \in Slots \ {s} : ~slot[t].ofBatch THEN NoBatch ELSE batch

\* A slip: nobody looks whether the feed was cancelled.
NeverTold(s) == FALSE

\* The worker was told of the removal when the write was to be issued.
Told(s) == slot[s].feed \in cancelled

\* write issues its transaction unless the feed was cancelled, in which case the
\* second write is not issued either.
Begin(s) ==
  /\ slot[s].pc = "begin"
  /\ \/ /\ Told(s) /\ Finish(s)
     \/ /\ ~Told(s)
        /\ slot' = [slot EXCEPT ![s].pc = "mark"]
        /\ UNCHANGED batch
  /\ UnchangedPanel /\ UNCHANGED <<status, cancelled, faults>>

\* The transaction commits; the acquisition answers and the next is issued.
Mark(s) ==
  /\ slot[s].pc = "mark"
  /\ status' = [status EXCEPT ![slot[s].feed] = "fetching"]
  /\ \/ /\ Told(s) /\ Finish(s)
     \/ /\ ~Told(s)
        /\ slot' = [slot EXCEPT ![s].pc = "store"]
        /\ UNCHANGED batch
  /\ UnchangedPanel /\ UNCHANGED <<cancelled, faults>>

Store(s) ==
  /\ slot[s].pc = "store"
  /\ status' = [status EXCEPT ![slot[s].feed] = "unavailable"]
  /\ Finish(s)
  /\ UnchangedPanel /\ UNCHANGED <<cancelled, faults>>

\* A write fails: the run rejects, and with the first of its runs the batch is no
\* longer in flight, although the others go on.
WriteFails(s) ==
  /\ slot[s].pc \in {"mark", "store"} /\ Fault
  /\ IF slot[s].ofBatch
       THEN /\ slot' = [t \in Slots |-> IF t = s THEN FreeSlot ELSE [slot[t] EXCEPT !.ofBatch = FALSE]]
            /\ batch' = NoBatch
       ELSE /\ slot' = [slot EXCEPT ![s] = FreeSlot]
            /\ UNCHANGED batch
  /\ UnchangedPanel /\ UNCHANGED <<status, cancelled>>

\* The browser stops the worker.
WorkerStops ==
  /\ Fault
  /\ batch' = NoBatch /\ cancelled' = {}
  /\ slot' = [s \in Slots |-> FreeSlot]
  /\ UnchangedPanel /\ UNCHANGED status

-----------------------------------------------------------------------------
FeedsInit ==
  /\ subscription \in [Feeds -> {"active", "paused"}]
  /\ revision = 0
  /\ status = [f \in Feeds |-> "none"]
  /\ panel = [p \in Panels |-> Quiet]
  /\ batch = NoBatch
  /\ slot = [s \in Slots |-> FreeSlot]
  /\ cancelled = {}
  /\ asked = 0
  /\ faults = MaxFeedFaults

PanelNext(p) ==
  \/ \E f \in Feeds, kind \in {"pause", "remove"} : Choose(p, f, kind)
  \/ Commit(p) \/ CommitRefused(p) \/ Clear(p) \/ Cancel(p) \/ PanelFails(p)

Run(s) == Begin(s) \/ Mark(s) \/ Store(s)

FeedsNext ==
  \/ \E p \in Panels : PanelNext(p)
  \/ Elsewhere \/ WakeUp \/ RunDue \/ WorkerStops
  \/ \E f \in Feeds, s \in Slots : Revalidate(f, s)
  \/ \E s \in Slots : Run(s) \/ WriteFails(s)

FeedsSpec == FeedsInit /\ [][FeedsNext]_feedVars

-----------------------------------------------------------------------------
(* Properties *)

FeedsTypeOK ==
  /\ subscription \in [Feeds -> {"active", "paused", "none"}]
  /\ revision \in 0 .. MaxRevision
  /\ status \in [Feeds -> Statuses]
  /\ panel \in [Panels -> [pc : {"idle", "commit", "clear", "notify"}, kind : {"pause", "remove"},
                           feed : Feeds, basis : 0 .. MaxRevision]]
  /\ batch \in [pc : {"idle", "due", "running"}, feeds : SUBSET Feeds]
  /\ slot \in [Slots -> [pc : {"free", "begin", "mark", "store"}, feed : Feeds, ofBatch : BOOLEAN]]
  /\ cancelled \subseteq Feeds
  /\ asked \in 0 .. MaxAsked
  /\ faults \in 0 .. MaxFeedFaults

\* A batch in flight has a run in progress: otherwise no due feed would ever be
\* looked at again by this worker (runDue answers with the batch in flight).
BatchHasRun == batch.pc = "running" => \E s \in Slots : slot[s].ofBatch

\* A removed feed whose tombstone is stored is at rest when the worker holds it
\* no more, or was told of the removal and has no write of it under way.
Issued(f) == \E s \in RunsOf(f) : slot[s].pc \in {"mark", "store"}

AtRest(f) ==
  /\ subscription[f] = "none" /\ status[f] = "removed"
  /\ \/ RunsOf(f) = {} /\ f \notin batch.feeds
     \/ f \in cancelled /\ ~Issued(f)

\* A feed at rest stays at rest until the profile has it back: the stale
\* subscriptions of a batch or of a revalidation write nothing over the tombstone,
\* and a worker that is stopped may forget that it was told.
TombstoneStays ==
  [][\A f \in Feeds : AtRest(f) => \/ AtRest(f)'
                                   \/ subscription'[f] # "none"]_feedVars

\* What the documentation says of a removal (docs/08-storage.md:158): the record
\* of the feed is replaced by a tombstone.  It is never replaced by a live state.
StaysRemoved ==
  [][\A f \in Feeds : status[f] = "removed" => status'[f] = "removed"]_feedVars
=============================================================================
