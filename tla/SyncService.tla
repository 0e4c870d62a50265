---------------------------- MODULE SyncService ----------------------------
(***************************************************************************)
(* The synchronization service of one service worker: the calls the user,  *)
(* the alarm and the worker's start make, the lock that runs one operation *)
(* of a profile at a time and coalesces the others, and the connection     *)
(* record and alarm they share.                                            *)
(*                                                                         *)
(* A call is a JavaScript promise chain.  Each await is a step boundary,   *)
(* so calls interleave; what a call read before an await (the connection   *)
(* it will write back) it keeps in its own record.  A save takes effect in *)
(* the order the saves were issued, IndexedDB's order of transactions on   *)
(* one store.  What a run does to the data is SyncCas; here only its phase *)
(* matters, and whether its journal is open.                               *)
(***************************************************************************)
EXTENDS Nothing, Naturals, FiniteSets

CONSTANTS
  Calls,       \* the calls ever made; each is used once
  Kinds,       \* the kinds of call the environment makes of each
  Schedules,   \* alarm periods the user can choose
  RunAttempts, \* attempts of one run; 3 in the code
  MaxCrashes   \* bound on worker restarts

\* What the calls may be; having no schedule and no call is none of them.
ServiceAssumption ==
  /\ Kinds \in [Calls -> SUBSET {"connect", "sync", "alarm", "resolve",
                                "disconnect", "restore", "schedule", "delete"}]
  /\ None \notin Schedules \cup Calls
  /\ RunAttempts \in Nat /\ RunAttempts > 0

VARIABLES
  connection,  \* the stored connection: [enabled, schedule]
  alarm,       \* the period of the browser's alarm, or None
  readable,    \* whether the local profile can be read as an envelope
  interrupted, \* whether the stored journal is in a nonterminal phase
  draft,       \* whether a conflict draft is stored
  lock,        \* the lock's entry: [active, pending], None where there is none
  call,        \* call -> [kind, pc, seen, aborted, attempt, behind]
  crashes,     \* what is left of the restarts
  left,        \* history: the user disconnected and has not reconnected
  alone        \* history: ... and no other call was under way

serviceVars == <<connection, alarm, readable, interrupted, draft, lock, call, crashes,
          left, alone>>

-----------------------------------------------------------------------------
(* Calls *)

\* The fields of the record that decide anything; its runtime state, its times
\* and its error code are only shown.
Connections == [enabled: BOOLEAN, schedule: Schedules \cup {None}]

\* Where a call is outside the lock: before it, after it, or not using it.
Outside == {"new", "readConnection", "readLocal", "readDraft", "waiting", "attached",
            "saveConnecting", "cancel", "restore", "save", "clearAlarm",
            "readStatus", "createAlarm", "resume"}

\* Where an operation is inside the lock.
Inside == {"provider", "open", "pulling", "read", "merging", "commit",
           "pushing", "push", "inFlight", "confirming", "confirm", "base",
           "complete", "finish", "adopt", "probe", "initialize", "ready",
           "refuse", "deletion", "leave", "throw"}

SettledPcs == {"done", "rejected", "lost"}

Underway(c) == call[c].pc \notin SettledPcs \cup {"new"}

\* These end with reconcileSchedule.
Reconciling == {"connect", "disconnect", "schedule", "delete"}

Go(c, pc) == call' = [call EXCEPT ![c].pc = pc]

Fresh == [kind |-> "sync", pc |-> "new",
          seen |-> [enabled |-> FALSE, schedule |-> None],
          aborted |-> FALSE, attempt |-> 1, behind |-> None]

\* The call c when its promise settles or its caller goes on: what it had
\* captured is gone.
Ended(c, pc) ==
  IF pc \in SettledPcs THEN [Fresh EXCEPT !.pc = pc]
  ELSE [Fresh EXCEPT !.pc = pc, !.kind = call[c].kind]

End(c, pc) == call' = [call EXCEPT ![c] = Ended(c, pc)]

\* What c does when the service's promise fulfils.
Returned(c) == IF call[c].kind \in Reconciling THEN "clearAlarm" ELSE "done"

Save(record) == connection' = record

-----------------------------------------------------------------------------
(* The lock *)

IsSync(c) == call[c].kind \in {"sync", "alarm", "start"}

\* Where the operation of a call is once the lock started it.
FirstStep(c) ==
  CASE call[c].kind = "resolve" -> "adopt"
    [] call[c].kind = "delete"  -> "deletion"
    [] OTHER                    -> "provider"

\* Starting the operation of c runs it to its first await: a run issues the
\* save of the connection it captured.
Starts(c) == IF c # None /\ IsSync(c) THEN Save(call[c].seen) ELSE UNCHANGED connection

Run(c) ==
  \/ /\ lock.active = None
     /\ lock' = [lock EXCEPT !.active = c]
     /\ Go(c, FirstStep(c))
     /\ Starts(c)
  \/ /\ lock.active # None /\ lock.pending = None
     /\ lock' = [lock EXCEPT !.pending = c]
     /\ Go(c, "waiting")
     /\ UNCHANGED connection
  \/ /\ lock.pending # None
     /\ call' = [call EXCEPT ![c].pc = "attached", ![c].behind = lock.pending]
     /\ UNCHANGED <<connection, lock>>

\* Those that hold the promise of the operation c.
Holders(c) == {c} \cup {d \in Calls : call[d].pc = "attached" /\ call[d].behind = c}

\* Where the caller d goes on when the operation of c settles.
Onward(c, d) == IF call[c].pc = "throw" THEN "rejected" ELSE Returned(d)

\* A slip: the entry is deleted with its pending intent.
SettleForgetting(c) ==
  /\ lock' = [active |-> None, pending |-> None]
  /\ call' = [d \in Calls |->
                IF d \in Holders(c) THEN Ended(d, Onward(c, d)) ELSE call[d]]
  /\ UNCHANGED connection

\* The operation of c settles, its holders go on, and the lock starts the
\* pending intent.
Settle(c) ==
  /\ lock' = [active |-> lock.pending, pending |-> None]
  /\ call' = [d \in Calls |->
                IF d \in Holders(c) THEN Ended(d, Onward(c, d))
                ELSE IF d = lock.pending THEN [call[d] EXCEPT !.pc = FirstStep(d)]
                ELSE call[d]]
  /\ Starts(lock.pending)

\* Disconnecting aborts the active operation, which keeps its entry until it
\* settles, and rejects the pending intent; then c goes on at pc.
Cancel(c, pc) ==
  /\ lock' = [lock EXCEPT !.pending = None]
  /\ call' = [d \in Calls |->
                IF d = c THEN Ended(d, pc)
                ELSE IF d = lock.active THEN [call[d] EXCEPT !.aborted = TRUE]
                ELSE IF lock.pending # None /\ d \in Holders(lock.pending)
                  THEN Ended(d, "rejected")
                ELSE call[d]]

-----------------------------------------------------------------------------
(* Before the lock *)

\* The environment makes a call.  The alarm exists while it fires; a user who
\* connects knows that synchronization is on again.
Invoke(c) ==
  /\ call[c].pc = "new"
  /\ \E kind \in Kinds[c] :
       /\ kind = "alarm" => alarm # None
       /\ call' = [call EXCEPT ![c].kind = kind,
                               ![c].pc = IF kind = "connect" THEN "saveConnecting"
                                         ELSE "readConnection"]
       /\ IF kind = "connect"
            THEN left' = FALSE /\ alone' = FALSE
            ELSE UNCHANGED <<left, alone>>
  /\ UNCHANGED <<connection, alarm, readable, interrupted, draft, lock, crashes>>

\* A slip: any configured connection runs.
MayRunConfigured(record) == TRUE

MayRun(record) == record.enabled

\* Every call but connect first reads the stored connection.
ReadConnection(c) ==
  /\ call[c].pc = "readConnection"
  /\ LET kind == call[c].kind
         next == CASE kind \in {"disconnect", "restore"} -> "cancel"
                   [] kind = "schedule"                  -> "save"
                   [] kind = "delete"                    -> "readLocal"
                   [] OTHER ->
                        IF ~MayRun(connection) THEN Returned(c)
                        ELSE IF kind = "resolve" THEN "readDraft" ELSE "readLocal"
     IN IF next \in {"done", "clearAlarm"} THEN End(c, next)
        ELSE call' = [call EXCEPT ![c].pc = next, ![c].seen = connection]
  /\ UNCHANGED <<connection, alarm, readable, interrupted, draft, lock, crashes,
                 left, alone>>

Connecting(minutes) == [enabled |-> FALSE, schedule |-> minutes]

SaveConnecting(c) ==
  /\ call[c].pc = "saveConnecting"
  /\ \E minutes \in Schedules \cup {None} :
       /\ Save(Connecting(minutes))
       /\ call' = [call EXCEPT ![c].pc = "readLocal", ![c].seen = Connecting(minutes)]
  /\ UNCHANGED <<alarm, readable, interrupted, draft, lock, crashes, left, alone>>

\* The local envelope is built only for its profile id, the key of the lock.  It is
\* not when a route names a provider that is gone, or a value came back under an id
\* with a tombstone: the call is rejected.
ReadLocal(c) ==
  /\ call[c].pc = "readLocal"
  /\ \/ readable /\ Run(c)
     \/ ~readable /\ End(c, "rejected") /\ UNCHANGED <<connection, lock>>
  /\ UNCHANGED <<alarm, readable, interrupted, draft, crashes, left, alone>>

ReadDraft(c) ==
  /\ call[c].pc = "readDraft"
  /\ IF draft THEN Run(c) ELSE End(c, "done") /\ UNCHANGED <<connection, lock>>
  /\ UNCHANGED <<alarm, readable, interrupted, draft, crashes, left, alone>>

-----------------------------------------------------------------------------
(* A synchronization inside the lock *)

\* Inside the lock an operation leaves the lock and the alarm alone.
Hold == UNCHANGED <<alarm, lock, crashes, left, alone>>

\* onState and its kin: the whole captured record is written back, with another
\* runtime state, and the signal is not looked at.
SaveState(c, from, to) ==
  /\ call[c].pc = from
  /\ Save(call[c].seen)
  /\ Go(c, to)
  /\ UNCHANGED <<readable, interrupted, draft>> /\ Hold

SavePulling(c) == readable /\ SaveState(c, "pulling", "read")
SaveMerging(c) == SaveState(c, "merging", "commit")
SavePushing(c) == SaveState(c, "pushing", "push")
SaveConfirming(c) == SaveState(c, "confirming", "confirm")

\* The journal is closed as degraded, conflict or completed, and c goes on.
Close(c, pc) == interrupted' = FALSE /\ Go(c, pc)

Proceed(c, pc) == Go(c, pc) /\ UNCHANGED interrupted

\* What the error handler of the operation does: nothing once aborted.
Fail(c) ==
  \/ call[c].aborted /\ Proceed(c, "leave")
  \/ ~call[c].aborted /\ call[c].kind = "connect" /\ Proceed(c, "refuse")
  \/ ~call[c].aborted /\ call[c].kind = "resolve" /\ Close(c, "refuse")

\* The provider is created: permission, vault, configuration.
Provider(c) ==
  /\ call[c].pc = "provider"
  /\ \/ ~call[c].aborted /\ IsSync(c) /\ Proceed(c, "open")
     \/ ~call[c].aborted /\ call[c].kind = "connect" /\ Proceed(c, "probe")
     \/ ~call[c].aborted /\ call[c].kind = "resolve" /\ Proceed(c, "push")
     \/ IsSync(c) /\ Proceed(c, "finish")
     \/ ~IsSync(c) /\ Fail(c)
  /\ UNCHANGED <<connection, readable, draft>> /\ Hold

\* The profile is read and the journal started; or the profile cannot be read, or
\* there is no base, since an import was undone, and the journal is closed if it
\* may be.
Open(c) ==
  /\ call[c].pc = "open"
  /\ \/ readable /\ interrupted' = TRUE /\ Go(c, "pulling")
     \/ readable /\ Close(c, "finish")
     \/ Proceed(c, "finish")
  /\ UNCHANGED <<connection, readable, draft>> /\ Hold

\* Every attempt reads the profile again, and a run that cannot leaves its journal.
Unreadable(c) ==
  /\ call[c].pc = "pulling" /\ ~readable
  /\ Proceed(c, "finish")
  /\ UNCHANGED <<connection, readable, draft>> /\ Hold

\* The remote is read and validated.  An aborted request fails.
ReadRemote(c) ==
  /\ call[c].pc = "read"
  /\ \/ ~call[c].aborted /\ Proceed(c, "merging")
     \/ Close(c, "finish")
  /\ UNCHANGED <<connection, readable, draft>> /\ Hold

\* The merge conflicts, or its candidate is committed locally, or the commit
\* throws and leaves the journal as it is.  Nothing here looks at the signal.
Commit(c) ==
  /\ call[c].pc = "commit" /\ IsSync(c)
  /\ \/ draft' = TRUE /\ Close(c, "finish")
     \/ Proceed(c, "pushing") /\ UNCHANGED draft
     \/ Proceed(c, "finish") /\ UNCHANGED draft
  /\ UNCHANGED <<connection, readable>> /\ Hold

\* A slip: the signal is not checked before the request.
MayPushAnyway(c) == TRUE

MayPush(c) == ~call[c].aborted

\* The conditional write begins: its request leaves the worker.
Push(c) ==
  /\ call[c].pc = "push"
  /\ \/ MayPush(c) /\ Proceed(c, "inFlight")
     \/ ~MayPush(c) /\ IsSync(c) /\ Close(c, "finish")
     \/ ~MayPush(c) /\ ~IsSync(c) /\ Fail(c)
  /\ UNCHANGED <<connection, readable, draft>> /\ Hold

\* The next attempt of a run, or its end.
Again(c) ==
  IF call[c].attempt < RunAttempts
    THEN /\ call' = [call EXCEPT ![c].pc = "pulling", ![c].attempt = @ + 1]
         /\ UNCHANGED interrupted
    ELSE Close(c, "finish")

\* The answer to the write: stored, precondition failed, or none (an error,
\* or the signal aborted the request).
PushAnswered(c) ==
  /\ call[c].pc = "inFlight"
  /\ \/ Proceed(c, IF IsSync(c) THEN "confirming" ELSE "confirm")
     \/ IsSync(c) /\ (Again(c) \/ Close(c, "finish"))
     \/ ~IsSync(c) /\ (Close(c, "refuse") \/ Fail(c))
  /\ UNCHANGED <<connection, readable, draft>> /\ Hold

\* The remote is read again to confirm digest and token.
Confirm(c) ==
  /\ call[c].pc = "confirm"
  /\ \/ Proceed(c, "base")
     \/ IsSync(c) /\ (Again(c) \/ Close(c, "finish"))
     \/ call[c].kind = "resolve" /\ (Close(c, "refuse") \/ Fail(c))
     \/ call[c].kind = "connect" /\ (Proceed(c, "refuse") \/ Fail(c))
  /\ UNCHANGED <<connection, readable, draft>> /\ Hold

\* The base is stored, which SyncCas has.
ConfirmBase(c) ==
  /\ call[c].pc = "base"
  /\ Go(c, IF call[c].kind = "connect" THEN "ready" ELSE "complete")
  /\ UNCHANGED <<connection, readable, interrupted, draft>> /\ Hold

\* The journal is completed; a resolution also removes the conflict draft.
Complete(c) ==
  /\ call[c].pc = "complete"
  /\ \/ IsSync(c) /\ Close(c, "finish") /\ UNCHANGED draft
     \/ call[c].kind = "resolve" /\ Close(c, "ready") /\ draft' = FALSE
  /\ UNCHANGED <<connection, readable>> /\ Hold

\* The end of a run; here the signal is checked before the save.
FinishRun(c) ==
  /\ call[c].pc = "finish"
  /\ IF call[c].aborted THEN UNCHANGED connection ELSE Save(call[c].seen)
  /\ Go(c, "leave")
  /\ UNCHANGED <<readable, interrupted, draft>> /\ Hold

\* The promise of the operation settles.
Leave(c) ==
  /\ call[c].pc \in {"leave", "throw"}
  /\ Settle(c)
  /\ UNCHANGED <<alarm, readable, interrupted, draft, crashes, left, alone>>

-----------------------------------------------------------------------------
(* The other operations inside the lock *)

\* The choices are saved (this throws if the draft is gone), are not all made,
\* or give a candidate whose journal begins.
Adopt(c) ==
  /\ call[c].pc = "adopt"
  /\ \/ ~draft /\ Proceed(c, "throw")
     \/ draft /\ Proceed(c, "leave")
     \/ draft /\ interrupted' = TRUE /\ Go(c, "commit")
  /\ UNCHANGED <<connection, readable, draft>> /\ Hold

\* A refused commit rejects the promise: it is outside the try block.
CommitResolution(c) ==
  /\ call[c].pc = "commit" /\ call[c].kind = "resolve"
  /\ Proceed(c, "provider") \/ Proceed(c, "throw")
  /\ UNCHANGED <<connection, readable, draft>> /\ Hold

\* Connecting reads the remote: the same envelope, another one, none, or an error.
Probe(c) ==
  /\ call[c].pc = "probe"
  /\ \/ Proceed(c, "base")
     \/ Proceed(c, "refuse")
     \/ ~call[c].aborted /\ call[c].attempt = 1 /\ Proceed(c, "initialize")
     \/ Fail(c)
  /\ UNCHANGED <<connection, readable, draft>> /\ Hold

\* The missing remote object is created; if somebody else did, it is read once more.
Initialize(c) ==
  /\ call[c].pc = "initialize"
  /\ \/ Proceed(c, "confirm")
     \/ /\ call' = [call EXCEPT ![c].pc = "probe", ![c].attempt = 2]
        /\ UNCHANGED interrupted
     \/ Fail(c)
  /\ UNCHANGED <<connection, readable, draft>> /\ Hold

\* connectionReady, and the last save of a resolution.
Ready(c) ==
  /\ call[c].pc = "ready"
  /\ Save([call[c].seen EXCEPT !.enabled = @ \/ call[c].kind = "connect"])
  /\ Go(c, "leave")
  /\ UNCHANGED <<readable, interrupted, draft>> /\ Hold

\* connectionFailure, the failures of a resolution, and the end of a deletion.
Refuse(c) ==
  /\ call[c].pc = "refuse"
  /\ Save([call[c].seen EXCEPT !.enabled = @ /\ call[c].kind = "resolve"])
  /\ Go(c, "leave")
  /\ UNCHANGED <<readable, interrupted, draft>> /\ Hold

\* The remote object is deleted and its absence seen, or anything goes wrong.
DeleteRemote(c) ==
  /\ call[c].pc = "deletion"
  /\ Go(c, "refuse") \/ Go(c, "leave")
  /\ UNCHANGED <<connection, readable, interrupted, draft>> /\ Hold

-----------------------------------------------------------------------------
(* Operations that do not take the lock *)

\* The active operation is aborted, the pending one rejected and the record
\* saved; both requests are issued without an await in between.
Disconnect(c) ==
  /\ call[c].pc = "cancel"
  /\ Cancel(c, IF call[c].kind = "restore" THEN "restore" ELSE "clearAlarm")
  /\ Save([call[c].seen EXCEPT !.enabled = FALSE])
  /\ left' = TRUE
  /\ alone' = (alone \/ \A d \in Calls \ {c} : ~Underway(d))
  /\ UNCHANGED <<alarm, readable, interrupted, draft, crashes>>

\* One transaction: the profile and the envelope of the snapshot, which SyncCas has,
\* and a paused connection.  The alarm is left alone.
RestoreRecovery(c) ==
  /\ call[c].pc = "restore"
  /\ \/ Save([connection EXCEPT !.enabled = FALSE])
     \/ UNCHANGED connection
  /\ End(c, "done")
  /\ UNCHANGED <<alarm, readable, interrupted, draft, lock, crashes, left, alone>>

UpdateSchedule(c) ==
  /\ call[c].pc = "save"
  /\ \E minutes \in Schedules \cup {None} :
       Save([call[c].seen EXCEPT !.schedule = minutes])
  /\ End(c, "clearAlarm")
  /\ UNCHANGED <<alarm, readable, interrupted, draft, lock, crashes, left, alone>>

\* reconcileSchedule
ClearAlarm(c) ==
  /\ call[c].pc = "clearAlarm"
  /\ alarm' = None
  /\ Go(c, "readStatus")
  /\ UNCHANGED <<connection, readable, interrupted, draft, lock, crashes, left, alone>>

ReadStatus(c) ==
  /\ call[c].pc = "readStatus"
  /\ call' = [call EXCEPT ![c].pc = "createAlarm", ![c].seen = connection]
  /\ UNCHANGED <<connection, alarm, readable, interrupted, draft, lock, crashes,
                 left, alone>>

CreateAlarm(c) ==
  /\ call[c].pc = "createAlarm"
  /\ alarm' = IF call[c].seen.enabled /\ call[c].seen.schedule # None
                THEN call[c].seen.schedule ELSE alarm
  /\ End(c, IF call[c].kind = "start" /\ call[c].seen.enabled THEN "resume" ELSE "done")
  /\ UNCHANGED <<connection, readable, interrupted, draft, lock, crashes, left, alone>>

\* A slip: only scheduled synchronization is resumed.
MayResumeScheduled == connection.enabled /\ interrupted /\ connection.schedule # None

MayResume == connection.enabled /\ interrupted

\* resumeIncomplete: an unfinished journal is resumed by an ordinary run.
Resume(c) ==
  /\ call[c].pc = "resume"
  /\ End(c, IF MayResume THEN "readConnection" ELSE "done")
  /\ UNCHANGED <<connection, alarm, readable, interrupted, draft, lock, crashes,
                 left, alone>>

\* The browser stops the worker and starts it again for the next event.
Restart(c) ==
  /\ crashes > 0 /\ call[c].pc = "new"
  /\ crashes' = crashes - 1
  /\ lock' = [active |-> None, pending |-> None]
  /\ call' = [d \in Calls |->
                IF d = c THEN [Fresh EXCEPT !.kind = "start", !.pc = "clearAlarm"]
                ELSE IF Underway(d) THEN Ended(d, "lost")
                ELSE call[d]]
  /\ UNCHANGED <<connection, alarm, readable, interrupted, draft, left, alone>>

\* The profile is written: by an edit, an import or its undo, a run, a recovery.  Some
\* of what they leave cannot be read as an envelope.
ProfileChanges ==
  /\ readable' = ~readable
  /\ UNCHANGED <<connection, alarm, interrupted, draft, lock, call, crashes, left, alone>>

-----------------------------------------------------------------------------
ServiceInit ==
  /\ \/ /\ connection \in [enabled: {TRUE}, schedule: Schedules \cup {None}]
        /\ draft \in BOOLEAN
     \/ connection = [enabled |-> FALSE, schedule |-> None] /\ draft = FALSE
  /\ readable = TRUE
  /\ alarm = connection.schedule
  /\ interrupted = FALSE
  /\ lock = [active |-> None, pending |-> None]
  /\ call = [c \in Calls |-> Fresh]
  /\ crashes = MaxCrashes
  /\ left = FALSE /\ alone = FALSE

\* One continuation of the call c.
ContinueCall(c) ==
  \/ ReadConnection(c) \/ SaveConnecting(c) \/ ReadLocal(c) \/ ReadDraft(c)
  \/ SavePulling(c) \/ SaveMerging(c) \/ SavePushing(c) \/ SaveConfirming(c)
  \/ Provider(c) \/ Open(c) \/ Unreadable(c) \/ ReadRemote(c) \/ Commit(c) \/ Push(c) \/ PushAnswered(c)
  \/ Confirm(c) \/ ConfirmBase(c) \/ Complete(c) \/ FinishRun(c) \/ Leave(c)
  \/ Adopt(c) \/ CommitResolution(c) \/ Probe(c) \/ Initialize(c) \/ Ready(c)
  \/ Refuse(c) \/ DeleteRemote(c)
  \/ Disconnect(c) \/ RestoreRecovery(c) \/ UpdateSchedule(c)
  \/ ClearAlarm(c) \/ ReadStatus(c) \/ CreateAlarm(c) \/ Resume(c)

ServiceNext ==
  \/ \E c \in Calls : Invoke(c) \/ Restart(c) \/ ContinueCall(c)
  \/ ProfileChanges

ServiceSpec == ServiceInit /\ [][ServiceNext]_serviceVars

\* Every await is answered: IndexedDB, the alarms and the network settle their
\* promises, the network at the latest by its timeout.
FairSpec == ServiceSpec /\ \A c \in Calls : WF_serviceVars(ContinueCall(c))

-----------------------------------------------------------------------------
(* Properties *)

\* Every variable keeps its type; the lock's entry names the calls that are
\* inside it and waiting for it, and a waiting call is behind a running one.
ServiceTypeOK ==
  /\ connection \in Connections
  /\ alarm \in Schedules \cup {None}
  /\ {readable, interrupted, draft, left, alone} \subseteq BOOLEAN
  /\ crashes \in 0..MaxCrashes
  /\ \A c \in Calls :
       /\ call[c].pc \in Outside \cup Inside \cup SettledPcs
       /\ call[c].kind \in Kinds[c] \cup {"sync", "start"}
       /\ call[c].seen \in Connections
       /\ call[c].aborted \in BOOLEAN
       /\ call[c].attempt \in 1..RunAttempts \cup {1, 2}
       /\ call[c].behind \in Calls \cup {None}
  /\ \A c \in Calls : (lock.pending = c) <=> (call[c].pc = "waiting")

\* At most one operation of the profile is inside the lock, the one its entry
\* names (SyncOperationLock.run), whatever calls, cancellations and restarts do.
OneOperation ==
  \A c \in Calls : (call[c].pc \in Inside) <=> (lock.active = c)

\* No operation begins a conditional write once a disconnection aborted it
\* (throwIfAborted before every request).
AbortedNeverPushes ==
  [][\A c \in Calls :
       call[c].pc # "inFlight" /\ call'[c].pc = "inFlight" => ~call[c].aborted]_serviceVars

\* After a disconnection that found no other call under way, synchronization
\* stays off until the user connects again, whatever is called and however often
\* the worker restarts: nothing enables the connection and nothing is written to
\* the remote (syncNow, resolveConflict and resumeIncomplete read it first).
QuietAfterDisconnect ==
  alone => ~connection.enabled /\ \A c \in Calls : call[c].pc # "inFlight"

\* Every call made settles: fulfilled, rejected by a disconnection, or lost
\* with the worker.  No intent is forgotten in the lock.  (A call is made once
\* and stays settled, so this says it of each of them.)
EveryCallSettles == <>[](\A c \in Calls : ~Underway(c))

\* A run that a restart left unfinished is taken up by the started worker: a run
\* enters the lock, unless the connection was disabled, the worker stops again or the
\* local profile cannot be read, which ends the call and leaves the journal open until
\* the next one (service.ts:518, local-envelope.ts:98).
Resuming(c) == call[c].pc = "resume" /\ interrupted /\ connection.enabled

InterruptedRunResumes ==
  (\E c \in Calls : Resuming(c))
    ~> \/ ~connection.enabled \/ ~interrupted \/ ~readable \/ lock.active # None
       \/ \E c \in Calls : call[c].kind = "start" /\ call[c].pc = "lost"

\* What the product says of a disconnection (messages.json:1946): automatic
\* sync stops.  The connection stays off until the user connects again.
DisconnectHolds == left => ~connection.enabled

=============================================================================
