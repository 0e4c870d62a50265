------------------------- MODULE PlatformActivation -------------------------
(* How saved settings and granted permissions reach the open tabs of one platform: *)
(* reconciliations of the worker, one at a time, register the content script and      *)
(* publish what they found to the control ports; a content script runs what the last   *)
(* message said, and connects again when it loses its port.  The worker stops at any    *)
(* time, and an import or a synchronisation changes the settings without one.            *)
EXTENDS Nothing, Naturals, Sequences, SequencesExt

CONSTANTS
  Tabs,                            \* the tabs of the platform
  MaxChanges, MaxHalts, MaxFaults  \* bound the changes, the worker's stops and the failed calls

VARIABLES
  saved,      \* the settings of the profile: whether the platform is on, and their version
  granted,    \* whether the host permission is held
  registered, \* whether the content script is registered
  turns,      \* the reconciliations, the one that runs at the head
  published,  \* the hub's message of the platform
  tab,        \* the content script of each tab: its port, the messages on it, what it runs
  alive,      \* whether the worker runs
  unseen,     \* whether the settings changed without a reconciliation
  changes, halts, faults

aVars == <<saved, granted, registered, turns, published, tab, alive, unseen, changes, halts, faults>>

Settings == [on : BOOLEAN, version : 0..MaxChanges]
Unverified == [state |-> "inactive", version |-> 0]
Message(on, settings) ==
  IF on THEN [state |-> "active", version |-> settings.version] ELSE Unverified
Messages == [state : {"active"}, version : 0..MaxChanges] \cup {Unverified}
Runs == [pc : {"asked", "read", "checked", "settled"}, read : Settings \cup {None}, active : BOOLEAN]
Asked == [pc |-> "asked", read |-> None, active |-> FALSE]

ContentScripts == [port : {"none", "loaded", "open", "lost"}, inbox : Seq(Messages),
                   shown : (0..MaxChanges) \cup {None}]
Absent == [port |-> "none", inbox |-> <<>>, shown |-> None]

\* Settings have versions, and no settings, no message and no version is none.
ActivationAssumption ==
  MaxChanges \in Nat /\ None \notin Settings \cup Messages \cup 0..MaxChanges

-----------------------------------------------------------------------------
(* The reconciliations (createServiceWorkerRuntime, BrowserContentScriptActivation). *)

SlipTurn(i) == TRUE
Turn(i) == i = 1

Step(i, pc, next) == /\ alive /\ i \in DOMAIN turns /\ Turn(i) /\ turns[i].pc = pc
                     /\ turns' = [turns EXCEPT ![i] = next]

\* exportProfile at the start of a run.
ReadProfile(i) ==
  /\ Step(i, "asked", [pc |-> "read", read |-> saved, active |-> FALSE]) /\ unseen' = FALSE
  /\ UNCHANGED <<saved, granted, registered, published, tab, alive, changes, halts, faults>>

\* The profile cannot be read: nothing is published, and the next one runs.
ReadFails(i) ==
  /\ faults < MaxFaults /\ alive /\ i \in DOMAIN turns /\ Turn(i) /\ turns[i].pc = "asked"
  /\ turns' = RemoveAt(turns, i) /\ faults' = faults + 1
  /\ UNCHANGED <<saved, granted, registered, published, tab, alive, unseen, changes, halts>>

CheckPermission(i) ==
  /\ i \in DOMAIN turns
  /\ Step(i, "read", [turns[i] EXCEPT !.pc = "checked", !.active = turns[i].read.on /\ granted])
  /\ UNCHANGED <<saved, granted, registered, published, tab, alive, unseen, changes, halts, faults>>

\* ensureRegistered, or unregister.
SettleRegistration(i) ==
  /\ i \in DOMAIN turns
  /\ Step(i, "checked", [turns[i] EXCEPT !.pc = "settled"]) /\ registered' = turns[i].active
  /\ UNCHANGED <<saved, granted, published, tab, alive, unseen, changes, halts, faults>>

\* A failed call unregisters the script, and the platform is published as inactive.
RegistrationFails(i) ==
  /\ faults < MaxFaults /\ i \in DOMAIN turns
  /\ Step(i, "checked", [turns[i] EXCEPT !.pc = "settled", !.active = FALSE])
  /\ registered' = FALSE /\ faults' = faults + 1
  /\ UNCHANGED <<saved, granted, published, tab, alive, unseen, changes, halts>>

Posted(t, message) ==
  IF tab[t].port = "open" THEN [tab[t] EXCEPT !.inbox = Append(@, message)] ELSE tab[t]

\* onAdapterActivationReconciled: every connected tab is told.
Publish(i) ==
  /\ alive /\ i \in DOMAIN turns /\ turns[i].pc = "settled"
  /\ LET message == Message(turns[i].active, turns[i].read) IN
       /\ published' = message
       /\ tab' = [t \in Tabs |-> Posted(t, message)]
  /\ turns' = RemoveAt(turns, i)
  /\ UNCHANGED <<saved, granted, registered, alive, unseen, changes, halts, faults>>

-----------------------------------------------------------------------------
(* What asks for a reconciliation, and what does not.                          *)

Change == changes < MaxChanges /\ changes' = changes + 1

\* settings.save: the answer waits for its reconciliation.
SaveSettings(on) ==
  /\ alive /\ Change /\ saved' = [on |-> on, version |-> changes + 1]
  /\ turns' = Append(turns, Asked)
  /\ UNCHANGED <<granted, registered, published, tab, alive, unseen, halts, faults>>

\* An import or a synchronisation replaces the profile: nothing is reconciled.
ReplaceProfile(on) ==
  /\ Change /\ saved' = [on |-> on, version |-> changes + 1] /\ unseen' = TRUE
  /\ UNCHANGED <<granted, registered, turns, published, tab, alive, halts, faults>>

\* permissions.onAdded and onRemoved, which start the worker that does not run.
PermissionChanges ==
  /\ Change /\ granted' = ~granted /\ alive' = TRUE
  /\ turns' = Append(IF alive THEN turns ELSE <<Asked>>, Asked)
  /\ UNCHANGED <<saved, registered, published, tab, unseen, halts, faults>>

\* A started worker reconciles; what it published before it stopped is forgotten.
WorkerStarts ==
  /\ ~alive /\ alive' = TRUE /\ turns' = <<Asked>>
  /\ UNCHANGED <<saved, granted, registered, published, tab, unseen, changes, halts, faults>>

WorkerStops ==
  /\ alive /\ halts < MaxHalts /\ halts' = halts + 1
  /\ alive' = FALSE /\ turns' = <<>> /\ published' = None
  /\ tab' = [t \in Tabs |-> IF tab[t].port = "open" THEN [tab[t] EXCEPT !.port = "lost"] ELSE tab[t]]
  /\ UNCHANGED <<saved, granted, registered, unseen, changes, faults>>

-----------------------------------------------------------------------------
(* The content script of a tab.                                               *)

\* The attached port is told the last message of the platform.
Greeting == IF published = None THEN Unverified ELSE published

SlipConnect(t) ==
  /\ alive /\ tab[t].port = "loaded"
  /\ tab' = [tab EXCEPT ![t] = [port |-> "open", inbox |-> <<>>, shown |-> @.shown]]
  /\ UNCHANGED <<saved, granted, registered, turns, published, alive, unseen, changes, halts, faults>>
Connect(t) ==
  /\ alive /\ tab[t].port = "loaded"
  /\ tab' = [tab EXCEPT ![t] = [port |-> "open", inbox |-> <<Greeting>>, shown |-> @.shown]]
  /\ UNCHANGED <<saved, granted, registered, turns, published, alive, unseen, changes, halts, faults>>

\* A page is loaded: the script is injected when it is registered and permitted.
LoadPage(t) ==
  /\ registered /\ granted /\ tab[t].port = "none"
  /\ tab' = [tab EXCEPT ![t] = [Absent EXCEPT !.port = "loaded"]]
  /\ UNCHANGED <<saved, granted, registered, turns, published, alive, unseen, changes, halts, faults>>

LeavePage(t) ==
  /\ tab[t].port # "none" /\ tab' = [tab EXCEPT ![t] = Absent]
  /\ UNCHANGED <<saved, granted, registered, turns, published, alive, unseen, changes, halts, faults>>

\* port.onMessage: the runtime is stopped, and started again with what the message says.
Receive(t) ==
  /\ tab[t].inbox # <<>>
  /\ tab' = [tab EXCEPT ![t].inbox = Tail(@),
               ![t].shown = IF Head(tab[t].inbox).state = "active" THEN Head(tab[t].inbox).version ELSE None]
  /\ UNCHANGED <<saved, granted, registered, turns, published, alive, unseen, changes, halts, faults>>

\* port.onDisconnect: the runtime stops until a timer connects again.
LosePort(t) ==
  /\ tab[t].port = "lost" /\ tab[t].inbox = <<>>
  /\ tab' = [tab EXCEPT ![t] = [Absent EXCEPT !.port = "loaded"]]
  /\ UNCHANGED <<saved, granted, registered, turns, published, alive, unseen, changes, halts, faults>>

-----------------------------------------------------------------------------
ActivationInit == /\ saved = [on |-> FALSE, version |-> 0] /\ granted = TRUE /\ registered = FALSE
        /\ turns = <<>> /\ published = None /\ tab = [t \in Tabs |-> Absent] /\ alive = FALSE
        /\ unseen = FALSE /\ changes = 0 /\ halts = 0 /\ faults = 0

Reconcile(i) == \/ ReadProfile(i) \/ CheckPermission(i) \/ SettleRegistration(i) \/ Publish(i)

ActivationNext ==
  \/ \E i \in 1..(MaxChanges + 2) : Reconcile(i) \/ ReadFails(i) \/ RegistrationFails(i)
  \/ \E on \in BOOLEAN : SaveSettings(on) \/ ReplaceProfile(on)
  \/ PermissionChanges \/ WorkerStarts \/ WorkerStops
  \/ \E t \in Tabs : Connect(t) \/ LoadPage(t) \/ LeavePage(t) \/ Receive(t) \/ LosePort(t)

\* The worker's calls and the browser's messages complete; a script that is loaded
\* keeps connecting, which starts the worker.
ActivationFairness ==
  /\ \A i \in 1..(MaxChanges + 2) : WF_aVars(Reconcile(i))
  /\ WF_aVars(WorkerStarts)
  /\ \A t \in Tabs : WF_aVars(Connect(t) \/ Receive(t) \/ LosePort(t))

ActivationSpec == ActivationInit /\ [][ActivationNext]_aVars /\ ActivationFairness

-----------------------------------------------------------------------------
ActivationTypeOK ==
  /\ saved \in Settings /\ {granted, registered, alive, unseen} \subseteq BOOLEAN
  /\ turns \in Seq(Runs) /\ published \in Messages \cup {None}
  /\ tab \in [Tabs -> ContentScripts]
  /\ changes \in 0..MaxChanges /\ halts \in 0..MaxHalts /\ faults \in 0..MaxFaults

\* A tab that runs under some settings is never put back to older ones, whatever
\* reconciliations overlap and wherever the worker stops (reconcileAdapterActivation).
NoStaleLanguage ==
  [][\A t \in Tabs : (tab[t].shown # None /\ tab'[t].shown # None) => tab'[t].shown >= tab[t].shown]_aVars

Wanted == IF saved.on /\ granted THEN saved.version ELSE None

\* A tab that stays open ends up running what the settings and the permission say,
\* unless a call failed or the settings were replaced behind the worker.
TabsFollow ==
  \A t \in Tabs : []<>(\/ unseen \/ faults > 0 \/ tab[t].port = "none"
                      \/ tab[t].shown = Wanted)
=============================================================================
