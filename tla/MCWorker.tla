------------------------------ MODULE MCWorker ------------------------------
(* Small instances of what the service worker runs: the scheduler of decisions *)
(* and the calls of the synchronization service.  They share nothing, so one   *)
(* behaviour is a behaviour of one of them, whose fairness is asked of it.     *)
EXTENDS DecisionScheduler, SyncService

CONSTANTS intent, rules, visible, offscreen, c1, c2, c3

VARIABLE part

\* One work id of every priority; the two lower ones are optional.
Priorities ==
  [w \in Works |->
     CASE w = intent -> 4 [] w = rules -> 3 [] w = visible -> 2 [] OTHER -> 1]

Everything == {"connect", "sync", "alarm", "resolve", "disconnect", "restore",
               "schedule", "delete"}

\* A call of any kind, one that cancels, and a manual run that joins, waits behind
\* or outlives them.
Mixed ==
  [c \in Calls |->
     CASE c = c1 -> Everything
       [] c = c2 -> {"disconnect"}
       [] OTHER  -> {"sync"}]

ASSUME ConstantsOfService == ServiceAssumption

-----------------------------------------------------------------------------
WorkerInit == part \in {"decisions", "sync"} /\ Init /\ ServiceInit

WorkerNext ==
  \/ part = "decisions" /\ Next /\ UNCHANGED <<part, serviceVars>>
  \/ part = "sync" /\ ServiceNext /\ UNCHANGED <<part, vars>>

\* Every await of a call is answered (SyncService!FairSpec).
WorkerSpec ==
  /\ WorkerInit /\ [][WorkerNext]_<<part, vars, serviceVars>>
  /\ \A c \in Calls : WF_serviceVars(part = "sync" /\ ContinueCall(c))
=============================================================================
