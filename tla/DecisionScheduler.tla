------------------------- MODULE DecisionScheduler -------------------------
(***************************************************************************)
(* The scheduler of decision work and its capability circuit breaker.      *)
(*                                                                         *)
(* A record is one admission of a work id: it waits in the queue, runs on  *)
(* one of Concurrency slots, and settles once.  Cancelling a running       *)
(* record settles it but its run goes on, holding its slot, until the      *)
(* promise of the run settles; meanwhile the id can be admitted again.     *)
(* Records are numbered in the order of their admission, which is the      *)
(* order of the queue among equal priorities.                              *)
(***************************************************************************)
EXTENDS Nothing, Naturals, FiniteSets, Sequences, SequencesExt

CONSTANTS
  Works,            \* work ids
  Optional,         \* those that are optional, all of one capability
  Rank,             \* work -> its priority, 1 (off screen) to 4 (committed intent)
  Capacity,         \* length of the queue; 64 in the worker
  Concurrency,      \* slots; 4 in the worker
  MaxAttempts,      \* 2 in the worker
  Replays,          \* the attempts a scheduled checkpoint may have used
  FailureThreshold, \* 3 in the worker
  MaxRecords        \* bound on admissions

ASSUME WorksAssumption == Optional \subseteq Works /\ Rank \in [Works -> 1..4]
ASSUME BoundsAssumption ==
  /\ {Capacity, Concurrency, MaxAttempts, FailureThreshold} \subseteq Nat \ {0}
  /\ MaxRecords \in Nat /\ Replays \subseteq 0..MaxAttempts
ASSUME NoneAssumption == None \notin Works

VARIABLES
  admitted,  \* how many records there have been
  record,    \* record -> [work, attempt, pc, outcome]
  terminal,  \* the remembered outcomes, oldest first: <<[work, outcome], ...>>
  circuit       \* [state, failures, cooled]: the breaker, and whether its cooldown is over

vars == <<admitted, record, terminal, circuit>>

-----------------------------------------------------------------------------
(* Records *)

Records == 1..MaxRecords

\* Where a record is: in the queue; in its run; after it, at the check that its
\* binding is current; done, its slot not yet given back; or gone.
PCs == {"unused", "pending", "running", "checking", "returned", "gone"}

\* "unavailable" is a failure that may be retried later, "failed" is final.
Outcomes == {"none", "committed", "cancelled", "shed", "discarded", "unavailable", "failed"}

LiveIn(rec, r) == rec[r].pc # "unused" /\ rec[r].outcome = "none"

Live(r) == LiveIn(record, r)

\* The records once r is at pc; with its outcome; in its next attempt.
Moved(rec, r, pc) == [rec EXCEPT ![r] = [@ EXCEPT !.pc = pc]]
Settled(rec, r, pc, outcome) == [rec EXCEPT ![r] = [@ EXCEPT !.pc = pc, !.outcome = outcome]]
Attempted(rec, r) ==
  [rec EXCEPT ![r] = [work |-> rec[r].work, attempt |-> rec[r].attempt + 1,
                      pc |-> "running", outcome |-> rec[r].outcome]]

PendingIn(rec) == {r \in Records : rec[r].pc = "pending"}

\* The slots in use.
ActiveIn(rec) == {r \in Records : rec[r].pc \in {"running", "checking", "returned"}}

IsOptional(r) == record[r].work \in Optional

\* The queue is served by priority, then in the order of admission.
Before(rec, q, r) ==
  \/ Rank[rec[q].work] > Rank[rec[r].work]
  \/ Rank[rec[q].work] = Rank[rec[r].work] /\ q < r

-----------------------------------------------------------------------------
(* The circuit breaker of the optional capability *)

Allowed == circuit.state = "closed" \/ (circuit.state = "open" /\ circuit.cooled)

OnAllow == IF circuit.state = "open" THEN [circuit EXCEPT !.state = "half-open"]
           ELSE circuit

OnSuccess == [state |-> "closed", failures |-> 0, cooled |-> FALSE]

\* Failures are counted up to the threshold, where only the state matters.
OnFailure ==
  LET failures == IF circuit.failures < FailureThreshold THEN circuit.failures + 1
                  ELSE circuit.failures
  IN IF circuit.state = "half-open" \/ failures >= FailureThreshold
       THEN [state |-> "open", failures |-> failures, cooled |-> FALSE]
       ELSE [circuit EXCEPT !.failures = failures]

\* A slip: a probe that is shed or cancelled is forgotten.
ProbeIncomplete(work, outcome) ==
  work \in Optional /\ outcome \in {"discarded", "failed"}

\* The outcomes after which optional work has said nothing of its capability.
IncompleteProbe(work, outcome) ==
  work \in Optional /\ outcome \in {"cancelled", "shed", "discarded", "failed"}

OnFinish(before, work, outcome) ==
  IF before.state = "half-open" /\ IncompleteProbe(work, outcome)
    THEN [state |-> "open", failures |-> before.failures, cooled |-> FALSE]
    ELSE before

-----------------------------------------------------------------------------
(* Settling and pumping *)

RankOf(r) == Rank[record[r].work]

Forget(remembered, work) == SelectSeq(remembered, LAMBDA t : t.work # work)

\* The newest outcomes are remembered, one per work id.
Remember(remembered, work, outcome) ==
  LET all == Append(Forget(remembered, work), [work |-> work, outcome |-> outcome])
      excess == Len(all) - (Capacity + Concurrency)
  IN IF excess > 0 THEN SubSeq(all, excess + 1, Len(all)) ELSE all

Remembers(work, outcomes) ==
  \E i \in DOMAIN terminal : terminal[i].work = work /\ terminal[i].outcome \in outcomes

\* A slip: a late outcome replaces the first one.
FinishAgain(r, pc, outcome, before) ==
  /\ record' = Settled(record, r, pc, outcome)
  /\ terminal' = Remember(terminal, record[r].work, outcome)
  /\ circuit' = OnFinish(before, record[r].work, outcome)

\* A record settles once, at pc; what comes after its outcome is ignored.
Finish(r, pc, outcome, before) ==
  /\ IF Live(r)
       THEN /\ record' = Settled(record, r, pc, outcome)
            /\ terminal' = Remember(terminal, record[r].work, outcome)
            /\ circuit' = OnFinish(before, record[r].work, outcome)
       ELSE /\ record' = Moved(record, r, pc)
            /\ circuit' = before
            /\ UNCHANGED terminal

\* A slip: the freed slot waits for the next admission.
PumpNothing(rec, remembered, after) ==
  record' = rec /\ terminal' = remembered /\ circuit' = after

\* If a slot is free the best waiting record takes it; one whose attempts are
\* used up settles at once.  A step frees one slot or queues one record at most,
\* so the loop of the code runs once.
Pump(rec, remembered, after) ==
  \/ /\ PendingIn(rec) = {} \/ Cardinality(ActiveIn(rec)) >= Concurrency
     /\ record' = rec /\ terminal' = remembered /\ circuit' = after
  \/ /\ Cardinality(ActiveIn(rec)) < Concurrency
     /\ \E next \in PendingIn(rec) :
          /\ \A q \in PendingIn(rec) \ {next} : Before(rec, next, q)
          /\ \/ /\ rec[next].attempt < MaxAttempts
                /\ record' = Attempted(rec, next)
                /\ terminal' = remembered /\ circuit' = after
             \/ /\ rec[next].attempt >= MaxAttempts
                /\ record' = Settled(rec, next, "returned", "failed")
                /\ terminal' = Remember(remembered, rec[next].work, "failed")
                /\ circuit' = OnFinish(after, rec[next].work, "failed")

-----------------------------------------------------------------------------
(* schedule *)

Unused == [work |-> None, attempt |-> 0, pc |-> "unused", outcome |-> "none"]

\* A slip: live work is not looked up.
MayAdmitTwice(work) ==
  ~Remembers(work, {"committed", "cancelled"}) /\ admitted < MaxRecords

\* Live work is coalesced, or rejected when it is bound to something else; work
\* remembered as committed or cancelled is not done again.
MayAdmit(work) ==
  /\ \A r \in Records : Live(r) => record[r].work # work
  /\ ~Remembers(work, {"committed", "cancelled"})
  /\ admitted < MaxRecords

Full == Cardinality(PendingIn(record)) >= Capacity

\* The optional work that waits at the lowest priority, and there the longest.
Victims ==
  LET optional == {r \in PendingIn(record) : IsOptional(r)}
  IN {r \in optional : \A q \in optional \ {r} :
        \/ RankOf(q) > RankOf(r)
        \/ RankOf(q) = RankOf(r) /\ r < q}

\* The victims that work of this id outranks.
Outranked(work) == {r \in Victims : Rank[work] > RankOf(r)}

\* The circuit after optional work was let in.
Entered(work) == IF work \in Optional THEN OnAllow ELSE circuit

\* Optional work is skipped while the circuit is open, and required work meets
\* backpressure when it may not shed anything.
TurnAway(work) ==
  /\ MayAdmit(work)
  /\ \/ work \in Optional /\ ~Allowed
     \/ work \notin Optional /\ Full /\ Outranked(work) = {}
  /\ terminal' = Forget(terminal, work)
  /\ UNCHANGED <<admitted, record, circuit>>

\* Optional work is shed on arrival.
ShedArrival(work) ==
  /\ MayAdmit(work)
  /\ work \in Optional /\ Allowed /\ Full /\ Outranked(work) = {}
  /\ admitted' = admitted + 1
  /\ record' = [record EXCEPT ![admitted + 1] =
                  [work |-> work, attempt |-> 0, pc |-> "gone", outcome |-> "shed"]]
  /\ terminal' = Remember(terminal, work, "shed")
  /\ circuit' = OnFinish(Entered(work), work, "shed")

\* Work is queued, in place of the victim it outranks when the queue is full;
\* a replayed checkpoint brings the attempts it has used.
Admit(work, attempt) ==
  /\ MayAdmit(work)
  /\ work \in Optional => Allowed
  /\ Full => Outranked(work) # {}
  /\ admitted' = admitted + 1
  /\ LET shed   == IF Full THEN Outranked(work) ELSE {}
         queued == [record EXCEPT ![admitted + 1] =
                      [work |-> work, attempt |-> attempt, pc |-> "pending", outcome |-> "none"]]
     IN \/ shed = {} /\ Pump(queued, Forget(terminal, work), Entered(work))
        \/ \E v \in shed :
             Pump(Settled(queued, v, "gone", "shed"),
                  Remember(Forget(terminal, work), record[v].work, "shed"),
                  OnFinish(Entered(work), record[v].work, "shed"))

-----------------------------------------------------------------------------
(* cancel and the run of a record *)

\* A waiting record leaves the queue; a running one keeps its slot until its
\* run settles.
CancelWork(r) ==
  /\ Live(r)
  /\ Finish(r, IF record[r].pc = "pending" THEN "gone" ELSE record[r].pc, "cancelled", circuit)
  /\ UNCHANGED admitted

\* The run fulfils; nothing more is done for a record that settled meanwhile.
RunReturns(r) ==
  /\ record[r].pc = "running"
  /\ record' = Moved(record, r, IF Live(r) THEN "checking" ELSE "returned")
  /\ UNCHANGED <<admitted, terminal, circuit>>

MayRetry(r) == record[r].attempt < MaxAttempts

\* The run fails for a reason that may pass: it is tried again at once.
RunFailsTransiently(r) ==
  /\ record[r].pc = "running" /\ Live(r)
  /\ LET after == IF IsOptional(r) THEN OnFailure ELSE circuit
     IN IF MayRetry(r)
          THEN /\ record' = Attempted(record, r)
               /\ circuit' = after
               /\ UNCHANGED terminal
          ELSE Finish(r, "returned", "unavailable", after)
  /\ UNCHANGED admitted

\* The run, or the check after it, throws anything else.
RunFails(r) ==
  /\ record[r].pc \in {"running", "checking"}
  /\ Finish(r, "returned", "failed", circuit)
  /\ UNCHANGED admitted

\* The binding is no longer current.
CheckStale(r) ==
  /\ record[r].pc = "checking"
  /\ Finish(r, "returned", "discarded", circuit)
  /\ UNCHANGED admitted

\* The binding is current.  The capability counts as working before it is seen
\* whether the record still lives.
CheckCurrent(r) ==
  /\ record[r].pc = "checking"
  /\ Finish(r, "returned", "committed", IF IsOptional(r) THEN OnSuccess ELSE circuit)
  /\ UNCHANGED admitted

\* The slot is given back.
Release(r) ==
  /\ record[r].pc = "returned"
  /\ Pump(Moved(record, r, "gone"), terminal, circuit)
  /\ UNCHANGED admitted

\* The cooldown elapses.
CoolDown ==
  /\ circuit.state = "open" /\ ~circuit.cooled
  /\ circuit' = [circuit EXCEPT !.cooled = TRUE]
  /\ UNCHANGED <<admitted, record, terminal>>

-----------------------------------------------------------------------------
Init ==
  /\ admitted = 0
  /\ record = [r \in Records |-> Unused]
  /\ terminal = <<>>
  /\ circuit = [state |-> "closed", failures |-> 0, cooled |-> FALSE]

\* A run that was started goes on until its slot is free.
Continue(r) ==
  \/ RunReturns(r) \/ RunFailsTransiently(r) \/ RunFails(r)
  \/ CheckStale(r) \/ CheckCurrent(r) \/ Release(r)

Next ==
  \/ \E work \in Works :
       \/ TurnAway(work) \/ ShedArrival(work)
       \/ \E attempt \in Replays : Admit(work, attempt)
  \/ \E r \in Records : CancelWork(r) \/ Continue(r)
  \/ CoolDown

Spec == Init /\ [][Next]_vars

-----------------------------------------------------------------------------
(* Properties *)

\* Every variable keeps its type; attempts stay within the budget and the
\* memory of outcomes within its bound.
TypeOK ==
  /\ admitted \in 0..MaxRecords
  /\ record \in [Records -> [work: Works \cup {None}, attempt: 0..MaxAttempts,
                             pc: PCs, outcome: Outcomes]]
  /\ \A r \in Records : record[r].pc = "unused" <=> r > admitted
  /\ Len(terminal) <= Capacity + Concurrency
  /\ circuit.state \in {"closed", "open", "half-open"}
  /\ circuit.failures \in 0..FailureThreshold

\* The slots are never exceeded and none is idle while work waits, whatever is
\* cancelled, shed or exhausted (#pump and its finally).
WorkConserving ==
  /\ Cardinality(ActiveIn(record)) <= Concurrency
  /\ Cardinality(PendingIn(record)) <= Capacity
  /\ PendingIn(record) # {} => Cardinality(ActiveIn(record)) = Concurrency

\* No work id has two live records: a duplicate is coalesced even while a
\* cancelled run of the same id still holds its slot.
OneLiveRecord ==
  \A q, r \in Records : Live(q) /\ Live(r) /\ record[q].work = record[r].work => q = r

\* A half-open circuit has its probe under way: it can never stay half-open,
\* refusing the capability, with nobody left to decide it (incompleteProbe).
HalfOpenHasProbe ==
  circuit.state = "half-open" => \E r \in Records : Live(r) /\ IsOptional(r)

\* The outcome of a record never changes: a cancellation is terminal and a late
\* success is rejected (test "keeps cancellation terminal").
SettlesOnce ==
  [][\A r \in Records :
       record[r].outcome # "none" => record'[r].outcome = record[r].outcome]_vars

\* Required work is never shed, and of the optional work that waited nothing of
\* a lower priority than the shed record is kept.
ShedsLowestFirst ==
  [][\A r \in Records :
       record[r].outcome # "shed" /\ record'[r].outcome = "shed" =>
         /\ record'[r].work \in Optional
         /\ \A q \in PendingIn(record) :
              Rank[record[q].work] < Rank[record'[r].work] => ~IsOptional(q)]_vars

\* What the tests say of a probe (decision-scheduler.test.ts:371): cancelling it
\* leaves the circuit open.  The circuit closes for work that commits, only.
ClosesOnCommit ==
  [][circuit.state # "closed" /\ circuit'.state = "closed" =>
       \E r \in Records : record[r].outcome = "none" /\ record'[r].outcome = "committed"]_vars

=============================================================================
