--------------------------- MODULE Worker_proofs ---------------------------
(***************************************************************************)
(* Proofs about what the service worker runs, for any number of works,     *)
(* records, slots and attempts, and of calls, attempts and restarts.       *)
(*                                                                         *)
(* The scheduler's need the shape of the records and that what waits has   *)
(* no outcome; the memory of outcomes is not involved.  That no slot is    *)
(* idle needs the numbers of slots in use and of waiting records, and that *)
(* the lowest is shed first, that the victim exists (VictimIs).  The       *)
(* synchronization service's rest on the lock: its entry names the calls   *)
(* that are inside and waiting (LockLegal), and while synchronization is   *)
(* off every call is where nothing is enabled or sent (QuietCall).         *)
(***************************************************************************)
EXTENDS DecisionScheduler, SyncService, FiniteSetTheorems, WellFoundedInduction, TLAPS

RecordType == [work: Works \cup {None}, attempt: Nat, pc: PCs, outcome: Outcomes]

\* A record function as every step leaves it, with n records in use.
Wellformed(rec, n) ==
  /\ rec \in [Records -> RecordType]
  /\ \A r \in Records : rec[r].pc = "unused" <=> r > n
  /\ \A r \in Records : rec[r].pc \in {"unused", "pending"} => rec[r].outcome = "none"

CircuitType == [state: {"closed", "open", "half-open"}, failures: Nat, cooled: BOOLEAN]

OneLive(rec) ==
  \A q, r \in Records : LiveIn(rec, q) /\ LiveIn(rec, r) /\ rec[q].work = rec[r].work => q = r

Probed(rec, breaker) ==
  breaker.state = "half-open" => \E r \in Records : LiveIn(rec, r) /\ rec[r].work \in Optional

\* What holds before and after every part of a step.
Good(rec, n, breaker) ==
  Wellformed(rec, n) /\ OneLive(rec) /\ Probed(rec, breaker) /\ breaker \in CircuitType

\* The inductive invariant.
IInv == admitted \in Nat /\ Good(record, admitted, circuit)

Keeps(rec, new) ==
  \A r \in Records : rec[r].outcome # "none" => new[r].outcome = rec[r].outcome

\* The fields of a record that was moved.
LEMMA MovedFields ==
  ASSUME NEW rec \in [Records -> RecordType], NEW r \in Records, NEW pc \in PCs
  PROVE  /\ Moved(rec, r, pc) \in [Records -> RecordType]
         /\ Moved(rec, r, pc)[r].pc = pc
         /\ Moved(rec, r, pc)[r].work = rec[r].work
         /\ Moved(rec, r, pc)[r].outcome = rec[r].outcome
         /\ \A q \in Records \ {r} : Moved(rec, r, pc)[q] = rec[q]
<1>1. rec[r] \in RecordType
  OBVIOUS
<1>2. [rec[r] EXCEPT !.pc = pc] \in RecordType
  BY <1>1 DEF RecordType
<1> QED BY <1>1, <1>2 DEF Moved, RecordType

\* The fields of a record that was settled.
LEMMA SettledFields ==
  ASSUME NEW rec \in [Records -> RecordType], NEW r \in Records,
         NEW pc \in PCs, NEW outcome \in Outcomes
  PROVE  /\ Settled(rec, r, pc, outcome) \in [Records -> RecordType]
         /\ Settled(rec, r, pc, outcome)[r].pc = pc
         /\ Settled(rec, r, pc, outcome)[r].work = rec[r].work
         /\ Settled(rec, r, pc, outcome)[r].outcome = outcome
         /\ \A q \in Records \ {r} : Settled(rec, r, pc, outcome)[q] = rec[q]
<1>1. rec[r] \in RecordType
  OBVIOUS
<1>2. [rec[r] EXCEPT !.pc = pc, !.outcome = outcome] \in RecordType
  BY <1>1 DEF RecordType
<1> QED BY <1>1, <1>2 DEF Settled, RecordType

\* The fields of a record that was started.
LEMMA AttemptedFields ==
  ASSUME NEW rec \in [Records -> RecordType], NEW r \in Records
  PROVE  /\ Attempted(rec, r) \in [Records -> RecordType]
         /\ Attempted(rec, r)[r].pc = "running"
         /\ Attempted(rec, r)[r].work = rec[r].work
         /\ Attempted(rec, r)[r].outcome = rec[r].outcome
         /\ \A q \in Records \ {r} : Attempted(rec, r)[q] = rec[q]
<1>1. rec[r] \in RecordType
  OBVIOUS
<1> QED BY <1>1 DEF Attempted, RecordType, PCs

\* A waiting record that starts or settles leaves the records well formed.
LEMMA AttemptedStep ==
  ASSUME NEW rec, NEW n \in Nat, Wellformed(rec, n), NEW r \in Records,
         ~(r > n)
  PROVE  /\ Wellformed(Attempted(rec, r), n)
         /\ \A q \in Records : /\ Attempted(rec, r)[q].work = rec[q].work
                               /\ Attempted(rec, r)[q].outcome = rec[q].outcome
                               /\ LiveIn(Attempted(rec, r), q) <=> LiveIn(rec, q)
<1> DEFINE new == Attempted(rec, r)
<1>1. /\ new \in [Records -> RecordType] /\ new[r].pc = "running"
      /\ new[r].work = rec[r].work /\ new[r].outcome = rec[r].outcome
      /\ \A q \in Records \ {r} : new[q] = rec[q]
  BY AttemptedFields DEF Wellformed
<1>2. rec[r].pc # "unused"
  BY DEF Wellformed
<1> HIDE DEF new
<1>3. Wellformed(new, n)
  BY <1>1 DEF Wellformed
<1>4. \A q \in Records : /\ new[q].work = rec[q].work
                         /\ new[q].outcome = rec[q].outcome
                         /\ LiveIn(new, q) <=> LiveIn(rec, q)
  BY <1>1, <1>2 DEF LiveIn
<1> QED BY <1>3, <1>4 DEF new

\* The same when a record moves on.
LEMMA MovedStep ==
  ASSUME NEW rec, NEW n \in Nat, Wellformed(rec, n), NEW r \in Records,
         ~(r > n), NEW pc \in PCs \ {"unused", "pending"}
  PROVE  /\ Wellformed(Moved(rec, r, pc), n)
         /\ \A q \in Records : /\ Moved(rec, r, pc)[q].work = rec[q].work
                               /\ Moved(rec, r, pc)[q].outcome = rec[q].outcome
                               /\ LiveIn(Moved(rec, r, pc), q) <=> LiveIn(rec, q)
<1> DEFINE new == Moved(rec, r, pc)
<1>1. /\ new \in [Records -> RecordType] /\ new[r].pc = pc
      /\ new[r].work = rec[r].work /\ new[r].outcome = rec[r].outcome
      /\ \A q \in Records \ {r} : new[q] = rec[q]
  BY MovedFields DEF Wellformed
<1>2. rec[r].pc # "unused"
  BY DEF Wellformed
<1> HIDE DEF new
<1>3. Wellformed(new, n)
  BY <1>1 DEF Wellformed
<1>4. \A q \in Records : /\ new[q].work = rec[q].work
                         /\ new[q].outcome = rec[q].outcome
                         /\ LiveIn(new, q) <=> LiveIn(rec, q)
  BY <1>1, <1>2 DEF LiveIn
<1> QED BY <1>3, <1>4 DEF new

\* The same when a live record settles.
LEMMA SettledStep ==
  ASSUME NEW rec, NEW n \in Nat, Wellformed(rec, n), NEW r \in Records,
         LiveIn(rec, r), NEW pc \in PCs \ {"unused", "pending"},
         NEW outcome \in Outcomes \ {"none"}
  PROVE  /\ Wellformed(Settled(rec, r, pc, outcome), n)
         /\ \A q \in Records :
              /\ Settled(rec, r, pc, outcome)[q].work = rec[q].work
              /\ rec[q].outcome # "none" => Settled(rec, r, pc, outcome)[q].outcome = rec[q].outcome
              /\ LiveIn(Settled(rec, r, pc, outcome), q) <=> LiveIn(rec, q) /\ q # r
<1> DEFINE new == Settled(rec, r, pc, outcome)
<1>1. /\ new \in [Records -> RecordType] /\ new[r].pc = pc
      /\ new[r].work = rec[r].work /\ new[r].outcome = outcome
      /\ \A q \in Records \ {r} : new[q] = rec[q]
  BY SettledFields DEF Wellformed
<1>2. rec[r].pc # "unused" /\ rec[r].outcome = "none"
  BY DEF LiveIn
<1> HIDE DEF new
<1>3. Wellformed(new, n)
  BY <1>1, <1>2 DEF Wellformed
<1>4. \A q \in Records : /\ new[q].work = rec[q].work
                         /\ rec[q].outcome # "none" => new[q].outcome = rec[q].outcome
                         /\ LiveIn(new, q) <=> LiveIn(rec, q) /\ q # r
  BY <1>1, <1>2 DEF LiveIn
<1> QED BY <1>3, <1>4 DEF new

\* A settled probe that does not decide the circuit reopens it.
LEMMA OnFinishState ==
  ASSUME NEW before \in CircuitType, NEW work, NEW outcome
  PROVE  /\ OnFinish(before, work, outcome) \in CircuitType
         /\ OnFinish(before, work, outcome).state = "half-open" =>
              before.state = "half-open" /\ ~IncompleteProbe(work, outcome)
<1>1. CASE before.state = "half-open" /\ IncompleteProbe(work, outcome)
  BY <1>1 DEF OnFinish, CircuitType
<1>2. CASE ~(before.state = "half-open" /\ IncompleteProbe(work, outcome))
  BY <1>2 DEF OnFinish
<1> QED BY <1>1, <1>2

\* A live record settles.  If it was the probe then it decided the circuit
\* before, or it decides it now.
LEMMA SettledGood ==
  ASSUME NEW rec, NEW n \in Nat, NEW breaker, Good(rec, n, breaker),
         NEW r \in Records, LiveIn(rec, r), NEW pc \in PCs \ {"unused", "pending"},
         NEW outcome \in Outcomes \ {"none"},
         outcome \in {"committed", "unavailable"} /\ rec[r].work \in Optional
           => breaker.state # "half-open"
  PROVE  /\ Good(Settled(rec, r, pc, outcome), n, OnFinish(breaker, rec[r].work, outcome))
         /\ Keeps(rec, Settled(rec, r, pc, outcome))
<1> DEFINE new == Settled(rec, r, pc, outcome)
           after == OnFinish(breaker, rec[r].work, outcome)
<1>1. /\ Wellformed(new, n)
      /\ \A q \in Records : /\ new[q].work = rec[q].work
                            /\ rec[q].outcome # "none" => new[q].outcome = rec[q].outcome
                            /\ LiveIn(new, q) <=> LiveIn(rec, q) /\ q # r
  BY SettledStep DEF Good
<1>2. /\ after \in CircuitType
      /\ after.state = "half-open" =>
           breaker.state = "half-open" /\ ~IncompleteProbe(rec[r].work, outcome)
  BY OnFinishState DEF Good
<1> HIDE DEF new, after
<1>3. OneLive(new)
  BY <1>1 DEF Good, OneLive
<1>4. Probed(new, after)
  <2> SUFFICES ASSUME after.state = "half-open"
               PROVE  \E q \in Records : LiveIn(new, q) /\ new[q].work \in Optional
    BY DEF Probed
  <2>1. rec[r].work \notin Optional
    BY <1>2 DEF IncompleteProbe, Outcomes
  <2>2. PICK q \in Records : LiveIn(rec, q) /\ rec[q].work \in Optional
    BY <1>2 DEF Good, Probed
  <2> QED BY <1>1, <2>1, <2>2
<1>5. Keeps(rec, new)
  BY <1>1 DEF Keeps
<1> QED BY <1>1, <1>2, <1>3, <1>4, <1>5 DEF Good, new, after

\* Nothing changes in what lives: the circuit keeps its probe.
LEMMA SameLiveGood ==
  ASSUME NEW rec, NEW new, NEW n \in Nat, NEW breaker, Good(rec, n, breaker),
         Wellformed(new, n),
         \A q \in Records : /\ new[q].work = rec[q].work
                            /\ new[q].outcome = rec[q].outcome
                            /\ LiveIn(new, q) <=> LiveIn(rec, q)
  PROVE  Good(new, n, breaker) /\ Keeps(rec, new)
<1>1. \A q \in Records : LiveIn(new, q) => LiveIn(rec, q)
  OBVIOUS
<1>2. OneLive(new)
  <2> SUFFICES ASSUME NEW q \in Records, NEW r \in Records, LiveIn(new, q), LiveIn(new, r),
                      new[q].work = new[r].work
               PROVE  q = r
    BY DEF OneLive
  <2>1. LiveIn(rec, q) /\ LiveIn(rec, r) /\ rec[q].work = rec[r].work
    BY <1>1
  <2> QED BY <2>1 DEF Good, OneLive
<1>3. Probed(new, breaker)
  <2> SUFFICES ASSUME breaker.state = "half-open"
               PROVE  \E q \in Records : LiveIn(new, q) /\ new[q].work \in Optional
    BY DEF Probed
  <2>1. PICK q \in Records : LiveIn(rec, q) /\ rec[q].work \in Optional
    BY DEF Good, Probed
  <2> QED BY <2>1
<1> QED BY <1>2, <1>3 DEF Good, Keeps

\* The pump starts or settles a waiting record.
LEMMA PumpGood ==
  ASSUME NEW rec, NEW n \in Nat, NEW remembered, NEW breaker,
         Good(rec, n, breaker), Pump(rec, remembered, breaker)
  PROVE  Good(record', n, circuit') /\ Keeps(rec, record')
<1>1. CASE record' = rec /\ circuit' = breaker
  BY <1>1 DEF Keeps
<1>2. CASE ~(record' = rec /\ circuit' = breaker)
  <2>1. PICK next \in PendingIn(rec) :
          \/ record' = Attempted(rec, next) /\ circuit' = breaker
          \/ /\ record' = Settled(rec, next, "returned", "failed")
             /\ circuit' = OnFinish(breaker, rec[next].work, "failed")
    BY <1>2 DEF Pump
  <2>2. next \in Records /\ rec[next].pc = "pending"
    BY <2>1 DEF PendingIn
  <2>3. Wellformed(rec, n)
    BY DEF Good
  <2>4. LiveIn(rec, next) /\ ~(next > n)
    BY <2>2, <2>3 DEF Wellformed, LiveIn
  <2>5. CASE record' = Attempted(rec, next) /\ circuit' = breaker
    <3>1. /\ Wellformed(record', n)
          /\ \A q \in Records : /\ record'[q].work = rec[q].work
                                /\ record'[q].outcome = rec[q].outcome
                                /\ LiveIn(record', q) <=> LiveIn(rec, q)
      BY <2>2, <2>3, <2>4, <2>5, AttemptedStep
    <3> QED BY <2>5, <3>1, SameLiveGood
  <2>6. CASE /\ record' = Settled(rec, next, "returned", "failed")
             /\ circuit' = OnFinish(breaker, rec[next].work, "failed")
    <3>1. "returned" \in PCs \ {"unused", "pending"} /\ "failed" \in Outcomes \ {"none"}
      BY DEF PCs, Outcomes
    <3> QED BY <2>2, <2>4, <2>6, <3>1, SettledGood
  <2> QED BY <2>1, <2>5, <2>6
<1> QED BY <1>1, <1>2

\* A record that settled before only moves.
LEMMA FinishGood ==
  ASSUME NEW n \in Nat, NEW r \in Records, record[r].pc # "unused",
         NEW pc \in PCs \ {"unused", "pending"}, NEW outcome \in Outcomes \ {"none"},
         NEW breaker, Good(record, n, breaker), Finish(r, pc, outcome, breaker),
         outcome \in {"committed", "unavailable"} /\ record[r].work \in Optional
           => breaker.state # "half-open"
  PROVE  Good(record', n, circuit') /\ Keeps(record, record')
<1>1. CASE Live(r)
  <2>1. LiveIn(record, r)
    BY <1>1 DEF Live
  <2>2. /\ record' = Settled(record, r, pc, outcome)
        /\ circuit' = OnFinish(breaker, record[r].work, outcome)
    BY <1>1 DEF Finish
  <2> QED BY <2>1, <2>2, SettledGood
<1>2. CASE ~Live(r)
  <2>1. record' = Moved(record, r, pc) /\ circuit' = breaker
    BY <1>2 DEF Finish
  <2>2. Wellformed(record, n) /\ ~(r > n)
    BY DEF Good, Wellformed
  <2>3. /\ Wellformed(record', n)
        /\ \A q \in Records : /\ record'[q].work = record[q].work
                              /\ record'[q].outcome = record[q].outcome
                              /\ LiveIn(record', q) <=> LiveIn(record, q)
    BY <2>1, <2>2, MovedStep
  <2> QED BY <2>1, <2>3, SameLiveGood
<1> QED BY <1>1, <1>2

\* Initially nothing is admitted and the circuit is closed.
LEMMA InitIInv == Init => IInv
<1> SUFFICES ASSUME Init PROVE IInv
  OBVIOUS
<1>1. \A r \in Records : r > 0
  BY BoundsAssumption DEF Records
<1>2. Unused \in RecordType
  BY DEF Unused, RecordType, PCs, Outcomes
<1>3. Wellformed(record, admitted)
  BY <1>1, <1>2 DEF Init, Wellformed, Unused
<1>4. OneLive(record)
  BY DEF Init, Unused, OneLive, LiveIn
<1>5. circuit \in CircuitType /\ Probed(record, circuit)
  BY DEF Init, CircuitType, Probed
<1> QED BY <1>3, <1>4, <1>5 DEF Init, IInv, Good

\* Optional work that is let in while the circuit is not closed is its probe.
LEMMA EnteredState ==
  ASSUME NEW work, circuit \in CircuitType
  PROVE  /\ Entered(work) \in CircuitType
         /\ Entered(work).state = "half-open" /\ work \notin Optional => circuit.state = "half-open"
BY DEF Entered, OnAllow, CircuitType

\* The records with work queued as the next one.
Queueing(work, attempt, pc, outcome) ==
  [record EXCEPT ![admitted + 1] =
     [work |-> work, attempt |-> attempt, pc |-> pc, outcome |-> outcome]]

\* A record more.  One that lives is the only one of its work; one that was shed
\* on arrival does not.
LEMMA QueueingStep ==
  ASSUME IInv, NEW work \in Works, MayAdmit(work), NEW attempt \in Nat,
         NEW pc \in PCs \ {"unused"}, NEW outcome \in Outcomes,
         pc = "pending" => outcome = "none"
  PROVE  LET new == Queueing(work, attempt, pc, outcome)
         IN /\ Wellformed(new, admitted + 1) /\ OneLive(new) /\ Keeps(record, new)
            /\ admitted + 1 \in Records /\ new[admitted + 1].work = work
            /\ outcome = "none" => LiveIn(new, admitted + 1)
            /\ \A q \in Records : LiveIn(record, q) => LiveIn(new, q) /\ new[q] = record[q]
<1> DEFINE x == admitted + 1
           new == Queueing(work, attempt, pc, outcome)
<1>1. admitted \in Nat /\ x \in Records /\ x > admitted
  BY BoundsAssumption DEF IInv, MayAdmit, Records
<1>2. Wellformed(record, admitted) /\ OneLive(record)
  BY DEF IInv, Good
<1>3. record[x].pc = "unused" /\ record[x].outcome = "none"
  BY <1>1, <1>2 DEF Wellformed
<1>4. [work |-> work, attempt |-> attempt, pc |-> pc, outcome |-> outcome] \in RecordType
  BY DEF RecordType
<1>5. /\ new \in [Records -> RecordType]
      /\ new[x].work = work /\ new[x].pc = pc /\ new[x].outcome = outcome
      /\ \A q \in Records \ {x} : new[q] = record[q]
  BY <1>1, <1>2, <1>4 DEF Wellformed, Queueing
<1> HIDE DEF new
<1>6. Wellformed(new, admitted + 1)
  <2>1. \A r \in Records : r \in Nat
    BY DEF Records
  <2> QED BY <1>1, <1>2, <1>5, <2>1 DEF Wellformed
<1>7. \A q \in Records \ {x} : LiveIn(new, q) <=> LiveIn(record, q)
  BY <1>5 DEF LiveIn
<1>8. \A q \in Records : LiveIn(record, q) => q # x /\ record[q].work # work
  BY <1>3 DEF LiveIn, MayAdmit, Live
<1>9. OneLive(new)
  BY <1>1, <1>2, <1>5, <1>7, <1>8 DEF OneLive
<1>10. Keeps(record, new)
  BY <1>1, <1>3, <1>5 DEF Keeps
<1>11. outcome = "none" => LiveIn(new, x)
  BY <1>5 DEF LiveIn
<1>12. \A q \in Records : LiveIn(record, q) => LiveIn(new, q) /\ new[q] = record[q]
  BY <1>5, <1>7, <1>8
<1> QED BY <1>1, <1>5, <1>6, <1>9, <1>10, <1>11, <1>12 DEF new

\* Work that is shed on arrival leaves no probe behind: it reopens the circuit.
LEMMA ShedArrivalStep ==
  ASSUME IInv, NEW work \in Works, ShedArrival(work)
  PROVE  IInv' /\ Keeps(record, record')
<1>1. MayAdmit(work) /\ work \in Optional
  BY DEF ShedArrival
<1>2. /\ record' = Queueing(work, 0, "gone", "shed") /\ admitted' = admitted + 1
      /\ circuit' = OnFinish(Entered(work), work, "shed")
  BY DEF ShedArrival, Queueing
<1>3. 0 \in Nat /\ "gone" \in PCs \ {"unused"} /\ "shed" \in Outcomes
  BY DEF PCs, Outcomes
<1>4. Wellformed(record', admitted') /\ OneLive(record') /\ Keeps(record, record')
  BY <1>1, <1>2, <1>3, QueueingStep
<1>5. Entered(work) \in CircuitType
  BY EnteredState DEF IInv, Good
<1>6. circuit' \in CircuitType /\ circuit'.state # "half-open"
  BY <1>1, <1>2, <1>5, OnFinishState DEF IncompleteProbe
<1>7. Probed(record', circuit')
  BY <1>6 DEF Probed
<1>8. admitted' \in Nat
  BY <1>2 DEF IInv
<1> QED BY <1>4, <1>6, <1>7, <1>8 DEF IInv, Good

\* Queued work is the probe when the circuit became half-open for it, and the
\* victim it displaces reopens a circuit it was the probe of.
LEMMA AdmitStep ==
  ASSUME IInv, NEW work \in Works, NEW attempt \in Replays, Admit(work, attempt)
  PROVE  IInv' /\ Keeps(record, record')
<1> DEFINE queued == Queueing(work, attempt, "pending", "none")
           n == admitted + 1
<1>1. MayAdmit(work) /\ admitted' = n /\ n \in Nat
  BY DEF Admit, IInv
<1>2. \/ \E remembered : Pump(queued, remembered, Entered(work))
      \/ \E v \in Outranked(work) : \E remembered :
           Pump(Settled(queued, v, "gone", "shed"), remembered,
                OnFinish(Entered(work), record[v].work, "shed"))
  BY DEF Admit, Queueing
<1>3. attempt \in Nat /\ "pending" \in PCs \ {"unused"} /\ "none" \in Outcomes
  BY BoundsAssumption DEF PCs, Outcomes
<1>4. /\ Wellformed(queued, n) /\ OneLive(queued) /\ Keeps(record, queued)
      /\ n \in Records /\ queued[n].work = work /\ LiveIn(queued, n)
      /\ \A q \in Records : LiveIn(record, q) => LiveIn(queued, q) /\ queued[q] = record[q]
  BY <1>1, <1>3, QueueingStep
<1> HIDE DEF queued, n
<1>5. /\ Entered(work) \in CircuitType
      /\ Entered(work).state = "half-open" /\ work \notin Optional => circuit.state = "half-open"
  BY EnteredState DEF IInv, Good
<1>6. Probed(queued, Entered(work))
  <2> SUFFICES ASSUME Entered(work).state = "half-open"
               PROVE  \E r \in Records : LiveIn(queued, r) /\ queued[r].work \in Optional
    BY DEF Probed
  <2>1. CASE work \in Optional
    BY <1>4, <2>1
  <2>2. CASE work \notin Optional
    <3>1. PICK r \in Records : LiveIn(record, r) /\ record[r].work \in Optional
      BY <1>5, <2>2 DEF IInv, Good, Probed
    <3> QED BY <1>4, <3>1
  <2> QED BY <2>1, <2>2
<1>7. Good(queued, n, Entered(work))
  BY <1>4, <1>5, <1>6 DEF Good
<1>8. CASE \E remembered : Pump(queued, remembered, Entered(work))
  <2>1. Good(record', n, circuit') /\ Keeps(queued, record')
    BY <1>1, <1>7, <1>8, PumpGood
  <2>2. Keeps(record, record')
    BY <1>4, <2>1 DEF Keeps
  <2> QED BY <1>1, <2>1, <2>2 DEF IInv
<1>9. CASE \E v \in Outranked(work) : \E remembered :
             Pump(Settled(queued, v, "gone", "shed"), remembered,
                  OnFinish(Entered(work), record[v].work, "shed"))
  <2>0. PICK v \in Outranked(work) : \E remembered :
             Pump(Settled(queued, v, "gone", "shed"), remembered,
                  OnFinish(Entered(work), record[v].work, "shed"))
    BY <1>9
  <2>1. PICK remembered :
             Pump(Settled(queued, v, "gone", "shed"), remembered,
                  OnFinish(Entered(work), record[v].work, "shed"))
    BY <2>0
  <2>2. v \in Records /\ record[v].pc = "pending"
    BY DEF Outranked, Victims, PendingIn
  <2>3. LiveIn(record, v)
    BY <2>2 DEF IInv, Good, Wellformed, LiveIn
  <2>4. LiveIn(queued, v) /\ queued[v].work = record[v].work
    BY <1>4, <2>2, <2>3
  <2>5. "gone" \in PCs \ {"unused", "pending"} /\ "shed" \in Outcomes \ {"none"}
        /\ "shed" \notin {"committed", "unavailable"}
    BY DEF PCs, Outcomes
  <2>6. /\ Good(Settled(queued, v, "gone", "shed"), n, OnFinish(Entered(work), record[v].work, "shed"))
        /\ Keeps(queued, Settled(queued, v, "gone", "shed"))
    BY <1>1, <1>7, <2>2, <2>4, <2>5, SettledGood
  <2>7. Good(record', n, circuit') /\ Keeps(Settled(queued, v, "gone", "shed"), record')
    BY <1>1, <2>1, <2>6, PumpGood
  <2>8. Keeps(record, record')
    BY <1>4, <2>6, <2>7 DEF Keeps
  <2> QED BY <1>1, <2>7, <2>8 DEF IInv
<1> QED BY <1>2, <1>8, <1>9

\* The steps of one record, and its cancellation.
LEMMA RecordStep ==
  ASSUME IInv, NEW r \in Records, CancelWork(r) \/ Continue(r)
  PROVE  IInv' /\ Keeps(record, record')
<1>1. admitted \in Nat /\ Good(record, admitted, circuit)
  BY DEF IInv
<1>2. /\ {"running", "checking", "returned", "gone"} \subseteq PCs \ {"unused", "pending"}
      /\ {"committed", "cancelled", "discarded", "unavailable", "failed"} \subseteq Outcomes \ {"none"}
  BY DEF PCs, Outcomes
<1>3. circuit \in CircuitType /\ Wellformed(record, admitted) /\ record[r].pc \in PCs
  BY <1>1 DEF Good, Wellformed, RecordType
<1>4. CASE CancelWork(r)
  <2> DEFINE pc == IF record[r].pc = "pending" THEN "gone" ELSE record[r].pc
  <2>1. /\ Finish(r, pc, "cancelled", circuit) /\ admitted' = admitted /\ record[r].pc # "unused"
    BY <1>4 DEF CancelWork, Live, LiveIn
  <2>2. pc \in PCs \ {"unused", "pending"}
    BY <1>2, <1>3, <2>1
  <2> HIDE DEF pc
  <2> QED BY <1>1, <1>2, <2>1, <2>2, FinishGood DEF IInv
<1>5. CASE RunReturns(r)
  <2> DEFINE pc == IF Live(r) THEN "checking" ELSE "returned"
  <2>1. record' = Moved(record, r, pc) /\ admitted' = admitted /\ circuit' = circuit /\ ~(r > admitted)
    BY <1>3, <1>5 DEF RunReturns, Wellformed
  <2>2. pc \in PCs \ {"unused", "pending"}
    BY <1>2
  <2> HIDE DEF pc
  <2>3. /\ Wellformed(record', admitted)
        /\ \A q \in Records : /\ record'[q].work = record[q].work
                              /\ record'[q].outcome = record[q].outcome
                              /\ LiveIn(record', q) <=> LiveIn(record, q)
    BY <1>1, <1>3, <2>1, <2>2, MovedStep
  <2> QED BY <1>1, <2>1, <2>3, SameLiveGood DEF IInv
<1>6. CASE RunFailsTransiently(r)
  <2> DEFINE after == IF IsOptional(r) THEN OnFailure ELSE circuit
  <2>1. after \in CircuitType /\ (record[r].work \in Optional => after.state # "half-open")
        /\ (after.state = "half-open" => circuit.state = "half-open")
    BY <1>3, BoundsAssumption DEF CircuitType, OnFailure, IsOptional
  <2>2. Good(record, admitted, after)
    BY <1>1, <2>1 DEF Good, Probed
  <2>3. /\ admitted' = admitted /\ record[r].pc # "unused" /\ ~(r > admitted)
        /\ \/ record' = Attempted(record, r) /\ circuit' = after
           \/ Finish(r, "returned", "unavailable", after)
    BY <1>3, <1>6 DEF RunFailsTransiently, Wellformed
  <2> HIDE DEF after
  <2>4. CASE record' = Attempted(record, r) /\ circuit' = after
    <3>1. /\ Wellformed(record', admitted)
          /\ \A q \in Records : /\ record'[q].work = record[q].work
                                /\ record'[q].outcome = record[q].outcome
                                /\ LiveIn(record', q) <=> LiveIn(record, q)
      BY <1>1, <1>3, <2>3, <2>4, AttemptedStep
    <3> QED BY <1>1, <2>2, <2>3, <2>4, <3>1, SameLiveGood DEF IInv
  <2>5. CASE Finish(r, "returned", "unavailable", after)
    BY <1>1, <1>2, <2>1, <2>2, <2>3, <2>5, FinishGood DEF IInv
  <2> QED BY <2>3, <2>4, <2>5
<1>7. CASE RunFails(r)
  <2>1. Finish(r, "returned", "failed", circuit) /\ admitted' = admitted /\ record[r].pc # "unused"
    BY <1>7 DEF RunFails
  <2> QED BY <1>1, <1>2, <2>1, FinishGood DEF IInv
<1>8. CASE CheckStale(r)
  <2>1. Finish(r, "returned", "discarded", circuit) /\ admitted' = admitted /\ record[r].pc # "unused"
    BY <1>8 DEF CheckStale
  <2> QED BY <1>1, <1>2, <2>1, FinishGood DEF IInv
<1>9. CASE CheckCurrent(r)
  <2> DEFINE after == IF IsOptional(r) THEN OnSuccess ELSE circuit
  <2>1. after \in CircuitType /\ (record[r].work \in Optional => after.state # "half-open")
        /\ (after.state = "half-open" => circuit.state = "half-open")
    BY <1>3 DEF CircuitType, OnSuccess, IsOptional
  <2>2. Good(record, admitted, after)
    BY <1>1, <2>1 DEF Good, Probed
  <2>3. Finish(r, "returned", "committed", after) /\ admitted' = admitted /\ record[r].pc # "unused"
    BY <1>9 DEF CheckCurrent
  <2> HIDE DEF after
  <2> QED BY <1>1, <1>2, <2>1, <2>2, <2>3, FinishGood DEF IInv
<1>10. CASE Release(r)
  <2>1. Pump(Moved(record, r, "gone"), terminal, circuit) /\ admitted' = admitted /\ ~(r > admitted)
    BY <1>3, <1>10 DEF Release, Wellformed
  <2> DEFINE new == Moved(record, r, "gone")
  <2>2. /\ Wellformed(new, admitted)
        /\ \A q \in Records : /\ new[q].work = record[q].work
                              /\ new[q].outcome = record[q].outcome
                              /\ LiveIn(new, q) <=> LiveIn(record, q)
    BY <1>1, <1>2, <1>3, <2>1, MovedStep
  <2> HIDE DEF new
  <2>3. Good(new, admitted, circuit) /\ Keeps(record, new)
    BY <1>1, <2>2, SameLiveGood
  <2>4. Good(record', admitted, circuit') /\ Keeps(new, record')
    BY <1>1, <2>1, <2>3, PumpGood DEF new
  <2> QED BY <1>1, <2>1, <2>3, <2>4 DEF IInv, Keeps
<1> QED BY <1>4, <1>5, <1>6, <1>7, <1>8, <1>9, <1>10 DEF Continue

\* Every step keeps the invariant and every outcome there is.
LEMMA NextIInv == IInv /\ [Next]_vars => IInv' /\ Keeps(record, record')
<1> SUFFICES ASSUME IInv, [Next]_vars PROVE IInv' /\ Keeps(record, record')
  OBVIOUS
<1>1. CASE UNCHANGED <<admitted, record, circuit>>
  BY <1>1 DEF IInv, Good, Wellformed, OneLive, Probed, LiveIn, Keeps
<1>2. ASSUME NEW work \in Works, TurnAway(work) PROVE IInv' /\ Keeps(record, record')
  BY <1>1, <1>2 DEF TurnAway
<1>3. ASSUME NEW work \in Works, ShedArrival(work) PROVE IInv' /\ Keeps(record, record')
  BY <1>3, ShedArrivalStep
<1>4. ASSUME NEW work \in Works, NEW attempt \in Replays, Admit(work, attempt)
      PROVE  IInv' /\ Keeps(record, record')
  BY <1>4, AdmitStep
<1>5. ASSUME NEW r \in Records, CancelWork(r) \/ Continue(r) PROVE IInv' /\ Keeps(record, record')
  BY <1>5, RecordStep
<1>6. CASE CoolDown
  <2>1. admitted' = admitted /\ record' = record /\ circuit \in CircuitType /\ circuit.state = "open"
    BY <1>6 DEF CoolDown, IInv, Good
  <2>2. circuit' \in CircuitType /\ circuit'.state = "open"
    BY <1>6, <2>1 DEF CoolDown, CircuitType
  <2> QED BY <2>1, <2>2 DEF IInv, Good, Probed, Keeps
<1> QED BY <1>1, <1>2, <1>3, <1>4, <1>5, <1>6 DEF Next, vars

\* The outcome of a record never changes: a cancellation is terminal and a late
\* success is rejected, for any number of works, records, slots and attempts.
THEOREM SettlesOnceThm == Spec => SettlesOnce
<1>1. IInv /\ [Next]_vars =>
        [\A r \in Records :
           record[r].outcome # "none" => record'[r].outcome = record[r].outcome]_vars
  BY NextIInv DEF Keeps
<1> QED BY <1>1, InitIInv, NextIInv, PTL DEF Spec, SettlesOnce

\* A half-open circuit always has a live optional record to decide it.
THEOREM HalfOpenHasProbeThm == Spec => []HalfOpenHasProbe
<1>1. IInv => HalfOpenHasProbe
  BY DEF IInv, Good, Probed, HalfOpenHasProbe, Live, IsOptional
<1> QED BY <1>1, InitIInv, NextIInv, PTL DEF Spec

\* No work id ever has two live records.
THEOREM OneLiveRecordThm == Spec => []OneLiveRecord
<1>1. IInv => OneLiveRecord
  BY DEF IInv, Good, OneLive, OneLiveRecord, Live
<1> QED BY <1>1, InitIInv, NextIInv, PTL DEF Spec

-----------------------------------------------------------------------------
(* Slots and queue: a step moves a record or two from one place to another, *)
(* and the pump makes up for the slot or the waiting record it leaves.      *)

At(rec, places) == {r \in Records : rec[r].pc \in places}
Slots == {"running", "checking", "returned"}
Queue == {"pending"}

Served(rec) ==
  /\ Cardinality(At(rec, Slots)) <= Concurrency
  /\ Cardinality(At(rec, Queue)) <= Capacity
  /\ At(rec, Queue) # {} => Cardinality(At(rec, Slots)) = Concurrency

\* What the pump finds: one waiting record too many for the slots in use, or
\* one slot too many for the waiting records.
Pumpable(rec) ==
  /\ Cardinality(At(rec, Slots)) <= Concurrency
  /\ Cardinality(At(rec, Queue)) <= Capacity
  /\ \/ At(rec, Queue) # {} => Cardinality(At(rec, Slots)) = Concurrency
     \/ Cardinality(At(rec, Slots)) = Concurrency - 1
     \/ Cardinality(At(rec, Queue)) = 1

LEMMA Places ==
  ASSUME NEW rec
  PROVE  ActiveIn(rec) = At(rec, Slots) /\ PendingIn(rec) = At(rec, Queue)
  BY DEF ActiveIn, PendingIn, At, Slots, Queue

\* A place is a slot, or in the queue, or neither.
LEMMA PlacesApart ==
  /\ "pending" \in Queue /\ "pending" \notin Slots
  /\ \A pc \in Slots : pc \notin Queue
  /\ \A pc \in Queue : pc = "pending"
  /\ {"gone", "unused"} \cap (Slots \cup Queue) = {}
  /\ {"running", "checking", "returned"} \subseteq Slots
  BY DEF Slots, Queue

LEMMA PlacesFinite ==
  ASSUME NEW rec, NEW places
  PROVE  IsFiniteSet(At(rec, places)) /\ Cardinality(At(rec, places)) \in Nat
<1>1. IsFiniteSet(Records)
  BY BoundsAssumption, FS_Interval DEF Records
<1>2. At(rec, places) \in SUBSET Records
  BY DEF At
<1> QED BY <1>1, <1>2, FS_Subset, FS_CardinalityType

\* One record enters the slots or the queue, or leaves them.
LEMMA OneEnters ==
  ASSUME NEW rec, NEW new, NEW places, NEW r \in Records,
         \A q \in Records \ {r} : new[q].pc = rec[q].pc,
         rec[r].pc \notin places, new[r].pc \in places
  PROVE  Cardinality(At(new, places)) = Cardinality(At(rec, places)) + 1
<1>1. At(new, places) = At(rec, places) \cup {r} /\ r \notin At(rec, places)
  BY DEF At
<1> QED BY <1>1, PlacesFinite, FS_AddElement

LEMMA OneLeaves ==
  ASSUME NEW rec, NEW new, NEW places, NEW r \in Records,
         \A q \in Records \ {r} : new[q].pc = rec[q].pc,
         rec[r].pc \in places, new[r].pc \notin places
  PROVE  Cardinality(At(new, places)) = Cardinality(At(rec, places)) - 1
<1>1. At(new, places) = At(rec, places) \ {r} /\ r \in At(rec, places)
  BY DEF At
<1> QED BY <1>1, PlacesFinite, FS_RemoveElement

LEMMA NoneMoves ==
  ASSUME NEW rec, NEW new, NEW places, NEW r \in Records,
         \A q \in Records \ {r} : new[q].pc = rec[q].pc,
         rec[r].pc \in places <=> new[r].pc \in places
  PROVE  At(new, places) = At(rec, places)
  BY DEF At

\* A record stays where it is served, or leaves the queue for good.
LEMMA StaysServed ==
  ASSUME NEW rec, Served(rec), NEW new, NEW r \in Records,
         \A q \in Records \ {r} : new[q].pc = rec[q].pc,
         \/ new[r].pc = rec[r].pc
         \/ rec[r].pc \in Slots /\ new[r].pc \in Slots
         \/ rec[r].pc = "pending" /\ new[r].pc = "gone"
         \/ rec[r].pc = "unused" /\ new[r].pc = "gone"
  PROVE  Served(new)
<1>1. At(new, Slots) = At(rec, Slots)
  <2>1. rec[r].pc \in Slots <=> new[r].pc \in Slots
    BY PlacesApart
  <2> QED BY <2>1, NoneMoves
<1>2. /\ Cardinality(At(rec, Queue)) \in Nat /\ Cardinality(At(new, Queue)) \in Nat
  BY PlacesFinite
<1>3. \/ At(new, Queue) = At(rec, Queue)
      \/ /\ Cardinality(At(new, Queue)) = Cardinality(At(rec, Queue)) - 1
         /\ rec[r].pc = "pending"
  <2>1. CASE rec[r].pc \in Queue <=> new[r].pc \in Queue
    BY <2>1, NoneMoves
  <2>2. CASE rec[r].pc = "pending" /\ new[r].pc = "gone"
    <3>1. rec[r].pc \in Queue /\ new[r].pc \notin Queue
      BY <2>2, PlacesApart
    <3> QED BY <2>2, <3>1, OneLeaves
  <2> QED BY <2>1, <2>2, PlacesApart
<1>4. rec[r].pc = "pending" => At(rec, Queue) # {}
  BY PlacesApart DEF At
<1>5. Cardinality(At(new, Queue)) <= Capacity
  BY <1>2, <1>3, BoundsAssumption DEF Served
<1>6. At(new, Queue) # {} => At(rec, Queue) # {}
  BY <1>3, <1>4
<1> QED BY <1>1, <1>5, <1>6 DEF Served

\* The pump fills the slot.
LEMMA PumpServes ==
  ASSUME NEW rec \in [Records -> RecordType], Pumpable(rec), NEW remembered, NEW breaker,
         Pump(rec, remembered, breaker)
  PROVE  Served(record')
<1> DEFINE a == Cardinality(At(rec, Slots))
           p == Cardinality(At(rec, Queue))
<1>1. a \in Nat /\ p \in Nat
  BY PlacesFinite
<1>2. CASE /\ At(rec, Queue) = {} \/ a >= Concurrency
           /\ record' = rec
  BY <1>1, <1>2, BoundsAssumption DEF Pumpable, Served
<1>3. CASE /\ a < Concurrency
           /\ \E next \in At(rec, Queue) :
                \/ record' = Attempted(rec, next)
                \/ record' = Settled(rec, next, "returned", "failed")
  <2>1. PICK next \in At(rec, Queue) :
               \/ record' = Attempted(rec, next)
               \/ record' = Settled(rec, next, "returned", "failed")
    BY <1>3
  <2>2. next \in Records /\ rec[next].pc = "pending"
    BY PlacesApart DEF At
  <2>3. /\ record'[next].pc \in Slots
        /\ \A q \in Records \ {next} : record'[q].pc = rec[q].pc
    <3>1. CASE record' = Attempted(rec, next)
      BY <2>2, <3>1, AttemptedFields DEF Slots
    <3>2. CASE record' = Settled(rec, next, "returned", "failed")
      <4>1. "returned" \in PCs /\ "failed" \in Outcomes
        BY DEF PCs, Outcomes
      <4> QED BY <2>2, <3>2, <4>1, SettledFields DEF Slots
    <3> QED BY <2>1, <3>1, <3>2
  <2>4. /\ Cardinality(At(record', Slots)) = a + 1
        /\ Cardinality(At(record', Queue)) = p - 1
    <3>1. rec[next].pc \notin Slots /\ rec[next].pc \in Queue
          /\ record'[next].pc \notin Queue
      BY <2>2, <2>3, PlacesApart
    <3>2. Cardinality(At(record', Slots)) = Cardinality(At(rec, Slots)) + 1
      BY <2>2, <2>3, <3>1, OneEnters
    <3>3. Cardinality(At(record', Queue)) = Cardinality(At(rec, Queue)) - 1
      BY <2>2, <2>3, <3>1, OneLeaves
    <3> QED BY <3>2, <3>3
  <2>5. At(record', Queue) # {} => Cardinality(At(record', Queue)) # 0
    BY PlacesFinite, FS_EmptySet
  <2> QED BY <1>1, <1>3, <2>4, <2>5, BoundsAssumption DEF Pumpable, Served
<1> QED BY <1>2, <1>3, Places DEF Pump

\* Work that is queued waits for a free slot, or for the place of its victim.
LEMMA AdmitServes ==
  ASSUME IInv, Served(record), NEW work \in Works, NEW attempt \in Replays, Admit(work, attempt)
  PROVE  Served(record')
<1> DEFINE queued == Queueing(work, attempt, "pending", "none")
           n == admitted + 1
           a == Cardinality(At(record, Slots))
           p == Cardinality(At(record, Queue))
<1>1. MayAdmit(work) /\ admitted \in Nat
  BY DEF Admit, IInv
<1>2. attempt \in Nat /\ "pending" \in PCs \ {"unused"} /\ "none" \in Outcomes
  BY BoundsAssumption DEF PCs, Outcomes
<1>3. /\ queued \in [Records -> RecordType] /\ n \in Records /\ record[n].pc = "unused"
      /\ queued[n].pc = "pending" /\ \A q \in Records \ {n} : queued[q] = record[q]
  <2>1. n \in Records /\ n > admitted
    BY <1>1, BoundsAssumption DEF MayAdmit, Records
  <2>2. record \in [Records -> RecordType] /\ record[n].pc = "unused"
    BY <2>1 DEF IInv, Good, Wellformed
  <2>3. [work |-> work, attempt |-> attempt, pc |-> "pending", outcome |-> "none"] \in RecordType
    BY <1>2 DEF RecordType
  <2> QED BY <2>1, <2>2, <2>3 DEF Queueing
<1> HIDE DEF queued, n
<1>4. /\ At(queued, Slots) = At(record, Slots)
      /\ Cardinality(At(queued, Queue)) = p + 1
  <2>1. /\ record[n].pc \notin Slots /\ record[n].pc \notin Queue
        /\ queued[n].pc \notin Slots /\ queued[n].pc \in Queue
    BY <1>3, PlacesApart
  <2>2. n \in Records /\ \A q \in Records \ {n} : queued[q].pc = record[q].pc
    BY <1>3
  <2>3. At(queued, Slots) = At(record, Slots)
    BY <2>1, <2>2, NoneMoves
  <2>4. Cardinality(At(queued, Queue)) = Cardinality(At(record, Queue)) + 1
    BY <2>1, <2>2, OneEnters
  <2> QED BY <2>3, <2>4
<1>5. a \in Nat /\ p \in Nat
  BY PlacesFinite
<1>6. p # 0 => a = Concurrency
  BY FS_EmptySet, PlacesFinite DEF Served
<1>7. Full <=> p >= Capacity
  BY Places DEF Full
<1>8. CASE ~Full /\ \E remembered : Pump(queued, remembered, Entered(work))
  <2>1. Pumpable(queued)
    BY <1>4, <1>5, <1>6, <1>7, <1>8, BoundsAssumption DEF Served, Pumpable
  <2> QED BY <1>3, <1>8, <2>1, PumpServes
<1>9. CASE Full /\ \E v \in Outranked(work) : \E remembered :
             Pump(Settled(queued, v, "gone", "shed"), remembered,
                  OnFinish(Entered(work), record[v].work, "shed"))
  <2>1. PICK v \in Outranked(work) : \E remembered :
             Pump(Settled(queued, v, "gone", "shed"), remembered,
                  OnFinish(Entered(work), record[v].work, "shed"))
    BY <1>9
  <2> DEFINE new == Settled(queued, v, "gone", "shed")
  <2>2. v \in Records /\ record[v].pc = "pending"
    BY DEF Outranked, Victims, PendingIn
  <2>3. queued[v].pc = "pending"
    BY <1>3, <2>2
  <2>4. "gone" \in PCs /\ "shed" \in Outcomes
    BY DEF PCs, Outcomes
  <2>5. /\ new \in [Records -> RecordType] /\ new[v].pc = "gone"
        /\ \A q \in Records \ {v} : new[q] = queued[q]
    BY <1>3, <2>2, <2>4, SettledFields
  <2> HIDE DEF new
  <2>6. /\ At(new, Slots) = At(queued, Slots)
        /\ Cardinality(At(new, Queue)) = Cardinality(At(queued, Queue)) - 1
    <3>1. /\ queued[v].pc \notin Slots /\ queued[v].pc \in Queue
          /\ new[v].pc \notin Slots /\ new[v].pc \notin Queue
      BY <2>3, <2>5, PlacesApart
    <3>2. v \in Records /\ \A q \in Records \ {v} : new[q].pc = queued[q].pc
      BY <2>2, <2>5
    <3>3. At(new, Slots) = At(queued, Slots)
      BY <3>1, <3>2, NoneMoves
    <3>4. Cardinality(At(new, Queue)) = Cardinality(At(queued, Queue)) - 1
      BY <3>1, <3>2, OneLeaves
    <3> QED BY <3>3, <3>4
  <2>7. Pumpable(new)
    BY <1>4, <1>5, <1>6, <1>7, <1>9, <2>6, BoundsAssumption DEF Served, Pumpable
  <2> QED BY <2>1, <2>5, <2>7, PumpServes DEF new
<1>10. \/ ~Full /\ \E remembered : Pump(queued, remembered, Entered(work))
       \/ Full /\ \E v \in Outranked(work) : \E remembered :
             Pump(Settled(queued, v, "gone", "shed"), remembered,
                  OnFinish(Entered(work), record[v].work, "shed"))
  BY DEF Admit, Queueing, queued, n
<1> QED BY <1>8, <1>9, <1>10

\* Settling or not, a record ends up where it is said to.
LEMMA FinishPlaces ==
  ASSUME record \in [Records -> RecordType], NEW r \in Records, NEW pc \in PCs,
         NEW outcome \in Outcomes, NEW before, Finish(r, pc, outcome, before)
  PROVE  record'[r].pc = pc /\ \A q \in Records \ {r} : record'[q] = record[q]
<1>1. record' = Settled(record, r, pc, outcome) \/ record' = Moved(record, r, pc)
  BY DEF Finish
<1> QED BY <1>1, SettledFields, MovedFields

\* Every step serves the queue.
LEMMA NextServes ==
  ASSUME IInv, Served(record), [Next]_vars
  PROVE  Served(record')
<1>1. /\ record \in [Records -> RecordType] /\ \A r \in Records : record[r].pc \in PCs
      /\ {"checking", "returned", "gone"} \subseteq PCs
      /\ {"committed", "cancelled", "discarded", "unavailable", "failed", "shed"} \subseteq Outcomes
  BY DEF IInv, Good, Wellformed, RecordType, PCs, Outcomes
<1>2. CASE UNCHANGED record
  BY <1>2
<1>3. ASSUME NEW work \in Works, ShedArrival(work)
      PROVE  Served(record')
  <2> DEFINE n == admitted + 1
  <2>1. n \in Records /\ record[n].pc = "unused"
    <3>1. n \in Records /\ n > admitted
      BY <1>3, BoundsAssumption DEF ShedArrival, MayAdmit, Records, IInv
    <3> QED BY <3>1 DEF IInv, Good, Wellformed
  <2>2. record'[n].pc = "gone" /\ \A q \in Records \ {n} : record'[q] = record[q]
    BY <1>1, <1>3, <2>1 DEF ShedArrival
  <2> HIDE DEF n
  <2> QED BY <2>1, <2>2, StaysServed
<1>4. ASSUME NEW work \in Works, NEW attempt \in Replays, Admit(work, attempt)
      PROVE  Served(record')
  BY <1>4, AdmitServes
<1>5. ASSUME NEW r \in Records, CancelWork(r)
      PROVE  Served(record')
  <2> DEFINE pc == IF record[r].pc = "pending" THEN "gone" ELSE record[r].pc
  <2>1. Finish(r, pc, "cancelled", circuit) /\ pc \in PCs
    BY <1>1, <1>5 DEF CancelWork
  <2>2. record'[r].pc = pc /\ \A q \in Records \ {r} : record'[q] = record[q]
    BY <1>1, <2>1, FinishPlaces
  <2> QED BY <2>2, StaysServed
<1>6. ASSUME NEW r \in Records, RunReturns(r)
      PROVE  Served(record')
  <2> DEFINE pc == IF Live(r) THEN "checking" ELSE "returned"
  <2>1. /\ record[r].pc = "running" /\ record' = Moved(record, r, pc)
        /\ pc \in PCs /\ pc \in Slots
    BY <1>1, <1>6 DEF RunReturns, Slots
  <2> HIDE DEF pc
  <2>2. record'[r].pc = pc /\ \A q \in Records \ {r} : record'[q] = record[q]
    BY <1>1, <2>1, MovedFields
  <2> QED BY <2>1, <2>2, StaysServed DEF Slots
<1>7. ASSUME NEW r \in Records, NEW outcome \in Outcomes, NEW before,
             record[r].pc \in Slots, Finish(r, "returned", outcome, before)
      PROVE  Served(record')
  <2>1. record'[r].pc = "returned" /\ \A q \in Records \ {r} : record'[q] = record[q]
    BY <1>1, <1>7, FinishPlaces
  <2> QED BY <1>7, <2>1, StaysServed DEF Slots
<1>8. ASSUME NEW r \in Records, RunFailsTransiently(r)
      PROVE  Served(record')
  <2>1. CASE record' = Attempted(record, r)
    <3>1. record'[r].pc = "running" /\ \A q \in Records \ {r} : record'[q] = record[q]
      BY <1>1, <2>1, AttemptedFields
    <3> QED BY <1>8, <3>1, StaysServed DEF RunFailsTransiently
  <2>2. CASE \E after : Finish(r, "returned", "unavailable", after)
    BY <1>1, <1>7, <1>8, <2>2 DEF RunFailsTransiently, Slots
  <2> QED BY <1>8, <2>1, <2>2 DEF RunFailsTransiently
<1>9. ASSUME NEW r \in Records, RunFails(r) \/ CheckStale(r) \/ CheckCurrent(r)
      PROVE  Served(record')
  BY <1>1, <1>7, <1>9 DEF RunFails, CheckStale, CheckCurrent, Slots
<1>10. ASSUME NEW r \in Records, Release(r)
       PROVE  Served(record')
  <2> DEFINE new == Moved(record, r, "gone")
  <2>1. /\ new \in [Records -> RecordType] /\ new[r].pc = "gone"
        /\ \A q \in Records \ {r} : new[q] = record[q]
    BY <1>1, MovedFields
  <2>2. record[r].pc = "returned" /\ Pump(new, terminal, circuit)
    BY <1>10 DEF Release
  <2> HIDE DEF new
  <2>3. /\ At(new, Queue) = At(record, Queue)
        /\ Cardinality(At(new, Slots)) = Cardinality(At(record, Slots)) - 1
    <3>1. /\ record[r].pc \in Slots /\ record[r].pc \notin Queue
          /\ new[r].pc \notin Slots /\ new[r].pc \notin Queue
      BY <2>1, <2>2, PlacesApart
    <3>2. \A q \in Records \ {r} : new[q].pc = record[q].pc
      BY <2>1
    <3>3. At(new, Queue) = At(record, Queue)
      BY <3>1, <3>2, NoneMoves
    <3>4. Cardinality(At(new, Slots)) = Cardinality(At(record, Slots)) - 1
      BY <3>1, <3>2, OneLeaves
    <3> QED BY <3>3, <3>4
  <2>4. Cardinality(At(record, Slots)) \in Nat
    BY PlacesFinite
  <2>5. Pumpable(new)
    BY <2>3, <2>4, BoundsAssumption DEF Served, Pumpable
  <2> QED BY <2>1, <2>2, <2>5, PumpServes
<1> QED BY <1>2, <1>3, <1>4, <1>5, <1>6, <1>8, <1>9, <1>10
        DEF Next, vars, TurnAway, CoolDown, Continue

\* The slots are never exceeded, and none is idle while work waits, whatever is
\* cancelled, shed, exhausted or handed on (#pump), for any number of either.
THEOREM WorkConservingThm == Spec => []WorkConserving
<1>1. Init => IInv /\ Served(record)
  <2> SUFFICES ASSUME Init PROVE Served(record)
    BY InitIInv
  <2>1. At(record, Slots) = {} /\ At(record, Queue) = {}
    BY PlacesApart DEF Init, Unused, At
  <2> QED BY <2>1, FS_EmptySet, BoundsAssumption DEF Served
<1>2. IInv /\ Served(record) /\ [Next]_vars => IInv' /\ Served(record)'
  BY NextIInv, NextServes
<1>3. IInv /\ Served(record) => WorkConserving
  BY Places DEF Served, WorkConserving
<1> QED BY <1>1, <1>2, <1>3, PTL DEF Spec

-----------------------------------------------------------------------------
(* Shedding.                                                                *)

\* The pump sheds nothing and leaves every work where it is.
LEMMA PumpShedsNothing ==
  ASSUME NEW rec \in [Records -> RecordType], NEW remembered, NEW breaker,
         Pump(rec, remembered, breaker)
  PROVE  \A r \in Records : /\ record'[r].work = rec[r].work
                            /\ record'[r].outcome = "shed" => rec[r].outcome = "shed"
<1>1. CASE record' = rec
  BY <1>1
<1>2. CASE record' # rec
  <2>1. PICK next \in PendingIn(rec) :
          record' = Attempted(rec, next) \/ record' = Settled(rec, next, "returned", "failed")
    BY <1>2 DEF Pump
  <2>2. next \in Records /\ "returned" \in PCs /\ "failed" \in Outcomes
    BY DEF PendingIn, PCs, Outcomes
  <2> QED BY <2>1, <2>2, AttemptedFields, SettledFields
<1> QED BY <1>1, <1>2

\* A set of natural numbers that is not empty has a least one.
LEMMA LeastNumber ==
  ASSUME NEW T, T \subseteq Nat, T # {}
  PROVE  \E x \in T : \A y \in T : x <= y
<1> DEFINE R == OpToRel(<, Nat)
<1>0. IsWellFoundedOn(R, Nat)
  BY NatLessThanWellFounded
<1>1. \A y \in Nat, x \in Nat : <<y, x>> \in R <=> y < x
  BY DEF OpToRel
<1> HIDE DEF R
<1>2. \E x \in T : \A y \in T : ~(<<y, x>> \in R)
  BY <1>0, WFMin
<1>3. PICK x \in T : \A y \in T : ~(<<y, x>> \in R)
  BY <1>2
<1>4. \A y \in T : ~(y < x)
  BY <1>1, <1>3
<1> QED BY <1>4

\* Where optional work waits there is a victim: the lowest priority that waits has
\* one that waits the longest.
LEMMA VictimIs ==
  ASSUME IInv, NEW o \in Records, record[o].pc = "pending", IsOptional(o)
  PROVE  \E v \in Victims : RankOf(v) <= RankOf(o)
<1> DEFINE waits == {r \in PendingIn(record) : IsOptional(r)}
           ranks == {RankOf(r) : r \in waits}
<1>1. \A r \in waits : r \in Nat /\ RankOf(r) \in Nat
  BY WorksAssumption DEF PendingIn, Records, IsOptional, RankOf
<1>2. o \in waits
  BY DEF PendingIn
<1>3. ranks \subseteq Nat /\ ranks # {}
  BY <1>1, <1>2
<1>4. PICK least \in ranks : \A n \in ranks : least <= n
  BY <1>3, LeastNumber
<1> DEFINE lowest == {r \in waits : RankOf(r) = least}
<1>5. lowest \subseteq Nat /\ lowest # {}
  BY <1>1, <1>4
<1>6. PICK v \in lowest : \A n \in lowest : v <= n
  BY <1>5, LeastNumber
<1>7. v \in waits /\ RankOf(v) = least /\ \A q \in waits : least <= RankOf(q)
  BY <1>4, <1>6
<1>8. ASSUME NEW q \in waits \ {v}
      PROVE  RankOf(q) > RankOf(v) \/ (RankOf(q) = RankOf(v) /\ v < q)
  <2>1. CASE RankOf(q) = least
    <3>1. v <= q
      BY <1>6, <2>1
    <3> QED BY <1>1, <1>7, <2>1, <3>1
  <2>2. CASE RankOf(q) # least
    <3>1. least <= RankOf(q) /\ least \in Nat /\ RankOf(q) \in Nat
      BY <1>1, <1>3, <1>4, <1>7
    <3> HIDE DEF RankOf
    <3> QED BY <1>7, <2>2, <3>1
  <2> QED BY <2>1, <2>2
<1>9. v \in Victims
  BY <1>7, <1>8 DEF Victims
<1> QED BY <1>2, <1>7, <1>9

\* What one step sheds.
ShedsNone(new) == \A r \in Records : new[r].outcome = "shed" => record[r].outcome = "shed"

ShedsLowest ==
  \A r \in Records :
    record[r].outcome # "shed" /\ record'[r].outcome = "shed" =>
      /\ record'[r].work \in Optional
      /\ \A q \in PendingIn(record) :
           Rank[record[q].work] < Rank[record'[r].work] => ~IsOptional(q)

\* Work that is shed on arrival outranks nothing optional that waits.
LEMMA ArrivalSheds ==
  ASSUME IInv, NEW work \in Works, ShedArrival(work)
  PROVE  ShedsLowest
<1> DEFINE x == admitted + 1
           e == [work |-> work, attempt |-> 0, pc |-> "gone", outcome |-> "shed"]
<1>1. work \in Optional /\ Outranked(work) = {} /\ record' = [record EXCEPT ![x] = e]
  BY DEF ShedArrival
<1>2. e.work = work
  OBVIOUS
<1> HIDE DEF x, e
<1>3. \A r \in Records : record'[r] = IF r = x THEN e ELSE record[r]
  BY <1>1 DEF IInv, Good, Wellformed
<1>4. ASSUME NEW q \in PendingIn(record), Rank[record[q].work] < Rank[work], IsOptional(q)
      PROVE  FALSE
  <2>1. PICK v \in Victims : RankOf(v) <= RankOf(q)
    BY <1>4, VictimIs DEF PendingIn
  <2>2. record[v].work \in Works /\ record[q].work \in Works
    BY <1>4, WorksAssumption DEF Victims, IsOptional
  <2>3. Rank[work] > RankOf(v)
    BY <1>4, <2>1, <2>2, WorksAssumption DEF RankOf
  <2> QED BY <1>1, <2>3 DEF Outranked
<1> QED BY <1>1, <1>2, <1>3, <1>4 DEF ShedsLowest

\* Work that is queued displaces a victim, or nothing.
LEMMA AdmitSheds ==
  ASSUME IInv, NEW work \in Works, NEW attempt \in Replays, Admit(work, attempt)
  PROVE  ShedsLowest
<1> DEFINE queued == Queueing(work, attempt, "pending", "none")
           x == admitted + 1
<1>1. MayAdmit(work) /\ attempt \in Nat /\ "pending" \in PCs \ {"unused"} /\ "none" \in Outcomes
  BY BoundsAssumption DEF Admit, PCs, Outcomes
<1>2. \/ \E remembered : Pump(queued, remembered, Entered(work))
      \/ \E v \in Outranked(work) : \E remembered :
           Pump(Settled(queued, v, "gone", "shed"), remembered,
                OnFinish(Entered(work), record[v].work, "shed"))
  BY DEF Admit, Queueing
<1>3. /\ queued \in [Records -> RecordType] /\ x \in Records
      /\ \A q \in Records : LiveIn(record, q) => queued[q] = record[q]
  BY <1>1, QueueingStep DEF Wellformed
<1>4. ShedsNone(queued)
  <2>1. \A q \in Records : queued[q].outcome = "none" \/ queued[q] = record[q]
    BY <1>3 DEF Queueing, IInv, Good, Wellformed
  <2> QED BY <2>1 DEF ShedsNone
<1> HIDE DEF queued
<1>5. CASE \E remembered : Pump(queued, remembered, Entered(work))
  BY <1>3, <1>4, <1>5, PumpShedsNothing DEF ShedsLowest, ShedsNone
<1>6. ASSUME NEW v \in Outranked(work), NEW remembered,
             Pump(Settled(queued, v, "gone", "shed"), remembered,
                  OnFinish(Entered(work), record[v].work, "shed"))
      PROVE  ShedsLowest
  <2> DEFINE rest == Settled(queued, v, "gone", "shed")
  <2>1. /\ v \in Records /\ record[v].pc = "pending" /\ IsOptional(v) /\ LiveIn(record, v)
        /\ \A q \in PendingIn(record) : IsOptional(q) /\ q # v =>
             RankOf(q) > RankOf(v) \/ RankOf(q) = RankOf(v)
    BY DEF Outranked, Victims, PendingIn, IInv, Good, Wellformed, LiveIn
  <2>2. "gone" \in PCs /\ "shed" \in Outcomes
    BY DEF PCs, Outcomes
  <2>3. /\ rest \in [Records -> RecordType] /\ rest[v].work = record[v].work
        /\ \A q \in Records \ {v} : rest[q] = queued[q]
    BY <1>3, <2>1, <2>2, SettledFields
  <2> HIDE DEF rest
  <2>4. \A r \in Records : /\ record'[r].work = rest[r].work
                           /\ record'[r].outcome = "shed" => rest[r].outcome = "shed"
    BY <1>6, <2>3, PumpShedsNothing DEF rest
  <2>5. \A r \in Records : record[r].outcome # "shed" /\ record'[r].outcome = "shed" => r = v
    BY <1>4, <2>3, <2>4 DEF ShedsNone
  <2>6. \A q \in PendingIn(record) : Rank[record[q].work] < Rank[record[v].work] => ~IsOptional(q)
    <3> SUFFICES ASSUME NEW q \in PendingIn(record), IsOptional(q), RankOf(q) < RankOf(v)
                 PROVE  FALSE
      BY DEF RankOf
    <3>1. RankOf(q) \in Nat /\ RankOf(v) \in Nat
      BY <2>1, WorksAssumption DEF RankOf, IsOptional
    <3>2. q # v
      BY <3>1
    <3>3. RankOf(q) > RankOf(v) \/ RankOf(q) = RankOf(v)
      BY <2>1, <3>2
    <3> HIDE DEF RankOf
    <3> QED BY <3>1, <3>3
  <2>7. record'[v].work = record[v].work /\ record[v].work \in Optional
    BY <2>1, <2>3, <2>4 DEF IsOptional
  <2> QED BY <2>5, <2>6, <2>7 DEF ShedsLowest
<1> QED BY <1>2, <1>5, <1>6

\* The steps of one record shed nothing.
LEMMA RecordShedsNothing ==
  ASSUME IInv, NEW r \in Records, CancelWork(r) \/ Continue(r)
  PROVE  ShedsNone(record')
<1>1. record \in [Records -> RecordType] /\ {"cancelled", "unavailable", "failed", "discarded", "committed"} \subseteq Outcomes
      /\ {"gone", "returned", "checking"} \subseteq PCs /\ record[r].pc \in PCs
  BY DEF IInv, Good, Wellformed, PCs, Outcomes, RecordType
<1>2. ASSUME NEW pc \in PCs, record' = Moved(record, r, pc) PROVE ShedsNone(record')
  BY <1>1, <1>2, MovedFields DEF ShedsNone
<1>3. ASSUME NEW pc \in PCs, NEW outcome \in Outcomes \ {"shed"}, record' = Settled(record, r, pc, outcome)
      PROVE  ShedsNone(record')
  <2>1. record'[r].outcome = outcome /\ \A q \in Records \ {r} : record'[q] = record[q]
    BY <1>1, <1>3, SettledFields
  <2> QED BY <1>3, <2>1 DEF ShedsNone
<1>4. ASSUME NEW pc \in PCs, NEW outcome \in Outcomes \ {"shed"}, NEW before, Finish(r, pc, outcome, before)
      PROVE  ShedsNone(record')
  BY <1>2, <1>3, <1>4 DEF Finish
<1>5. CASE record' = Attempted(record, r)
  BY <1>1, <1>5, AttemptedFields DEF ShedsNone
<1>6. CASE Release(r)
  <2> DEFINE new == Moved(record, r, "gone")
  <2>1. new \in [Records -> RecordType] /\ \A q \in Records : new[q].outcome = record[q].outcome
    BY <1>1, MovedFields
  <2>2. Pump(new, terminal, circuit)
    BY <1>6 DEF Release
  <2> HIDE DEF new
  <2> QED BY <2>1, <2>2, PumpShedsNothing DEF ShedsNone
<1>7. CASE CancelWork(r)
  <2>1. \E pc \in PCs : Finish(r, pc, "cancelled", circuit)
    BY <1>1, <1>7 DEF CancelWork
  <2> QED BY <1>1, <1>4, <2>1
<1>8. CASE RunReturns(r)
  <2>1. \E pc \in PCs : record' = Moved(record, r, pc)
    BY <1>1, <1>8 DEF RunReturns
  <2> QED BY <1>2, <2>1
<1>9. CASE RunFailsTransiently(r)
  <2>1. record' = Attempted(record, r) \/ \E before : Finish(r, "returned", "unavailable", before)
    BY <1>9 DEF RunFailsTransiently
  <2> QED BY <1>1, <1>4, <1>5, <2>1
<1>10. CASE RunFails(r) \/ CheckStale(r) \/ CheckCurrent(r)
  <2>1. \E outcome \in {"failed", "discarded", "committed"} : \E before : Finish(r, "returned", outcome, before)
    BY <1>10 DEF RunFails, CheckStale, CheckCurrent
  <2> QED BY <1>1, <1>4, <2>1
<1> QED BY <1>6, <1>7, <1>8, <1>9, <1>10 DEF Continue

\* Only optional work is shed, and of what waits nothing optional of a lower priority is
\* kept, for any number of works, priorities and places.
THEOREM ShedsLowestFirstThm == Spec => ShedsLowestFirst
<1>1. IInv /\ [Next]_vars =>
        [\A r \in Records :
           record[r].outcome # "shed" /\ record'[r].outcome = "shed" =>
             /\ record'[r].work \in Optional
             /\ \A q \in PendingIn(record) :
                  Rank[record[q].work] < Rank[record'[r].work] => ~IsOptional(q)]_vars
  <2> SUFFICES ASSUME IInv, Next PROVE ShedsLowest
    BY DEF ShedsLowest
  <2>1. CASE UNCHANGED record
    BY <2>1 DEF ShedsLowest
  <2>2. ASSUME NEW work \in Works, TurnAway(work) PROVE ShedsLowest
    BY <2>1, <2>2 DEF TurnAway
  <2>3. ASSUME NEW r \in Records, CancelWork(r) \/ Continue(r) PROVE ShedsLowest
    BY <2>3, RecordShedsNothing DEF ShedsLowest, ShedsNone
  <2>4. CASE CoolDown
    BY <2>1, <2>4 DEF CoolDown
  <2> QED BY <2>2, <2>3, <2>4, ArrivalSheds, AdmitSheds DEF Next
<1> QED BY <1>1, InitIInv, NextIInv, PTL DEF Spec, ShedsLowestFirst

-----------------------------------------------------------------------------
(* The synchronization service.                                              *)

CallKinds ==
  {"connect", "sync", "alarm", "resolve", "disconnect", "restore", "schedule", "delete", "start"}

CallType ==
  [kind : CallKinds, pc : Outside \cup Inside \cup SettledPcs, seen : Connections,
   aborted : BOOLEAN, attempt : Nat, behind : Calls \cup {None}]

\* Where the calls are that are made while synchronization is off, and where among them
\* only the deletion of the remote object can be.
QuietPcs ==
  SettledPcs \cup {"new", "readConnection", "readLocal", "waiting", "attached", "cancel", "restore",
                   "save", "clearAlarm", "readStatus", "createAlarm", "deletion", "refuse", "leave"}
DeletePcs == {"readLocal", "waiting", "attached", "deletion", "refuse", "leave"}

QuietCall(e) == ~e.seen.enabled /\ e.pc \in QuietPcs /\ (e.pc \in DeletePcs => e.kind = "delete")

\* The lock's entry names the calls that are inside it and waiting for it.
LockLegal ==
  /\ lock \in [active : Calls \cup {None}, pending : Calls \cup {None}]
  /\ \A c \in Calls : /\ call[c].pc \in Inside <=> lock.active = c
                      /\ call[c].pc = "waiting" <=> lock.pending = c

\* The inductive invariant of the service.
SInv ==
  /\ call \in [Calls -> CallType] /\ connection \in Connections /\ LockLegal
  /\ \A c \in Calls : ~Underway(c) => ~call[c].seen.enabled
  /\ alone => ~connection.enabled /\ \A c \in Calls : QuietCall(call[c])

\* No aborted call begins a write in this step.
Pushes ==
  \A c \in Calls : call[c].pc # "inFlight" /\ call'[c].pc = "inFlight" => ~call[c].aborted

LEMMA FreshIs == Fresh \in CallType /\ ~Fresh.seen.enabled
<1> DEFINE none == [enabled |-> FALSE, schedule |-> None]
<1>1. none \in Connections /\ ~none.enabled
  BY DEF Connections
<1>2. Fresh = [kind |-> "sync", pc |-> "new", seen |-> none, aborted |-> FALSE, attempt |-> 1, behind |-> None]
  BY DEF Fresh
<1> HIDE DEF none
<1>3. "new" \in Outside \cup Inside \cup SettledPcs
  BY DEF Outside
<1> QED BY <1>1, <1>2, <1>3 DEF CallType, CallKinds

\* A call that ended, or went on outside the lock.
LEMMA EndedIs ==
  ASSUME ServiceAssumption, SInv, NEW c \in Calls, NEW pc \in (Outside \ {"waiting"}) \cup SettledPcs
  PROVE  /\ Ended(c, pc) \in CallType /\ Ended(c, pc).pc = pc /\ ~Ended(c, pc).seen.enabled
         /\ pc \notin SettledPcs => Ended(c, pc).kind = call[c].kind
<1>1. call[c] \in CallType /\ call[c].kind \in CallKinds
  BY DEF SInv, CallType
<1>2. Fresh \in CallType /\ ~Fresh.seen.enabled
  BY FreshIs
<1>3. pc \in Outside \cup Inside \cup SettledPcs
  OBVIOUS
<1> HIDE DEF Fresh
<1>4. CASE pc \in SettledPcs
  <2>1. Ended(c, pc) = [Fresh EXCEPT !.pc = pc]
    BY <1>4 DEF Ended
  <2> QED BY <1>2, <1>3, <1>4, <2>1 DEF CallType
<1>5. CASE pc \notin SettledPcs
  <2>1. Ended(c, pc) = [Fresh EXCEPT !.pc = pc, !.kind = call[c].kind]
    BY <1>5 DEF Ended
  <2> QED BY <1>1, <1>2, <1>3, <2>1 DEF CallType
<1> QED BY <1>4, <1>5

\* The call c alone takes a step, and stays outside the lock.
LEMMA OuterStep ==
  ASSUME ServiceAssumption, SInv, NEW c \in Calls, NEW e \in CallType,
         call[c].pc \notin Inside \cup {"waiting"}, e.pc \notin Inside \cup {"waiting"},
         call' = [call EXCEPT ![c] = e], UNCHANGED lock, connection' \in Connections,
         e.pc \in SettledPcs \cup {"new"} => ~e.seen.enabled,
         alone' => alone /\ ~connection'.enabled /\ QuietCall(e)
  PROVE  SInv' /\ Pushes
<1>1. /\ call' \in [Calls -> CallType] /\ call'[c] = e
      /\ \A d \in Calls \ {c} : call'[d] = call[d]
  BY DEF SInv
<1>2. LockLegal'
  BY <1>1 DEF SInv, LockLegal
<1>3. \A d \in Calls : ~Underway(d)' => ~call'[d].seen.enabled
  BY <1>1 DEF SInv, Underway
<1>4. e.pc # "inFlight"
  BY DEF Inside
<1> QED BY <1>1, <1>2, <1>3, <1>4 DEF SInv, Pushes

\* The operation of the call c takes a step inside the lock.
LEMMA InnerStep ==
  ASSUME ServiceAssumption, SInv, NEW c \in Calls, NEW pc \in Inside, NEW n \in Nat,
         call[c].pc \in Inside, UNCHANGED <<lock, alone>>, connection' \in Connections,
         call' = [call EXCEPT ![c] = [@ EXCEPT !.pc = pc, !.attempt = n]],
         pc = "inFlight" => ~call[c].aborted,
         alone => ~connection'.enabled /\ pc \in {"refuse", "leave"}
  PROVE  SInv' /\ Pushes
<1> DEFINE e == [call[c] EXCEPT !.pc = pc, !.attempt = n]
<1>1. call[c] \in CallType
  BY DEF SInv
<1>2. /\ e \in CallType /\ e.pc = pc /\ e.kind = call[c].kind /\ e.seen = call[c].seen
  BY <1>1 DEF CallType
<1>3. call' = [call EXCEPT ![c] = e]
  OBVIOUS
<1> HIDE DEF e
<1>4. /\ call' \in [Calls -> CallType] /\ call'[c] = e
      /\ \A d \in Calls \ {c} : call'[d] = call[d]
  BY <1>2, <1>3 DEF SInv
<1>5. pc # "waiting" /\ call[c].pc # "waiting"
  BY DEF Inside
<1>6. LockLegal'
  BY <1>2, <1>4, <1>5 DEF SInv, LockLegal
<1>7. \A d \in Calls : ~Underway(d)' => ~call'[d].seen.enabled
  BY <1>2, <1>4 DEF SInv, Underway, Inside, SettledPcs
<1>8. alone => QuietCall(e)
  BY <1>2 DEF QuietCall, SInv, Inside, QuietPcs, DeletePcs, SettledPcs
<1> QED BY <1>2, <1>4, <1>6, <1>7, <1>8 DEF SInv, Pushes

\* Going on within the attempt; only a deletion goes on while synchronization is off.
LEMMA GoStep ==
  ASSUME ServiceAssumption, SInv, NEW c \in Calls, NEW pc \in Inside, Go(c, pc),
         call[c].pc \in Inside, UNCHANGED <<lock, alone>>, connection' \in Connections,
         pc = "inFlight" => ~call[c].aborted,
         call[c].pc \in {"deletion", "refuse", "leave"} =>
           (alone => ~connection'.enabled) /\ pc \in {"refuse", "leave"}
  PROVE  SInv' /\ Pushes
<1>1. call[c] \in CallType
  BY DEF SInv
<1>2. /\ call[c].attempt \in Nat
      /\ [call[c] EXCEPT !.pc = pc] = [call[c] EXCEPT !.pc = pc, !.attempt = call[c].attempt]
  BY <1>1 DEF CallType
<1>3. call' = [call EXCEPT ![c] = [@ EXCEPT !.pc = pc, !.attempt = call[c].attempt]]
  BY <1>2 DEF Go
<1>4. alone => call[c].pc \in {"deletion", "refuse", "leave"}
  BY DEF SInv, QuietCall, QuietPcs, SettledPcs, Inside
<1> QED BY <1>2, <1>3, <1>4, InnerStep

\* The call c takes the lock, waits for it or joins the one that waits.
LEMMA RunStep ==
  ASSUME ServiceAssumption, SInv, NEW c \in Calls, call[c].pc \in {"readLocal", "readDraft"}, Run(c),
         UNCHANGED alone
  PROVE  SInv' /\ Pushes
<1>1. call[c] \in CallType /\ call[c].seen \in Connections /\ call[c].attempt \in Nat
  BY DEF SInv, CallType
<1>2. call[c].pc \notin Inside \cup {"waiting", "attached"} /\ lock.active # c /\ lock.pending # c
  BY DEF SInv, LockLegal, Inside
<1>3. alone => call[c].kind = "delete"
  BY DEF SInv, QuietCall, QuietPcs, DeletePcs, SettledPcs
<1>4. None \notin Calls
  BY DEF ServiceAssumption
<1>5. ASSUME NEW e \in CallType, call' = [call EXCEPT ![c] = e], e.seen = call[c].seen,
             e.kind = call[c].kind, e.pc \in {"provider", "adopt", "deletion", "waiting", "attached"},
             alone => e.pc \in {"deletion", "waiting", "attached"} /\ UNCHANGED connection,
             connection' \in Connections,
             LockLegal'
      PROVE  SInv' /\ Pushes
  <2>1. /\ call' \in [Calls -> CallType] /\ call'[c] = e
        /\ \A d \in Calls \ {c} : call'[d] = call[d]
    BY <1>5 DEF SInv
  <2>2. \A d \in Calls : ~Underway(d)' => ~call'[d].seen.enabled
    BY <1>5, <2>1 DEF SInv, Underway, SettledPcs
  <2>3. alone => QuietCall(e)
    BY <1>3, <1>5 DEF QuietCall, SInv, QuietPcs, DeletePcs, SettledPcs
  <2> QED BY <1>5, <2>1, <2>2, <2>3 DEF SInv, Pushes
<1>6. CASE lock.active = None /\ lock' = [lock EXCEPT !.active = c] /\ Go(c, FirstStep(c)) /\ Starts(c)
  <2> DEFINE e == [call[c] EXCEPT !.pc = FirstStep(c)]
  <2>1. /\ FirstStep(c) \in {"provider", "adopt", "deletion"} /\ FirstStep(c) \in Inside
        /\ call[c].kind = "delete" => FirstStep(c) = "deletion"
    BY DEF FirstStep, Inside
  <2>2. e \in CallType /\ e.pc = FirstStep(c) /\ e.seen = call[c].seen /\ e.kind = call[c].kind
    BY <1>1, <2>1 DEF CallType
  <2>3. call' = [call EXCEPT ![c] = e]
    BY <1>6 DEF Go
  <2>4. connection' \in Connections /\ (alone => UNCHANGED connection)
    BY <1>1, <1>3, <1>6 DEF Starts, IsSync, Save, SInv
  <2> HIDE DEF e
  <2>5. lock' \in [active : Calls \cup {None}, pending : Calls \cup {None}] /\ lock'.active = c
        /\ lock'.pending = lock.pending
    BY <1>6 DEF SInv, LockLegal
  <2>6. LockLegal'
    BY <1>2, <1>4, <1>6, <2>1, <2>2, <2>3, <2>5 DEF SInv, LockLegal, Inside
  <2> QED BY <1>3, <1>5, <2>1, <2>2, <2>3, <2>4, <2>6
<1>7. CASE lock.pending = None /\ lock' = [lock EXCEPT !.pending = c] /\ Go(c, "waiting") /\ UNCHANGED connection
  <2> DEFINE e == [call[c] EXCEPT !.pc = "waiting"]
  <2>2. e \in CallType /\ e.pc = "waiting" /\ e.seen = call[c].seen /\ e.kind = call[c].kind
    BY <1>1 DEF CallType, Outside
  <2>3. call' = [call EXCEPT ![c] = e]
    BY <1>7 DEF Go
  <2> HIDE DEF e
  <2>5. lock' \in [active : Calls \cup {None}, pending : Calls \cup {None}] /\ lock'.pending = c
        /\ lock'.active = lock.active
    BY <1>7 DEF SInv, LockLegal
  <2>6. LockLegal'
    BY <1>2, <1>4, <1>7, <2>2, <2>3, <2>5 DEF SInv, LockLegal, Inside
  <2> QED BY <1>5, <1>7, <2>2, <2>3, <2>6 DEF SInv
<1>8. CASE /\ lock.pending # None /\ UNCHANGED <<connection, lock>>
           /\ call' = [call EXCEPT ![c].pc = "attached", ![c].behind = lock.pending]
  <2> DEFINE e == [call[c] EXCEPT !.pc = "attached", !.behind = lock.pending]
  <2>1. lock.pending \in Calls
    BY <1>8 DEF SInv, LockLegal
  <2>2. e \in CallType /\ e.pc = "attached" /\ e.seen = call[c].seen /\ e.kind = call[c].kind
    BY <1>1, <2>1 DEF CallType, Outside
  <2>3. call' = [call EXCEPT ![c] = e]
    BY <1>8 DEF SInv
  <2> HIDE DEF e
  <2>6. LockLegal'
    BY <1>2, <1>8, <2>2, <2>3 DEF SInv, LockLegal, Inside
  <2> QED BY <1>5, <1>8, <2>2, <2>3, <2>6 DEF SInv
<1> QED BY <1>6, <1>7, <1>8 DEF Run

\* The operation of c leaves the lock, and the one that waits begins.
LEMMA LeaveStep ==
  ASSUME ServiceAssumption, SInv, NEW c \in Calls, call[c].pc \in {"leave", "throw"}, Settle(c),
         UNCHANGED alone
  PROVE  SInv' /\ Pushes
<1> DEFINE p == lock.pending
<1>1. /\ lock.active = c /\ p # c /\ p \in Calls \cup {None} /\ None \notin Calls
      /\ (p \in Calls => call[p].pc = "waiting")
  BY DEF SInv, LockLegal, Inside, ServiceAssumption
<1>2. /\ lock' = [active |-> p, pending |-> None]
      /\ call' = [d \in Calls |->
                    IF d \in Holders(c) THEN Ended(d, Onward(c, d))
                    ELSE IF d = p THEN [call[d] EXCEPT !.pc = FirstStep(d)]
                    ELSE call[d]]
      /\ Starts(p)
  BY DEF Settle
<1> HIDE DEF p
<1>3. ASSUME NEW d \in Holders(c)
      PROVE  /\ d \in Calls /\ d # p /\ call'[d] \in CallType /\ ~call'[d].seen.enabled
             /\ call'[d].pc \in {"rejected", "done", "clearAlarm"}
  <2>1. d \in Calls /\ d # p /\ call'[d] = Ended(d, Onward(c, d))
    BY <1>1, <1>2 DEF Holders
  <2>2. Onward(c, d) \in {"rejected", "done", "clearAlarm"}
    BY DEF Onward, Returned
  <2> QED BY <2>1, <2>2, EndedIs DEF Outside, SettledPcs
<1>4. p \in Calls => /\ call'[p] \in CallType /\ call'[p].seen = call[p].seen
                     /\ call'[p].kind = call[p].kind /\ call'[p].pc = FirstStep(p)
                     /\ call'[p].pc \in {"provider", "adopt", "deletion"}
                     /\ (call[p].kind = "delete" => call'[p].pc = "deletion" /\ ~IsSync(p))
  <2>1. SUFFICES ASSUME p \in Calls PROVE <1>4!2
    OBVIOUS
  <2>2. call[p] \in CallType /\ p \notin Holders(c)
    BY <2>1, <1>3 DEF SInv
  <2>3. call'[p] = [call[p] EXCEPT !.pc = FirstStep(p)]
    BY <1>2, <2>1, <2>2
  <2>4. FirstStep(p) \in {"provider", "adopt", "deletion"} /\ (call[p].kind = "delete" => FirstStep(p) = "deletion")
    BY DEF FirstStep
  <2> QED BY <2>2, <2>3, <2>4 DEF CallType, Inside, IsSync
<1>5. \A d \in Calls : d \notin Holders(c) /\ d # p => call'[d] = call[d]
  BY <1>2
<1>6. c \in Holders(c)
  BY DEF Holders
<1>7. call' = [d \in Calls |-> call'[d]]
  BY <1>2
<1>8. call' \in [Calls -> CallType]
  BY <1>3, <1>4, <1>5, <1>7 DEF SInv
<1>9. LockLegal'
  <2>1. lock'.active = p /\ lock'.pending = None
        /\ lock' \in [active : Calls \cup {None}, pending : Calls \cup {None}]
    BY <1>1, <1>2
  <2>2. ASSUME NEW d \in Calls
        PROVE  (call'[d].pc \in Inside <=> d = p) /\ call'[d].pc # "waiting"
    <3>1. CASE d \in Holders(c)
      BY <1>3, <3>1 DEF Inside
    <3>2. CASE d = p
      BY <1>4, <3>2 DEF Inside
    <3>3. CASE d \notin Holders(c) /\ d # p
      BY <1>1, <1>5, <1>6, <3>3 DEF SInv, LockLegal, p
    <3> QED BY <3>1, <3>2, <3>3
  <2> QED BY <1>1, <2>1, <2>2 DEF LockLegal
<1>10. connection' \in Connections
  BY <1>1, <1>2 DEF SInv, Starts, Save, CallType
<1>11. \A d \in Calls : ~Underway(d)' => ~call'[d].seen.enabled
  BY <1>3, <1>4, <1>5 DEF SInv, Underway, SettledPcs
<1>12. ASSUME alone PROVE ~connection'.enabled /\ \A d \in Calls : QuietCall(call'[d])
  <2>1. p \in Calls => call[p].kind = "delete"
    BY <1>1, <1>12 DEF SInv, QuietCall, DeletePcs
  <2>2. ~connection'.enabled
    BY <1>2, <1>4, <1>12, <2>1, <1>1 DEF Starts, SInv
  <2>3. ASSUME NEW d \in Calls PROVE QuietCall(call'[d])
    <3>1. CASE d \in Holders(c)
      BY <1>3, <3>1 DEF QuietCall, QuietPcs, DeletePcs, SettledPcs
    <3>2. CASE d = p
      BY <1>4, <1>12, <2>1, <3>2 DEF SInv, QuietCall, QuietPcs, DeletePcs
    <3>3. CASE d \notin Holders(c) /\ d # p
      BY <1>5, <1>12, <3>3 DEF SInv
    <3> QED BY <3>1, <3>2, <3>3
  <2> QED BY <2>2, <2>3
<1>13. Pushes
  BY <1>3, <1>4, <1>5 DEF Pushes
<1> QED BY <1>8, <1>9, <1>10, <1>11, <1>12, <1>13 DEF SInv

\* The lock as a cancellation and a restart leave it.
LEMMA DisconnectStep ==
  ASSUME ServiceAssumption, SInv, NEW c \in Calls, Disconnect(c)
  PROVE  SInv' /\ Pushes
<1> DEFINE pc == IF call[c].kind = "restore" THEN "restore" ELSE "clearAlarm"
           p == lock.pending
           a == lock.active
<1>1. /\ call[c].pc = "cancel" /\ p \in Calls \cup {None} /\ None \notin Calls /\ p # c /\ a # c
      /\ \A d \in Calls : (call[d].pc = "waiting" <=> d = p) /\ (call[d].pc \in Inside <=> d = a)
  BY DEF SInv, LockLegal, Inside, ServiceAssumption, Disconnect
<1>2. /\ lock' = [lock EXCEPT !.pending = None] /\ connection' = [call[c].seen EXCEPT !.enabled = FALSE]
      /\ call' = [d \in Calls |->
                    IF d = c THEN Ended(d, pc)
                    ELSE IF d = a THEN [call[d] EXCEPT !.aborted = TRUE]
                    ELSE IF p # None /\ d \in Holders(p) THEN Ended(d, "rejected")
                    ELSE call[d]]
      /\ alone' = (alone \/ \A d \in Calls \ {c} : ~Underway(d))
  BY DEF Disconnect, Cancel, Save
<1>3. call[c] \in CallType /\ call[c].seen \in Connections
  BY DEF SInv, CallType
<1>4. pc \in {"restore", "clearAlarm"}
  OBVIOUS
<1> HIDE DEF pc, p, a
<1>5. /\ call'[c] \in CallType /\ ~call'[c].seen.enabled /\ call'[c].pc = pc
  BY <1>2, <1>4, EndedIs DEF Outside, SettledPcs
<1>6. ASSUME NEW d \in Calls \ {c}
      PROVE  /\ call'[d] \in CallType /\ call'[d].pc \in {call[d].pc, "rejected"}
             /\ call'[d].pc \in Inside <=> call[d].pc \in Inside
             /\ call'[d].pc # "waiting"
             /\ \/ call'[d].seen = call[d].seen /\ call'[d].pc = call[d].pc
                \/ ~call'[d].seen.enabled
             /\ call'[d].kind = call[d].kind \/ call'[d].pc = "rejected"
  <2>1. call[d] \in CallType
    BY DEF SInv
  <2>2. CASE d = a
    <3>1. call'[d] = [call[d] EXCEPT !.aborted = TRUE] /\ call[d].pc \in Inside
      BY <1>1, <1>2, <2>2
    <3> QED BY <2>1, <3>1 DEF CallType, Inside
  <2>3. CASE d # a /\ p # None /\ d \in Holders(p)
    <3>1. call'[d] = Ended(d, "rejected") /\ call[d].pc \notin Inside
      BY <1>1, <1>2, <2>3
    <3> QED BY <3>1, EndedIs DEF SettledPcs, Inside
  <2>4. CASE d # a /\ ~(p # None /\ d \in Holders(p))
    <3>1. call'[d] = call[d]
      BY <1>2, <2>4
    <3>2. call[d].pc # "waiting"
      BY <1>1, <2>4 DEF Holders
    <3> QED BY <2>1, <3>1, <3>2
  <2> QED BY <2>2, <2>3, <2>4
<1>7. call' \in [Calls -> CallType]
  <2>1. \A d \in Calls : call'[d] \in CallType
    BY <1>5, <1>6
  <2>2. call' = [d \in Calls |-> call'[d]]
    BY <1>2
  <2> QED BY <2>1, <2>2
<1>8. LockLegal'
  <2>1. lock' \in [active : Calls \cup {None}, pending : Calls \cup {None}] /\ lock'.active = a
        /\ lock'.pending = None
    BY <1>2 DEF SInv, LockLegal, a
  <2> QED BY <1>1, <1>4, <1>5, <1>6, <2>1 DEF LockLegal, Inside
<1>9. connection' \in Connections /\ ~connection'.enabled
  BY <1>2, <1>3 DEF Connections
<1>10. \A d \in Calls : ~Underway(d)' => ~call'[d].seen.enabled
  BY <1>4, <1>5, <1>6 DEF SInv, Underway, SettledPcs
<1>11. ASSUME alone' PROVE \A d \in Calls : QuietCall(call'[d])
  <2>1. QuietCall(call'[c])
    BY <1>4, <1>5 DEF QuietCall, QuietPcs, DeletePcs
  <2>2. ASSUME NEW d \in Calls \ {c} PROVE QuietCall(call'[d])
    <3>1. QuietCall(call[d])
      BY <1>2, <1>11 DEF SInv, Underway, QuietCall, QuietPcs, DeletePcs, SettledPcs
    <3> QED BY <1>6, <3>1 DEF QuietCall, QuietPcs, DeletePcs, SettledPcs
  <2> QED BY <2>1, <2>2
<1>12. Pushes
  BY <1>4, <1>5, <1>6 DEF Pushes
<1> QED BY <1>7, <1>8, <1>9, <1>10, <1>11, <1>12 DEF SInv

LEMMA RestartStep ==
  ASSUME ServiceAssumption, SInv, NEW c \in Calls, Restart(c)
  PROVE  SInv' /\ Pushes
<1> DEFINE e == [Fresh EXCEPT !.kind = "start", !.pc = "clearAlarm"]
<1>1. e \in CallType /\ ~e.seen.enabled /\ e.pc = "clearAlarm"
  BY FreshIs DEF CallType, CallKinds, Outside
<1>2. /\ lock' = [active |-> None, pending |-> None] /\ UNCHANGED <<connection, alone>>
      /\ call' = [d \in Calls |-> IF d = c THEN e ELSE IF Underway(d) THEN Ended(d, "lost") ELSE call[d]]
  BY DEF Restart
<1> HIDE DEF e
<1>3. ASSUME NEW d \in Calls \ {c}
      PROVE  /\ call'[d] \in CallType /\ ~call'[d].seen.enabled /\ call'[d].pc \in SettledPcs \cup {"new"}
  BY <1>2, EndedIs DEF SInv, Underway, SettledPcs
<1>4. call' \in [Calls -> CallType]
  <2>1. \A d \in Calls : call'[d] \in CallType
    BY <1>1, <1>2, <1>3
  <2> QED BY <1>2, <2>1
<1>5. LockLegal'
  BY <1>1, <1>2, <1>3 DEF LockLegal, Inside, SettledPcs, ServiceAssumption
<1>6. \A d \in Calls : ~Underway(d)' => ~call'[d].seen.enabled
  BY <1>1, <1>2, <1>3
<1>7. \A d \in Calls : QuietCall(call'[d])
  BY <1>1, <1>2, <1>3 DEF QuietCall, QuietPcs, DeletePcs, SettledPcs
<1>8. Pushes
  BY <1>1, <1>2, <1>3 DEF Pushes, SettledPcs
<1> QED BY <1>2, <1>4, <1>5, <1>6, <1>7, <1>8 DEF SInv

\* A call c that ends, or goes on outside the lock.
LEMMA EndStep ==
  ASSUME ServiceAssumption, SInv, NEW c \in Calls,
         NEW pc \in (Outside \ {"waiting", "new"}) \cup SettledPcs,
         End(c, pc), call[c].pc \notin Inside \cup {"waiting"}, UNCHANGED <<lock, alone>>,
         connection' \in Connections,
         alone => ~connection'.enabled /\ pc \in SettledPcs \cup {"clearAlarm"}
  PROVE  SInv' /\ Pushes
<1>1. /\ Ended(c, pc) \in CallType /\ Ended(c, pc).pc = pc /\ ~Ended(c, pc).seen.enabled
  BY EndedIs
<1>2. pc \notin Inside \cup {"waiting"} /\ call' = [call EXCEPT ![c] = Ended(c, pc)]
  BY DEF End, Inside, Outside, SettledPcs
<1>3. alone => QuietCall(Ended(c, pc))
  BY <1>1 DEF QuietCall, QuietPcs, DeletePcs, SettledPcs
<1> QED BY <1>1, <1>2, <1>3, OuterStep

\* A call c that is outside the lock goes on with what it has read.
LEMMA KeepStep ==
  ASSUME ServiceAssumption, SInv, NEW c \in Calls, NEW seen \in Connections,
         NEW pc \in Outside \ {"waiting", "new"},
         call' = [call EXCEPT ![c] = [@ EXCEPT !.pc = pc, !.seen = seen]],
         call[c].pc \notin Inside \cup {"waiting"}, UNCHANGED <<lock, alone>>,
         connection' \in Connections,
         alone => /\ ~connection'.enabled /\ ~seen.enabled /\ pc \in QuietPcs
                  /\ pc \in DeletePcs => call[c].kind = "delete"
  PROVE  SInv' /\ Pushes
<1> DEFINE e == [call[c] EXCEPT !.pc = pc, !.seen = seen]
<1>1. call[c] \in CallType
  BY DEF SInv
<1>2. e \in CallType /\ e.pc = pc /\ e.seen = seen /\ e.kind = call[c].kind
  BY <1>1 DEF CallType
<1>3. call' = [call EXCEPT ![c] = e]
  OBVIOUS
<1> HIDE DEF e
<1>4. pc \notin Inside \cup SettledPcs \cup {"waiting", "new"}
  BY DEF Inside, Outside, SettledPcs
<1>5. alone => QuietCall(e)
  BY <1>2 DEF QuietCall
<1> QED BY <1>2, <1>3, <1>4, <1>5, OuterStep

\* The steps of a call outside the lock.
LEMMA OutsideSteps ==
  ASSUME ServiceAssumption, SInv, NEW c \in Calls,
         \/ Invoke(c) \/ ReadConnection(c) \/ SaveConnecting(c) \/ RestoreRecovery(c)
         \/ UpdateSchedule(c) \/ ClearAlarm(c) \/ ReadStatus(c) \/ CreateAlarm(c) \/ Resume(c)
  PROVE  SInv' /\ Pushes
<1>1. /\ call[c] \in CallType /\ call[c].seen \in Connections /\ call[c].kind \in CallKinds
      /\ connection \in Connections
  BY DEF SInv, CallType
<1>2. alone => ~connection.enabled /\ ~call[c].seen.enabled /\ QuietCall(call[c])
  BY DEF SInv, QuietCall
<1>3. CASE Invoke(c)
  <2>1. PICK kind \in Kinds[c] :
          /\ call' = [call EXCEPT ![c].kind = kind,
                                 ![c].pc = IF kind = "connect" THEN "saveConnecting" ELSE "readConnection"]
          /\ IF kind = "connect" THEN alone' = FALSE ELSE UNCHANGED alone
    BY <1>3 DEF Invoke
  <2>2. /\ call[c].pc = "new" /\ UNCHANGED <<connection, lock>> /\ kind \in CallKinds
    BY <1>3 DEF Invoke, ServiceAssumption, CallKinds
  <2> DEFINE pc == IF kind = "connect" THEN "saveConnecting" ELSE "readConnection"
             e == [call[c] EXCEPT !.kind = kind, !.pc = pc]
  <2>3. pc \in {"saveConnecting", "readConnection"} /\ (kind # "connect" => pc = "readConnection")
    OBVIOUS
  <2>4. call' = [call EXCEPT ![c] = e]
    BY <2>1 DEF SInv
  <2> HIDE DEF pc
  <2>5. e \in CallType /\ e.pc = pc /\ e.seen = call[c].seen
    BY <1>1, <2>2, <2>3 DEF CallType, Outside
  <2> HIDE DEF e
  <2>6. alone' => alone /\ QuietCall(e)
    BY <1>2, <2>1, <2>3, <2>5 DEF QuietCall, QuietPcs, DeletePcs
  <2> QED BY <1>1, <1>2, <2>2, <2>3, <2>4, <2>5, <2>6, OuterStep DEF Inside, SettledPcs
<1>4. CASE ReadConnection(c)
  <2>1. call[c].pc = "readConnection" /\ UNCHANGED <<connection, lock, alone>>
    BY <1>4 DEF ReadConnection
  <2>2. \/ End(c, "done") \/ End(c, "clearAlarm")
        \/ \E pc \in {"cancel", "save", "readLocal", "readDraft"} :
             /\ call' = [call EXCEPT ![c].pc = pc, ![c].seen = connection]
             /\ pc = "readDraft" => connection.enabled
             /\ pc = "readLocal" => connection.enabled \/ call[c].kind = "delete"
    BY <1>4 DEF ReadConnection, Returned, MayRun
  <2>3. CASE End(c, "done") \/ End(c, "clearAlarm")
    BY <1>1, <1>2, <2>1, <2>3, EndStep DEF Inside, Outside, SettledPcs
  <2>4. ASSUME NEW pc \in {"cancel", "save", "readLocal", "readDraft"},
               call' = [call EXCEPT ![c].pc = pc, ![c].seen = connection],
               pc = "readDraft" => connection.enabled,
               pc = "readLocal" => connection.enabled \/ call[c].kind = "delete"
        PROVE  SInv' /\ Pushes
    <3>1. call' = [call EXCEPT ![c] = [@ EXCEPT !.pc = pc, !.seen = connection]]
      BY <2>4 DEF SInv
    <3>2. pc \in Outside \ {"waiting", "new"}
      BY DEF Outside
    <3>3. alone => pc \in QuietPcs /\ (pc \in DeletePcs => call[c].kind = "delete")
      BY <1>2, <2>4 DEF QuietPcs, DeletePcs
    <3> QED BY <1>1, <1>2, <2>1, <3>1, <3>2, <3>3, KeepStep DEF Inside
  <2> QED BY <2>2, <2>3, <2>4
<1>5. CASE SaveConnecting(c)
  <2>1. PICK minutes \in Schedules \cup {None} :
          /\ connection' = Connecting(minutes)
          /\ call' = [call EXCEPT ![c].pc = "readLocal", ![c].seen = Connecting(minutes)]
    BY <1>5 DEF SaveConnecting, Save
  <2>2. /\ call[c].pc = "saveConnecting" /\ UNCHANGED <<lock, alone>> /\ ~alone
        /\ Connecting(minutes) \in Connections
    BY <1>2, <1>5 DEF SaveConnecting, QuietCall, QuietPcs, SettledPcs, Connecting, Connections
  <2>3. call' = [call EXCEPT ![c] = [@ EXCEPT !.pc = "readLocal", !.seen = Connecting(minutes)]]
    BY <2>1 DEF SInv
  <2> QED BY <2>1, <2>2, <2>3, KeepStep DEF Inside, Outside
<1>6. CASE RestoreRecovery(c)
  <2>1. /\ call[c].pc = "restore" /\ UNCHANGED <<lock, alone>> /\ End(c, "done")
        /\ connection' = connection \/ connection' = [connection EXCEPT !.enabled = FALSE]
    BY <1>6 DEF RestoreRecovery, Save
  <2>2. connection' \in Connections /\ (alone => ~connection'.enabled)
    BY <1>1, <1>2, <2>1 DEF Connections
  <2> QED BY <2>1, <2>2, EndStep DEF Inside, Outside, SettledPcs
<1>7. CASE UpdateSchedule(c)
  <2>1. PICK minutes \in Schedules \cup {None} : connection' = [call[c].seen EXCEPT !.schedule = minutes]
    BY <1>7 DEF UpdateSchedule, Save
  <2>2. call[c].pc = "save" /\ UNCHANGED <<lock, alone>> /\ End(c, "clearAlarm")
    BY <1>7 DEF UpdateSchedule
  <2>3. connection' \in Connections /\ (alone => ~connection'.enabled)
    BY <1>1, <1>2, <2>1 DEF Connections
  <2> QED BY <2>2, <2>3, EndStep DEF Inside, Outside, SettledPcs
<1>8. CASE ClearAlarm(c) \/ ReadStatus(c)
  <2>1. PICK pc \in {"readStatus", "createAlarm"}, seen \in Connections :
          /\ call[c].pc \in {"clearAlarm", "readStatus"} /\ UNCHANGED <<connection, lock, alone>>
          /\ call' = [call EXCEPT ![c] = [@ EXCEPT !.pc = pc, !.seen = seen]]
          /\ alone => ~seen.enabled
    <3>1. CASE ClearAlarm(c)
      <4>1. [call[c] EXCEPT !.pc = "readStatus"] = [call[c] EXCEPT !.pc = "readStatus", !.seen = call[c].seen]
        BY <1>1 DEF CallType
      <4>2. call' = [call EXCEPT ![c] = [@ EXCEPT !.pc = "readStatus", !.seen = call[c].seen]]
        BY <3>1, <4>1 DEF ClearAlarm, Go
      <4> QED BY <1>1, <1>2, <3>1, <4>2 DEF ClearAlarm
    <3>2. CASE ReadStatus(c)
      <4>1. call' = [call EXCEPT ![c] = [@ EXCEPT !.pc = "createAlarm", !.seen = connection]]
        BY <3>2 DEF ReadStatus, SInv
      <4> QED BY <1>1, <1>2, <3>2, <4>1 DEF ReadStatus
    <3> QED BY <1>8, <3>1, <3>2
  <2>2. pc \in Outside \ {"waiting", "new"} /\ pc \in QuietPcs /\ pc \notin DeletePcs
    BY DEF Outside, QuietPcs, DeletePcs
  <2> QED BY <1>1, <1>2, <2>1, <2>2, KeepStep DEF Inside
<1>9. CASE CreateAlarm(c) \/ Resume(c)
  <2>1. PICK pc \in {"resume", "readConnection", "done"} :
          /\ call[c].pc \in {"createAlarm", "resume"} /\ UNCHANGED <<connection, lock, alone>>
          /\ End(c, pc) /\ (alone => pc = "done")
    BY <1>2, <1>9 DEF CreateAlarm, Resume, MayResume
  <2> QED BY <1>1, <1>2, <2>1, EndStep DEF Inside, Outside, SettledPcs
<1> QED BY <1>3, <1>4, <1>5, <1>6, <1>7, <1>8, <1>9

\* The steps of an operation inside the lock that count no attempt.
LEMMA InsideSteps ==
  ASSUME ServiceAssumption, SInv, NEW c \in Calls, NEW pc \in Inside, Go(c, pc),
         UNCHANGED <<lock, alone>>, pc = "inFlight" => ~call[c].aborted,
         \/ UNCHANGED connection /\ call[c].pc \in Inside \ {"deletion", "refuse", "leave"}
         \/ UNCHANGED connection /\ call[c].pc = "deletion" /\ pc \in {"refuse", "leave"}
         \/ connection' = call[c].seen /\ call[c].pc \in Inside \ {"deletion", "refuse", "leave"}
         \/ /\ connection' = [call[c].seen EXCEPT !.enabled = @ \/ call[c].kind = "connect"]
            /\ call[c].pc = "ready"
         \/ /\ connection' = [call[c].seen EXCEPT !.enabled = @ /\ call[c].kind = "resolve"]
            /\ call[c].pc = "refuse" /\ pc = "leave"
  PROVE  SInv' /\ Pushes
<1>1. call[c].seen \in Connections /\ connection \in Connections
  BY DEF SInv, CallType
<1>2. connection' \in Connections
  BY <1>1 DEF Connections
<1>3. call[c].pc \in Inside
  BY DEF Inside
<1>4. alone => ~connection.enabled /\ ~call[c].seen.enabled
  BY DEF SInv, QuietCall
<1>5. call[c].pc \in {"deletion", "refuse", "leave"} =>
        (alone => ~connection'.enabled) /\ pc \in {"refuse", "leave"}
  BY <1>1, <1>4 DEF Connections
<1> QED BY <1>2, <1>3, <1>5, GoStep

\* Every step keeps the invariant, and no aborted call begins a write in it.
LEMMA NextSInv ==
  ServiceAssumption /\ SInv /\ [ServiceNext]_serviceVars => SInv' /\ (Pushes \/ UNCHANGED serviceVars)
<1> SUFFICES ASSUME ServiceAssumption, SInv, [ServiceNext]_serviceVars
             PROVE  SInv' /\ (Pushes \/ UNCHANGED serviceVars)
  OBVIOUS
<1>1. CASE UNCHANGED serviceVars
  BY <1>1 DEF serviceVars, SInv, LockLegal, Underway
<1>2. ASSUME NEW c \in Calls, ContinueCall(c) PROVE SInv' /\ Pushes
  <2>1. CASE SavePulling(c) \/ SaveMerging(c) \/ SavePushing(c) \/ SaveConfirming(c)
    <3>1. /\ connection' = call[c].seen /\ UNCHANGED <<lock, alone>>
          /\ call[c].pc \in Inside \ {"deletion", "refuse", "leave"}
          /\ \E pc \in Inside \ {"inFlight"} : Go(c, pc)
      BY <2>1 DEF SavePulling, SaveMerging, SavePushing, SaveConfirming, SaveState, Save, Hold, Inside
    <3> QED BY <3>1, InsideSteps
  <2>2. CASE \/ Provider(c) \/ Open(c) \/ Unreadable(c) \/ ReadRemote(c) \/ Commit(c) \/ ConfirmBase(c) \/ Complete(c)
             \/ Adopt(c) \/ CommitResolution(c) \/ Probe(c)
    <3>1. /\ UNCHANGED <<connection, lock, alone>>
          /\ call[c].pc \in Inside \ {"deletion", "refuse", "leave"}
          /\ \E pc \in Inside \ {"inFlight"} : Go(c, pc)
      BY <2>2 DEF Provider, Open, Unreadable, ReadRemote, Commit, ConfirmBase, Complete, Adopt, CommitResolution,
                  Probe, Fail, Close, Proceed, Hold, Inside
    <3> QED BY <3>1, InsideSteps
  <2>3. CASE Push(c)
    <3>1. /\ UNCHANGED <<connection, lock, alone>> /\ call[c].pc = "push"
          /\ \E pc \in Inside : Go(c, pc) /\ (pc = "inFlight" => ~call[c].aborted)
      BY <2>3 DEF Push, MayPush, Fail, Close, Proceed, Hold, Inside
    <3> QED BY <3>1, InsideSteps DEF Inside
  <2>4. CASE PushAnswered(c) \/ Confirm(c) \/ Initialize(c)
    <3>1. /\ UNCHANGED <<connection, lock, alone>>
          /\ call[c].pc \in Inside \ {"deletion", "refuse", "leave"}
          /\ \/ \E pc \in Inside \ {"inFlight"} : Go(c, pc)
             \/ call' = [call EXCEPT ![c].pc = "pulling", ![c].attempt = @ + 1]
             \/ call' = [call EXCEPT ![c].pc = "probe", ![c].attempt = 2]
      BY <2>4 DEF PushAnswered, Confirm, Initialize, Again, Fail, Close, Proceed, Hold, Inside
    <3>2. CASE \E pc \in Inside \ {"inFlight"} : Go(c, pc)
      BY <3>1, <3>2, InsideSteps
    <3>3. CASE \/ call' = [call EXCEPT ![c].pc = "pulling", ![c].attempt = @ + 1]
               \/ call' = [call EXCEPT ![c].pc = "probe", ![c].attempt = 2]
      <4>1. call[c].attempt \in Nat /\ connection \in Connections
        BY DEF SInv, CallType
      <4>2. ~alone
        BY <3>1 DEF SInv, QuietCall, QuietPcs, SettledPcs, Inside
      <4>3. CASE call' = [call EXCEPT ![c].pc = "pulling", ![c].attempt = @ + 1]
        <5>1. PICK n \in Nat : n = call[c].attempt + 1
          BY <4>1
        <5>2. call' = [call EXCEPT ![c] = [@ EXCEPT !.pc = "pulling", !.attempt = n]]
          BY <4>3, <5>1 DEF SInv
        <5> QED BY <3>1, <4>1, <4>2, <5>2, InnerStep DEF Inside
      <4>4. CASE call' = [call EXCEPT ![c].pc = "probe", ![c].attempt = 2]
        <5>1. call' = [call EXCEPT ![c] = [@ EXCEPT !.pc = "probe", !.attempt = 2]]
          BY <4>4 DEF SInv
        <5> QED BY <3>1, <4>1, <4>2, <5>1, InnerStep DEF Inside
      <4> QED BY <3>3, <4>3, <4>4
    <3> QED BY <3>1, <3>2, <3>3
  <2>5. CASE FinishRun(c)
    <3>1. /\ connection' = connection \/ connection' = call[c].seen
          /\ call[c].pc = "finish" /\ UNCHANGED <<lock, alone>> /\ Go(c, "leave")
      BY <2>5 DEF FinishRun, Save, Hold
    <3> QED BY <3>1, InsideSteps DEF Inside
  <2>6. CASE Ready(c)
    <3>1. /\ connection' = [call[c].seen EXCEPT !.enabled = @ \/ call[c].kind = "connect"]
          /\ call[c].pc = "ready" /\ UNCHANGED <<lock, alone>> /\ Go(c, "leave")
      BY <2>6 DEF Ready, Save, Hold
    <3> QED BY <3>1, InsideSteps DEF Inside
  <2>7. CASE Refuse(c)
    <3>1. /\ connection' = [call[c].seen EXCEPT !.enabled = @ /\ call[c].kind = "resolve"]
          /\ call[c].pc = "refuse" /\ UNCHANGED <<lock, alone>> /\ Go(c, "leave")
      BY <2>7 DEF Refuse, Save, Hold
    <3> QED BY <3>1, InsideSteps DEF Inside
  <2>8. CASE DeleteRemote(c)
    <3>1. /\ UNCHANGED <<connection, lock, alone>> /\ call[c].pc = "deletion"
          /\ Go(c, "refuse") \/ Go(c, "leave")
      BY <2>8 DEF DeleteRemote, Hold
    <3> QED BY <3>1, InsideSteps DEF Inside
  <2>9. CASE ReadLocal(c)
    <3>1. call[c].pc = "readLocal" /\ UNCHANGED alone
      BY <2>9 DEF ReadLocal
    <3>2. connection \in Connections /\ (alone => ~connection.enabled)
      BY DEF SInv
    <3>3. CASE End(c, "rejected") /\ UNCHANGED <<connection, lock>>
      BY <3>1, <3>2, <3>3, EndStep DEF Inside, Outside, SettledPcs
    <3> QED BY <2>9, <3>1, <3>3, RunStep DEF ReadLocal
  <2>10. CASE ReadDraft(c)
    <3>1. call[c].pc = "readDraft" /\ UNCHANGED alone
      BY <2>10 DEF ReadDraft
    <3>2. ~alone /\ connection \in Connections
      BY <3>1 DEF SInv, QuietCall, QuietPcs, SettledPcs
    <3>3. CASE End(c, "done") /\ UNCHANGED <<connection, lock>>
      BY <3>1, <3>2, <3>3, EndStep DEF Inside, Outside, SettledPcs
    <3> QED BY <2>10, <3>1, <3>3, RunStep DEF ReadDraft
  <2>11. CASE Leave(c)
    BY <2>11, LeaveStep DEF Leave
  <2> QED BY <1>2, <2>1, <2>2, <2>3, <2>4, <2>5, <2>6, <2>7, <2>8, <2>9, <2>10, <2>11,
             OutsideSteps, DisconnectStep DEF ContinueCall
<1>3. ASSUME NEW c \in Calls, Invoke(c) \/ Restart(c) PROVE SInv' /\ Pushes
  BY <1>3, OutsideSteps, RestartStep
<1>4. CASE ProfileChanges
  BY <1>4 DEF ProfileChanges, SInv, LockLegal, Underway, Pushes
<1> QED BY <1>1, <1>2, <1>3, <1>4 DEF ServiceNext

LEMMA InitSInv == ServiceAssumption /\ ServiceInit => SInv
<1> SUFFICES ASSUME ServiceAssumption, ServiceInit PROVE SInv
  OBVIOUS
<1>1. call \in [Calls -> CallType] /\ \A c \in Calls : call[c].pc = "new" /\ ~call[c].seen.enabled
  BY FreshIs DEF ServiceInit, Fresh
<1>2. connection \in Connections
  <2>1. CASE connection \in [enabled : {TRUE}, schedule : Schedules \cup {None}]
    BY <2>1 DEF Connections
  <2>2. CASE connection = [enabled |-> FALSE, schedule |-> None]
    BY <2>2 DEF Connections
  <2> QED BY <2>1, <2>2 DEF ServiceInit
<1> QED BY <1>1, <1>2 DEF SInv, ServiceInit, LockLegal, Inside, ServiceAssumption

LEMMA ServiceAssumptionStays == ServiceAssumption => ServiceAssumption'
  BY DEF ServiceAssumption

\* After a disconnection that nobody raced, nothing enables the connection and nothing is
\* written to the remote until the user connects again.
THEOREM QuietAfterDisconnectThm == ServiceAssumption /\ ServiceSpec => []QuietAfterDisconnect
<1>1. SInv => QuietAfterDisconnect
  BY DEF SInv, QuietAfterDisconnect, QuietCall, QuietPcs, SettledPcs
<1> QED BY <1>1, InitSInv, NextSInv, ServiceAssumptionStays, PTL DEF ServiceSpec

\* A call that was aborted begins no conditional write.
THEOREM AbortedNeverPushesThm == ServiceAssumption /\ ServiceSpec => AbortedNeverPushes
<1>1. ServiceAssumption /\ SInv /\ [ServiceNext]_serviceVars =>
        SInv' /\ [\A c \in Calls : call[c].pc # "inFlight" /\ call'[c].pc = "inFlight"
                    => ~call[c].aborted]_serviceVars
  BY NextSInv DEF Pushes
<1> QED BY <1>1, InitSInv, ServiceAssumptionStays, PTL DEF ServiceSpec, AbortedNeverPushes

\* At most one operation of the profile is inside the lock, the one its entry names.
THEOREM OneOperationThm == ServiceAssumption /\ ServiceSpec => []OneOperation
<1>1. SInv => OneOperation
  BY DEF SInv, LockLegal, OneOperation
<1> QED BY <1>1, InitSInv, NextSInv, ServiceAssumptionStays, PTL DEF ServiceSpec
=============================================================================
