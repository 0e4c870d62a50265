--------------------------- MODULE NativeFeedback ---------------------------
(* The signals a user may send to a platform after a local decision: an attempt   *)
(* is offered, reviewed, submitted by a gesture, and ends; the coordinator keeps    *)
(* it in the database before it touches the page.  The worker stops at any time,     *)
(* the page is loaded again, and the feature is switched off while calls are in       *)
(* flight.  What a call writes follows what it read without a pause, unless it waits    *)
(* for more than the database.                                                      *)
EXTENDS Nothing, Naturals, Sequences, FiniteSets

CONSTANTS
  Attempts,          \* the attempt identifiers
  Threshold, Window, \* the failures within a time that open the circuit
  PendingRetention,  \* how long an offer waits for its review
  TerminalRetention, \* how long every other attempt is kept
  MaxKept,           \* how many attempts the store keeps
  MaxClock, MaxSubmits, MaxStops \* bound the time, the gestures and the interruptions

VARIABLES
  attempt,    \* the stored attempts
  forgotten,  \* the attempts that were discarded after their submission began
  flight,     \* the submission of each attempt that is in flight
  stopping,   \* what was in flight when the feature was disabled, and is still looked at
  recovering, \* the attempts a recovery under way found interrupted
  enabled,    \* whether the coordinator is enabled
  circuit,    \* the circuit breaker of the action
  clicks,     \* how often the control of each attempt was clicked
  activated,  \* the attempts the page remembers it clicked
  today, submits, stops

nVars == <<attempt, forgotten, flight, stopping, recovering, enabled, circuit, clicks, activated,
           today, submits, stops>>

Final == {"submitted", "rejected", "unavailable", "uncertain", "cancelled", "cooldown"}
AttemptStates == {"pending-review", "submitting"} \cup Final
StoredAttempt == [state : AttemptStates, at : 0..MaxClock]
Grounded == [pc |-> "grounded"]

\* What the proofs assume of the constants.
FeedbackAssumption == None \notin [state : AttemptStates, at : Nat]

At(state, at) == [state |-> state, at |-> at]

Begun(record) == record # None /\ record.state # "pending-review"

KeptFor(record) == IF Begun(record) THEN TerminalRetention ELSE PendingRetention

\* A write drops the offers that waited too long and what has not changed for longer
\* still, and keeps the newest of the others; equal times are told apart by identifiers,
\* here in any way.  The attempt that is written may be dropped itself.
Put(a, state, at) ==
  LET written == [attempt EXCEPT ![a] = At(state, at)]
      fresh == {b \in Attempts : written[b] # None /\ at - written[b].at <= KeptFor(written[b])}
  IN \E kept \in SUBSET fresh :
       /\ kept = fresh \/ Cardinality(kept) = MaxKept
       /\ Cardinality(kept) <= MaxKept
       /\ \A b \in kept, c \in fresh \ kept : written[b].at >= written[c].at
       /\ attempt' = [b \in Attempts |-> IF b \in kept THEN written[b] ELSE None]
       /\ forgotten' = forgotten \cup {b \in Attempts \ kept : Begun(written[b])}

-----------------------------------------------------------------------------
(* NativeFeedbackCircuitBreaker.                                              *)

CircuitClosed == [state |-> "closed", failures |-> <<>>]

Allows == circuit.state = "closed"

ContractFailure(at) ==
  LET recent(time) == at - time <= Window
      failures == Append(SelectSeq(circuit.failures, recent), at) IN
    circuit' = [state |-> IF Len(failures) >= Threshold THEN "open" ELSE "closed",
                failures |-> failures]

ContractSuccess == circuit' = IF circuit.state = "open" THEN circuit ELSE CircuitClosed

SelfTestSucceeded ==
  /\ circuit # CircuitClosed /\ circuit' = CircuitClosed
  /\ UNCHANGED <<attempt, forgotten, flight, stopping, recovering, enabled, clicks, activated, today, submits, stops>>

-----------------------------------------------------------------------------
(* NativeFeedbackCoordinator.                                                 *)

\* An offer is stored once; offering it again answers what is stored.
Offer(a, supported) ==
  /\ attempt[a] = None
  /\ Put(a, IF enabled /\ supported /\ Allows THEN "pending-review" ELSE "unavailable", today)
  /\ UNCHANGED <<flight, stopping, recovering, enabled, circuit, clicks, activated, today, submits, stops>>

Retryable == {"rejected", "unavailable", "uncertain", "cooldown"}

\* A retry is another attempt, offered after one that ended.
RetryOffer(prior, a, supported) ==
  /\ a # prior /\ attempt[prior] # None /\ attempt[prior].state \in Retryable
  /\ Offer(a, supported)

\* A gesture begins a submission, or joins the one in flight.
Submit(a, trusted) ==
  /\ submits < MaxSubmits /\ submits' = submits + 1
  /\ flight[a] = Grounded
  /\ flight' = [flight EXCEPT ![a] = [pc |-> "read", trusted |-> trusted, at |-> today]]
  /\ UNCHANGED <<attempt, forgotten, stopping, recovering, enabled, circuit, clicks, activated, today, stops>>

Finish(a, state) ==
  /\ Put(a, state, flight[a].at)
  /\ flight' = [flight EXCEPT ![a] = Grounded]
  /\ UNCHANGED <<stopping, recovering, enabled, today, submits, stops>>

Page == UNCHANGED <<clicks, activated>>

\* What is found being submitted was interrupted; what has ended is answered.
ReadAttempt(a) ==
  /\ flight[a].pc = "read" /\ Page /\ UNCHANGED circuit
  /\ IF attempt[a] # None /\ attempt[a].state = "submitting" THEN Finish(a, "uncertain")
     ELSE /\ flight' = [flight EXCEPT ![a] =
                IF attempt[a] # None /\ attempt[a].state = "pending-review"
                THEN [@ EXCEPT !.pc = "check"] ELSE Grounded]
          /\ UNCHANGED <<attempt, forgotten, stopping, recovering, enabled, today, submits, stops>>

\* Slip: the page is touched before the attempt is stored as being submitted.
SlipCheckGesture(a) ==
  /\ flight[a].pc = "check" /\ enabled /\ flight[a].trusted /\ Allows
  /\ flight' = [flight EXCEPT ![a].pc = "revalidate"]
  /\ Page /\ UNCHANGED <<attempt, forgotten, circuit, stopping, recovering, enabled, today, submits, stops>>

\* The gesture, the capability and the circuit are looked at, and the attempt is
\* stored as being submitted before the page is touched.
CheckGesture(a) ==
  /\ flight[a].pc = "check" /\ Page /\ UNCHANGED circuit
  /\ IF ~enabled \/ ~flight[a].trusted THEN Finish(a, "rejected")
     ELSE IF ~Allows THEN Finish(a, "unavailable")
     ELSE /\ Put(a, "submitting", flight[a].at)
          /\ flight' = [flight EXCEPT ![a].pc = "revalidate"]
          /\ UNCHANGED <<stopping, recovering, enabled, today, submits, stops>>

RevalidationThrows(a) ==
  /\ flight[a].pc = "revalidate" /\ Page /\ UNCHANGED circuit /\ Finish(a, "uncertain")

\* The page is not what was reviewed any more, or it does not answer in time.
Invalid(a, state) ==
  /\ flight[a].pc = "revalidate" /\ Page /\ ContractFailure(flight[a].at) /\ Finish(a, state)

\* The page is what was reviewed, and its control is clicked in the same turn, unless
\* the page remembers that it clicked it or has lost it meanwhile.
ActivateControl(a, present) ==
  /\ flight[a].pc = "revalidate" /\ ContractSuccess
  /\ IF a \in activated \/ ~present THEN Page /\ Finish(a, "uncertain")
     ELSE /\ clicks' = [clicks EXCEPT ![a] = @ + 1] /\ activated' = activated \cup {a}
          /\ flight' = [flight EXCEPT ![a].pc = "verify"]
          /\ UNCHANGED <<attempt, forgotten, stopping, recovering, enabled, today, submits, stops>>

\* Only positive evidence counts as submitted.
Verify(a, state) ==
  /\ flight[a].pc = "verify" /\ Page /\ UNCHANGED circuit /\ Finish(a, state)

\* Disabling cancels the stored offers at once.
DisableFeedback ==
  /\ enabled /\ enabled' = FALSE
  /\ attempt' = [a \in Attempts |->
       IF attempt[a] # None /\ attempt[a].state = "pending-review" THEN At("cancelled", today)
       ELSE attempt[a]]
  /\ UNCHANGED forgotten
  /\ stopping' = stopping \cup {a \in Attempts : flight[a] # Grounded}
  /\ UNCHANGED <<flight, recovering, circuit, clicks, activated, today, submits, stops>>

\* Then those in flight are read, and cancelled when they are still pending.
CancelInFlight(a) ==
  /\ a \in stopping /\ stopping' = stopping \ {a}
  /\ IF attempt[a] # None /\ attempt[a].state = "pending-review" THEN Put(a, "cancelled", today)
     ELSE UNCHANGED <<attempt, forgotten>>
  /\ UNCHANGED <<flight, recovering, enabled, circuit, clicks, activated, today, submits, stops>>

Enable ==
  /\ ~enabled /\ enabled' = TRUE
  /\ UNCHANGED <<attempt, forgotten, flight, stopping, recovering, circuit, clicks, activated, today, submits, stops>>

\* A worker that starts has forgotten what was in flight, and looks for nothing.
WorkerRestart(on) ==
  /\ stops < MaxStops /\ stops' = stops + 1
  /\ flight' = [a \in Attempts |-> Grounded] /\ stopping' = {} /\ recovering' = {}
  /\ circuit' = CircuitClosed /\ enabled' = on
  /\ UNCHANGED <<attempt, forgotten, clicks, activated, today, submits>>

\* A recovery lists what is stored as being submitted, in flight or not.  Nothing of the
\* program starts one, so it may or may not be asked for, at any time.
ListInterrupted ==
  /\ recovering = {}
  /\ recovering' = {a \in Attempts : /\ attempt[a] # None /\ attempt[a].state = "submitting"
                                    /\ today - attempt[a].at <= TerminalRetention}
  /\ UNCHANGED <<attempt, forgotten, flight, stopping, enabled, circuit, clicks, activated, today, submits, stops>>

\* What was listed is stored as uncertain, whatever became of it meanwhile.
RecoverInterrupted(a) ==
  /\ a \in recovering /\ recovering' = recovering \ {a} /\ Put(a, "uncertain", today)
  /\ UNCHANGED <<flight, stopping, enabled, circuit, clicks, activated, today, submits, stops>>

PageReload ==
  /\ activated # {} /\ activated' = {}
  /\ UNCHANGED <<attempt, forgotten, flight, stopping, recovering, enabled, circuit, clicks, today, submits, stops>>

NextDay ==
  /\ today < MaxClock /\ today' = today + 1
  /\ UNCHANGED <<attempt, forgotten, flight, stopping, recovering, enabled, circuit, clicks, activated, submits, stops>>

FeedbackInit ==
  /\ attempt = [a \in Attempts |-> None] /\ forgotten = {} /\ flight = [a \in Attempts |-> Grounded]
  /\ stopping = {} /\ recovering = {}
  /\ enabled = TRUE /\ circuit = CircuitClosed
  /\ clicks = [a \in Attempts |-> 0] /\ activated = {}
  /\ today = 0 /\ submits = 0 /\ stops = 0

Goes(a) ==
  \/ ReadAttempt(a) \/ CheckGesture(a) \/ RevalidationThrows(a)
  \/ \E state \in {"uncertain", "cancelled"} : Invalid(a, state)
  \/ \E present \in BOOLEAN : ActivateControl(a, present)
  \/ \E state \in {"submitted", "rejected", "cooldown", "uncertain"} : Verify(a, state)

FeedbackNext ==
  \/ \E a \in Attempts : Goes(a) \/ CancelInFlight(a) \/ RecoverInterrupted(a)
  \/ \E a \in Attempts, yes \in BOOLEAN : Offer(a, yes) \/ Submit(a, yes)
  \/ \E prior, a \in Attempts, yes \in BOOLEAN : RetryOffer(prior, a, yes)
  \/ \E on \in BOOLEAN : WorkerRestart(on)
  \/ SelfTestSucceeded \/ DisableFeedback \/ Enable \/ ListInterrupted \/ PageReload \/ NextDay

FeedbackSpec == FeedbackInit /\ [][FeedbackNext]_nVars

-----------------------------------------------------------------------------
FeedbackTypeOK ==
  /\ attempt \in [Attempts -> StoredAttempt \cup {None}]
  /\ {stopping, recovering, activated, forgotten} \subseteq SUBSET Attempts
  /\ circuit.state \in {"closed", "open"} /\ Len(circuit.failures) <= MaxSubmits

\* The control of an attempt is clicked at most once, whatever gestures are repeated,
\* wherever the worker stops, whenever the page is loaded again, with or without a
\* recovery: what was begun is not tried again (submitOnce).  Only the store can forget
\* that it was begun: an attempt that retention discarded may be offered and clicked as
\* if it were new (retainNativeFeedbackAttempts).
ClickedOnce == \A a \in Attempts \ forgotten : clicks[a] <= 1
=============================================================================
