------------------------ MODULE ModelRouting_proofs -------------------------
(***************************************************************************)
(* Proofs about the budget of the two stages, its reservations and the     *)
(* money spent in a day, for any number of decisions, models, fallbacks,   *)
(* costs and limits.                                                       *)
(***************************************************************************)
EXTENDS ModelRouting, FiniteSetTheorems, TLAPS

CallType ==
  [pc : Places, stage : Stages, index : Nat, aborted : BOOLEAN, budget : Budgets \cup {None}]

Reservation == [model : Models, at : 0 .. MaxMinute]

\* The places where a decision holds a reservation.
Holding(r) == r.pc = "model" \/ (r.pc = "lookup" /\ r.stage = "vision")

\* The route is one of the stage, or the stage has not been entered or is over; who asks
\* has read a budget.
Legal(r) ==
  /\ \/ r.index \in 1 .. Len(Order[r.stage])
     \/ r.index = 1 /\ r.pc \in {"idle", "enter", "record", "done"}
  /\ r.budget \in Budgets \/ r.pc \in {"idle", "done"}

\* A decision is legal, and holds a reservation where it should.
Sound(r, h) == r \in CallType /\ Legal(r) /\ h \in Reservation \cup {None} /\ (h # None <=> Holding(r))

\* The inductive invariant.
IInv ==
  /\ minute \in 0 .. MaxMinute /\ budget \in Budgets
  /\ DOMAIN call = Calls /\ call = [c \in Calls |-> call[c]]
  /\ DOMAIN held = Calls /\ held = [c \in Calls |-> held[c]]
  /\ \A c \in Calls : Sound(call[c], held[c])

-----------------------------------------------------------------------------
\* Moving one decision, and what it holds, to where it is sound keeps the invariant.
LEMMA OneCall ==
  ASSUME IInv, NEW c \in Calls, NEW r, NEW h, Sound(r, h), UNCHANGED <<budget, minute>>,
         call' = [call EXCEPT ![c] = r], held' = [held EXCEPT ![c] = h]
  PROVE  IInv'
<1>1. ASSUME NEW d \in Calls PROVE Sound(call'[d], held'[d])
  BY <1>1 DEF IInv
<1>2. \A d \in Calls : Sound(call[d], held[d])'
  BY <1>1 DEF Sound, Legal, CallType, Holding, Reservation, Places, Stages
<1> QED BY <1>2 DEF IInv

\* A decision that moves to a place where it holds as much as before.
LEMMA Moves ==
  ASSUME IInv, NEW c \in Calls, NEW r, Sound(r, held[c]), UNCHANGED <<budget, held, minute>>,
         call' = [call EXCEPT ![c] = r]
  PROVE  IInv'
<1>1. held' = [held EXCEPT ![c] = held[c]]
  BY DEF IInv
<1> QED BY <1>1, OneCall

\* What a stage that ends becomes holds nothing.
EndedRecord(r, decided) ==
  IF r.stage = "text" /\ ~decided THEN [r EXCEPT !.stage = "vision", !.index = 1, !.pc = "enter"]
  ELSE [r EXCEPT !.index = 1, !.pc = "record"]

LEMMA EndedSound ==
  ASSUME NEW r \in CallType, Legal(r), r.pc \notin {"idle", "done"}, NEW decided
  PROVE  Sound(EndedRecord(r, decided), None)
<1>1. CASE r.stage = "text" /\ ~decided
  <2>1. EndedRecord(r, decided) = [r EXCEPT !.stage = "vision", !.index = 1, !.pc = "enter"]
    BY <1>1 DEF EndedRecord
  <2>2. [r EXCEPT !.stage = "vision", !.index = 1, !.pc = "enter"] \in CallType
    BY DEF CallType, Places, Stages
  <2> QED BY <2>1, <2>2 DEF Sound, Legal, Holding, CallType
<1>2. CASE ~(r.stage = "text" /\ ~decided)
  <2>1. EndedRecord(r, decided) = [r EXCEPT !.index = 1, !.pc = "record"]
    BY <1>2 DEF EndedRecord
  <2>2. [r EXCEPT !.index = 1, !.pc = "record"] \in CallType
    BY DEF CallType, Places
  <2> QED BY <2>1, <2>2 DEF Sound, Legal, Holding, CallType
<1> QED BY <1>1, <1>2

-----------------------------------------------------------------------------
\* A stage that ends keeps the invariant when nothing is held any more.
LEMMA EndedStep ==
  ASSUME IInv, NEW c \in Calls, NEW decided, Ended(c, decided), UNCHANGED <<budget, minute>>,
         held' = [held EXCEPT ![c] = None], call[c].pc \notin {"idle", "done"}
  PROVE  IInv'
<1>1. call' = [call EXCEPT ![c] = EndedRecord(call[c], decided)]
  BY DEF Ended, EndedRecord
<1>2. Sound(EndedRecord(call[c], decided), None)
  BY EndedSound DEF IInv, Sound
<1> QED BY <1>1, <1>2, OneCall

\* Going on within a stage, to a place that holds what the decision then has.
LEMMA GoStep ==
  ASSUME IInv, NEW c \in Calls, NEW pc \in Places, Go(c, pc), UNCHANGED <<budget, minute>>,
         NEW h \in Reservation \cup {None}, held' = [held EXCEPT ![c] = h],
         h # None <=> (pc = "model" \/ (pc = "lookup" /\ call[c].stage = "vision")),
         call[c].index \in 1 .. Len(Order[call[c].stage]), call[c].pc \notin {"idle", "done"}
  PROVE  IInv'
<1> DEFINE r == [call[c] EXCEPT !.pc = pc]
<1>1. call[c] \in CallType
  BY DEF IInv, Sound
<1>2. r \in CallType /\ r.pc = pc /\ r.stage = call[c].stage /\ r.index = call[c].index
      /\ r.budget = call[c].budget
  BY <1>1 DEF CallType
<1>3. call' = [call EXCEPT ![c] = r]
  BY DEF Go
<1> HIDE DEF r
<1>4. Sound(r, h)
  BY <1>2 DEF Sound, Legal, Holding, IInv
<1> QED BY <1>3, <1>4, OneCall

\* The next fallback holds nothing, nor does the stage that ends.
LEMMA AdvanceStep ==
  ASSUME RoutingAssumption, IInv, NEW c \in Calls, NEW category, Advance(c, category),
         UNCHANGED <<budget, minute>>, held' = [held EXCEPT ![c] = None],
         call[c].index \in 1 .. Len(Order[call[c].stage]), call[c].pc \notin {"idle", "done"}
  PROVE  IInv'
<1>1. CASE Ended(c, FALSE)
  BY <1>1, EndedStep
<1>2. CASE /\ call[c].index < Len(Order[call[c].stage])
           /\ call' = [call EXCEPT ![c].index = @ + 1, ![c].pc = "enter"]
  <2> DEFINE next == call[c].index + 1
             r == [call[c] EXCEPT !.index = next, !.pc = "enter"]
  <2>1. /\ call[c] \in CallType /\ Len(Order[call[c].stage]) \in Nat
        /\ call[c].budget \in Budgets
    BY DEF IInv, Sound, Legal, CallType, RoutingAssumption
  <2>2. next \in Nat /\ next \in 1 .. Len(Order[call[c].stage])
    BY <1>2, <2>1 DEF CallType
  <2>3. call' = [call EXCEPT ![c] = r]
    BY <1>2
  <2> HIDE DEF next
  <2>4. /\ r \in CallType /\ r.pc = "enter" /\ r.stage = call[c].stage /\ r.index = next
        /\ r.budget = call[c].budget
    BY <2>1, <2>2 DEF CallType, Places
  <2> HIDE DEF r
  <2>5. Sound(r, None)
    BY <2>1, <2>2, <2>4 DEF Sound, Legal, Holding
  <2> QED BY <2>3, <2>5, OneCall
<1> QED BY <1>1, <1>2 DEF Advance

-----------------------------------------------------------------------------
\* The initial state is sound.
LEMMA InitIInv == RoutingAssumption /\ Init => IInv
<1> SUFFICES ASSUME RoutingAssumption, Init PROVE IInv
  OBVIOUS
<1>1. Sound(Idle, None)
  BY DEF Sound, Idle, CallType, Legal, Holding, Places, Stages
<1> QED BY <1>1 DEF Init, IInv, RoutingAssumption

\* What taking a route reserves.
LEMMA TakeHolds ==
  ASSUME RoutingAssumption, IInv, NEW c \in Calls, NEW code, Take(c, code), held[c] = None,
         call[c].index \in 1 .. Len(Order[call[c].stage])
  PROVE  \E h \in Reservation \cup {None} :
           held' = [held EXCEPT ![c] = h] /\ (h # None <=> code = None)
<1>1. CASE code = None
  <2> DEFINE h == [model |-> Route(c), at |-> minute]
  <2>1. Route(c) \in Models
    BY DEF Route, RoutingAssumption, IInv, Sound, CallType
  <2>2. h \in Reservation /\ h # None
    BY <2>1 DEF IInv, Reservation, RoutingAssumption
  <2>3. held' = [held EXCEPT ![c] = h]
    BY <1>1 DEF Take, Reserve
  <2> QED BY <1>1, <2>2, <2>3
<1>2. CASE code # None
  <2>1. held' = [held EXCEPT ![c] = None]
    BY <1>2 DEF Take, IInv
  <2> QED BY <1>2, <2>1
<1> QED BY <1>1, <1>2

\* Every step of a decision keeps the invariant.
LEMMA CallIInv ==
  ASSUME RoutingAssumption, IInv, NEW c \in Calls, Begin(c) \/ Decides(c) \/ Abort(c)
  PROVE  IInv'
<1>0. /\ call[c] \in CallType /\ Legal(call[c]) /\ held[c] \in Reservation \cup {None}
      /\ held[c] # None <=> Holding(call[c])
      /\ held = [held EXCEPT ![c] = held[c]]
  BY DEF IInv, Sound
<1>a. call[c].pc \notin {"idle", "enter", "record", "done"} =>
        call[c].index \in 1 .. Len(Order[call[c].stage])
  BY <1>0 DEF Legal
<1>b. ~Holding(call[c]) => held = [held EXCEPT ![c] = None]
  BY <1>0
<1>1. CASE Begin(c)
  <2> DEFINE r == [call[c] EXCEPT !.pc = "enter", !.budget = budget]
  <2>1. r \in CallType /\ r.pc = "enter" /\ r.stage = call[c].stage /\ r.index = call[c].index
      /\ r.budget = budget /\ budget \in Budgets
    BY <1>0 DEF CallType, Places, IInv
  <2>2. call' = [call EXCEPT ![c] = r]
    BY <1>1 DEF Begin
  <2> HIDE DEF r
  <2>3. Sound(r, held[c])
    BY <1>0, <1>1, <2>1 DEF Begin, Sound, Legal, Holding
  <2> QED BY <1>1, <2>2, <2>3, Moves DEF Begin
<1>2. CASE Enter(c)
  <2>1. ~Holding(call[c]) /\ UNCHANGED <<budget, held, minute>> /\ call[c].pc = "enter"
    BY <1>2 DEF Enter, Holding
  <2>2. CASE \E decided : Ended(c, decided)
    BY <1>b, <2>1, <2>2, EndedStep
  <2>3. CASE /\ Configured(call[c].stage)
             /\ Go(c, CASE call[c].stage = "text" -> "lookup"
                         [] call[c].index = 1 -> "media"
                         [] OTHER -> "resolve")
    <3>1. call[c].index \in 1 .. Len(Order[call[c].stage])
      BY <1>0, <2>3 DEF Legal, Configured, RoutingAssumption, CallType
    <3>2. CASE call[c].stage = "text"
      BY <1>b, <2>1, <2>3, <3>1, <3>2, GoStep DEF Places
    <3>3. CASE call[c].stage # "text" /\ call[c].index = 1
      BY <1>b, <2>1, <2>3, <3>1, <3>3, GoStep DEF Places
    <3>4. CASE call[c].stage # "text" /\ call[c].index # 1
      BY <1>b, <2>1, <2>3, <3>1, <3>4, GoStep DEF Places
    <3> QED BY <3>2, <3>3, <3>4
  <2> QED BY <1>2, <2>2, <2>3 DEF Enter
<1>3. CASE PreprocessText(c)
  BY <1>b, <1>3, EndedStep DEF PreprocessText, Holding
<1>4. CASE RecordDecision(c)
  <2>1. Done \in CallType /\ Done.pc = "done" /\ Done.index = 1
    BY DEF Done, Idle, CallType, Places, Stages
  <2>2. Sound(Done, held[c])
    BY <1>0, <1>4, <2>1 DEF RecordDecision, Sound, Legal, Holding
  <2> QED BY <1>4, <2>2, Moves DEF RecordDecision
<1>5. ASSUME NEW yes \in BOOLEAN,
             \/ SelectMedia(c, yes) \/ ResolveMedia(c, yes) \/ PreflightMedia(c, yes)
             \/ MinimizeMedia(c, yes) \/ PrepareVisualInput(c, yes)
      PROVE  IInv'
  <2>1. /\ call[c].pc \in {"media", "fetch", "check", "minimize", "prepare"}
        /\ UNCHANGED <<budget, held, minute>>
        /\ \/ Ended(c, FALSE)
           \/ \E pc \in {"fetch", "check", "minimize", "prepare", "resolve"} : Go(c, pc)
    BY <1>5 DEF SelectMedia, ResolveMedia, PreflightMedia, MinimizeMedia, PrepareVisualInput
  <2>2. ~Holding(call[c])
    BY <2>1 DEF Holding
  <2>3. CASE Ended(c, FALSE)
    BY <1>b, <2>1, <2>2, <2>3, EndedStep
  <2>4. ASSUME NEW pc \in {"fetch", "check", "minimize", "prepare", "resolve"}, Go(c, pc)
        PROVE  IInv'
    BY <1>a, <1>b, <2>1, <2>2, <2>4, GoStep DEF Places
  <2> QED BY <2>1, <2>3, <2>4
<1>6. ASSUME NEW yes \in BOOLEAN, WriteCache(c, yes) PROVE IInv'
  BY <1>b, <1>6, EndedStep DEF WriteCache, Holding
<1>7. ASSUME NEW hit \in BOOLEAN, NEW decided \in BOOLEAN, LookupText(c, hit, decided) PROVE IInv'
  <2>1. ~Holding(call[c]) /\ call[c].pc = "lookup" /\ UNCHANGED <<budget, held, minute>>
    BY <1>7 DEF LookupText, Holding
  <2>2. CASE Ended(c, decided)
    BY <1>b, <2>1, <2>2, EndedStep
  <2>3. CASE Go(c, "resolve")
    BY <1>a, <1>b, <2>1, <2>3, GoStep DEF Places
  <2> QED BY <1>7, <2>2, <2>3 DEF LookupText
<1>8. ASSUME NEW hit \in BOOLEAN, NEW decided \in BOOLEAN, LookupVision(c, hit, decided) PROVE IInv'
  <2>1. CASE Ended(c, decided) /\ Release(c)
    BY <1>8, <2>1, EndedStep DEF LookupVision, Release
  <2>2. CASE Go(c, "model") /\ UNCHANGED held
    <3>1. held[c] # None /\ held' = [held EXCEPT ![c] = held[c]]
      BY <1>0, <1>8, <2>2 DEF LookupVision, Holding
    <3> QED BY <1>0, <1>a, <1>8, <2>2, <3>1, GoStep DEF LookupVision, Places
  <2> QED BY <1>8, <2>1, <2>2 DEF LookupVision
<1>9. ASSUME NEW obstacle, ResolveText(c, obstacle) \/ ResolveVision(c, obstacle) PROVE IInv'
  <2> DEFINE code == Unavailable(c, obstacle)
  <2>1. call[c].pc = "resolve" /\ Take(c, code) /\ UNCHANGED <<budget, minute>>
    BY <1>9 DEF ResolveText, ResolveVision
  <2>2. held[c] = None
    BY <1>0, <2>1 DEF Holding
  <2>3. PICK h \in Reservation \cup {None} :
          held' = [held EXCEPT ![c] = h] /\ (h # None <=> code = None)
    BY <1>a, <2>1, <2>2, TakeHolds
  <2>4. CASE code # None
    <3>1. Advance(c, FailureCategory(code))
      BY <1>9, <2>4 DEF ResolveText, ResolveVision
    <3> QED BY <1>a, <2>1, <2>3, <2>4, <3>1, AdvanceStep
  <2>5. CASE code = None
    <3>1. \/ Go(c, "model")
          \/ Go(c, "lookup") /\ call[c].stage = "vision"
      BY <1>9, <2>5 DEF ResolveText, ResolveVision
    <3>2. CASE Go(c, "model")
      BY <1>a, <2>1, <2>3, <2>5, <3>2, GoStep DEF Places
    <3>3. CASE Go(c, "lookup") /\ call[c].stage = "vision"
      BY <1>a, <2>1, <2>3, <2>5, <3>3, GoStep DEF Places
    <3> QED BY <3>1, <3>2, <3>3
  <2> QED BY <2>4, <2>5
<1>10. ASSUME NEW answer, TextAnswers(c, answer) \/ VisionAnswers(c, answer) PROVE IInv'
  <2>1. PICK code : call[c].pc = "model" /\ Counted(c, code)
    BY <1>10 DEF TextAnswers, VisionAnswers
  <2>2. held' = [held EXCEPT ![c] = None] /\ UNCHANGED <<budget, minute>>
    BY <2>1 DEF Counted, CommitReservation
  <2>3. CASE Go(c, "write")
    BY <1>a, <2>1, <2>2, <2>3, GoStep DEF Places
  <2>4. CASE Advance(c, OutcomeCategory(code))
    BY <1>a, <2>1, <2>2, <2>4, AdvanceStep
  <2> QED BY <2>1, <2>3, <2>4 DEF Counted
<1>11. CASE Abort(c)
  <2> DEFINE r == [call[c] EXCEPT !.aborted = TRUE]
  <2>1. r \in CallType /\ r.pc = call[c].pc /\ r.stage = call[c].stage /\ r.index = call[c].index
      /\ r.budget = call[c].budget
    BY <1>0 DEF CallType
  <2>2. call' = [call EXCEPT ![c] = r]
    BY <1>11 DEF Abort
  <2> HIDE DEF r
  <2>3. Sound(r, held[c])
    BY <1>0, <2>1 DEF Sound, Legal, Holding
  <2> QED BY <1>11, <2>2, <2>3, Moves DEF Abort
<1> QED BY <1>1, <1>2, <1>3, <1>4, <1>5, <1>6, <1>7, <1>8, <1>9, <1>10, <1>11 DEF Decides

\* Every step keeps the invariant.
LEMMA NextIInv == RoutingAssumption /\ IInv /\ [Next]_rVars => IInv'
<1> SUFFICES ASSUME RoutingAssumption, IInv, [Next]_rVars PROVE IInv'
  OBVIOUS
<1>1. CASE UNCHANGED rVars
  BY <1>1 DEF rVars, IInv, Sound, Legal, Holding
<1>2. CASE NextMinute
  <2>1. minute' \in 0 .. MaxMinute
    BY <1>2 DEF NextMinute, IInv, RoutingAssumption
  <2> QED BY <1>2, <2>1 DEF NextMinute, IInv, Sound, Legal, Holding
<1>3. CASE ChangeBudget
  <2>1. budget' \in Budgets
    BY <1>3 DEF ChangeBudget
  <2> QED BY <1>3, <2>1 DEF ChangeBudget, IInv, Sound, Legal, Holding
<1>4. CASE WorkerRestarts
  <2>1. Sound(Idle, None) /\ Sound(Done, None)
    BY DEF Sound, Done, Idle, CallType, Legal, Holding, Places, Stages
  <2>2. \A c \in Calls : call'[c] \in {Idle, Done} /\ held'[c] = None
    BY <1>4 DEF WorkerRestarts
  <2>3. \A c \in Calls : Sound(call'[c], held'[c])
    BY <2>1, <2>2
  <2>4. \A c \in Calls : Sound(call[c], held[c])'
    BY <2>3 DEF Sound, Legal, Holding
  <2> QED BY <1>4, <2>4 DEF WorkerRestarts, IInv
<1> QED BY <1>1, <1>2, <1>3, <1>4, CallIInv DEF Next

\* The types: a decision never tries a route beyond those of its stage.
THEOREM RoutingTypeCorrect == RoutingAssumption /\ Spec => []TypeOK
<1>1. RoutingAssumption /\ IInv => TypeOK
  <2> SUFFICES ASSUME RoutingAssumption, IInv PROVE TypeOK
    OBVIOUS
  <2>1. \A c \in Calls : Sound(call[c], held[c])
    BY DEF IInv
  <2>2. ASSUME NEW c \in Calls
        PROVE  call[c].index = 1 \/ call[c].index \in DOMAIN Order[call[c].stage]
    <3>1. Order[call[c].stage] \in Seq(Models)
      BY <2>1 DEF Sound, CallType, RoutingAssumption
    <3> QED BY <2>1, <3>1 DEF Sound, Legal
  <2>3. held \in [Calls -> [model : Models, at : 0..MaxMinute] \cup {None}]
    BY <2>1 DEF IInv, Sound, Reservation
  <2> QED BY <2>1, <2>2, <2>3 DEF TypeOK, Sound, CallType
<1>2. RoutingAssumption => RoutingAssumption'
  BY DEF RoutingAssumption
<1> QED BY <1>1, <1>2, InitIInv, NextIInv, PTL DEF Spec

\* On every way out of a stage a reservation is committed or given back, for any number
\* of decisions that run at once.
THEOREM NoReservationLostThm == RoutingAssumption /\ Spec => []NoReservationLost
<1>1. IInv => NoReservationLost
  BY DEF IInv, Sound, Holding, NoReservationLost
<1>2. RoutingAssumption => RoutingAssumption'
  BY DEF RoutingAssumption
<1> QED BY <1>1, <1>2, InitIInv, NextIInv, PTL DEF Spec

-----------------------------------------------------------------------------
(* Money: what was spent today and what may be spent by the requests that were *)
(* reserved today.                                                             *)

\* The decisions that reserved a request to m today.
Committing(s, m) == {c \in HoldersOf(s, m) : SameDay(held[c].at)}

Committed(s, m) == Cardinality(Today(s, m)) + Cardinality(Committing(s, m))

Bounded(s, m) ==
  Execution[m] = "cloud" =>
    /\ Cardinality(HoldersOf(s, m)) <= MaxByProvider
    /\ Committed(s, m) * Cost[m] <= LimitOf(s) + (MaxByProvider - 1) * Cost[m]

\* The ledger and the reservations are of the past, and a reservation is of the route.
Times ==
  /\ ledger \in [Accounts -> [Models -> Seq(Nat)]]
  /\ \A s \in Accounts, m \in Models : \A i \in DOMAIN ledger[s][m] : ledger[s][m][i] \in 0 .. minute
  /\ \A c \in Calls : held[c] # None => held[c].at \in 0 .. minute /\ held[c].model = Route(c)

\* The inductive invariant.
MoneyInv == IInv /\ Times /\ \A s \in Accounts, m \in Models : Bounded(s, m)

\* Limits are natural numbers.
LEMMA LimitType == ASSUME RoutingAssumption, NEW s \in Accounts PROVE LimitOf(s) \in Nat
BY DEF RoutingAssumption, Accounts, LimitOf

\* Who asks has an account.
LEMMA AccountType ==
  ASSUME IInv, NEW c \in Calls, call[c].pc \notin {"idle", "done"}
  PROVE  Account(c) \in Accounts
BY DEF IInv, Sound, Legal, CallType, Account, Accounts

\* What is counted is finite.
LEMMA FiniteCalls ==
  ASSUME RoutingAssumption, Times, NEW s \in Accounts, NEW m \in Models
  PROVE  /\ IsFiniteSet(HoldersOf(s, m)) /\ IsFiniteSet(Committing(s, m)) /\ IsFiniteSet(Today(s, m))
         /\ Cardinality(HoldersOf(s, m)) \in Nat /\ Cardinality(Committing(s, m)) \in Nat
         /\ Cardinality(Today(s, m)) \in Nat
         /\ Cardinality(Committing(s, m)) <= Cardinality(HoldersOf(s, m))
         /\ ledger[s][m] \in Seq(Nat)
<1>1. IsFiniteSet(Calls) /\ HoldersOf(s, m) \in SUBSET Calls
  BY DEF RoutingAssumption, HoldersOf, Holders, Account
<1>2. IsFiniteSet(HoldersOf(s, m)) /\ Cardinality(HoldersOf(s, m)) \in Nat
  BY <1>1, FS_Subset, FS_CardinalityType
<1>3. Committing(s, m) \in SUBSET HoldersOf(s, m)
  BY DEF Committing
<1>4. /\ IsFiniteSet(Committing(s, m)) /\ Cardinality(Committing(s, m)) \in Nat
      /\ Cardinality(Committing(s, m)) <= Cardinality(HoldersOf(s, m))
  BY <1>2, <1>3, FS_Subset, FS_CardinalityType
<1>5. ledger[s][m] \in Seq(Nat)
  BY DEF Times
<1>6. Today(s, m) \in SUBSET (1 .. Len(ledger[s][m])) /\ Len(ledger[s][m]) \in Nat
  BY <1>5 DEF Today
<1>7. IsFiniteSet(Today(s, m)) /\ Cardinality(Today(s, m)) \in Nat
  <2>1. IsFiniteSet(1 .. Len(ledger[s][m]))
    BY <1>6, FS_Interval
  <2> QED BY <1>6, <2>1, FS_Subset, FS_CardinalityType
<1> QED BY <1>2, <1>4, <1>5, <1>7

LEMMA OneLess ==
  ASSUME NEW S, NEW T, NEW x, IsFiniteSet(S), T = S \ {x}
  PROVE  /\ IsFiniteSet(T) /\ Cardinality(T) \in Nat /\ Cardinality(S) \in Nat
         /\ Cardinality(T) <= Cardinality(S)
         /\ Cardinality(T) = IF x \in S THEN Cardinality(S) - 1 ELSE Cardinality(S)
<1>1. IsFiniteSet(T) /\ Cardinality(T) = IF x \in S THEN Cardinality(S) - 1 ELSE Cardinality(S)
  BY FS_RemoveElement
<1>2. Cardinality(T) \in Nat /\ Cardinality(S) \in Nat
  BY <1>1, FS_CardinalityType
<1> QED BY <1>1, <1>2

LEMMA OneMore ==
  ASSUME NEW S, NEW T, NEW x, IsFiniteSet(S), T = S \cup {x}
  PROVE  /\ IsFiniteSet(T) /\ Cardinality(T) \in Nat /\ Cardinality(S) \in Nat
         /\ Cardinality(T) <= Cardinality(S) + 1
<1>1. IsFiniteSet(T) /\ Cardinality(T) = IF x \in S THEN Cardinality(S) ELSE Cardinality(S) + 1
  BY FS_AddElement
<1>2. Cardinality(T) \in Nat /\ Cardinality(S) \in Nat
  BY <1>1, FS_CardinalityType
<1> QED BY <1>1, <1>2

\* Less is spent by fewer requests.
LEMMA Cheaper ==
  ASSUME NEW a \in Nat, NEW b \in Nat, NEW k \in Nat, a <= b
  PROVE  a * k <= b * k /\ a * k \in Nat
<1>1. PICK d \in Nat : b = a + d
  <2>1. b - a \in Nat /\ b = a + (b - a)
    OBVIOUS
  <2> QED BY <2>1
<1>2. (a + d) * k = a * k + d * k /\ d * k \in Nat /\ a * k \in Nat
  OBVIOUS
<1> QED BY <1>1, <1>2

\* Days do not go back.
LEMMA LaterDay ==
  ASSUME RoutingAssumption, NEW a \in Nat, NEW b \in Nat, a <= b
  PROVE  a \div DayLength <= b \div DayLength
<1> DEFINE k == DayLength
           p == a \div k
           q == b \div k
<1>1. k \in Nat /\ k > 0
  BY DEF RoutingAssumption
<1>2. /\ p \in Nat /\ q \in Nat
      /\ k * p <= a /\ b < k * (q + 1)
  BY <1>1
<1>3. CASE p > q
  <2>1. k * (q + 1) <= k * p
    BY <1>1, <1>2, <1>3, Cheaper
  <2> QED BY <1>1, <1>2, <2>1
<1> QED BY <1>2, <1>3

\* What bounds more bounds less.
LEMMA BoundedBy ==
  ASSUME RoutingAssumption, NEW m \in Models, NEW limit \in Nat, NEW a \in Nat, NEW b \in Nat,
         a <= b, b * Cost[m] <= limit + (MaxByProvider - 1) * Cost[m]
  PROVE  a * Cost[m] <= limit + (MaxByProvider - 1) * Cost[m]
<1>1. Cost[m] \in Nat /\ MaxByProvider - 1 \in Nat
  BY DEF RoutingAssumption
<1>2. a * Cost[m] <= b * Cost[m] /\ a * Cost[m] \in Nat /\ b * Cost[m] \in Nat
  BY <1>1, Cheaper
<1>3. (MaxByProvider - 1) * Cost[m] \in Nat
  BY <1>1, Cheaper
<1> QED BY <1>1, <1>2, <1>3

\* A step that reserves and commits nothing, and lets who holds go on with its route.
LEMMA MoneyStays ==
  ASSUME RoutingAssumption, Times, UNCHANGED <<held, ledger, minute>>,
         \A d \in Calls : held[d] # None =>
            call'[d].stage = call[d].stage /\ call'[d].index = call[d].index /\ call'[d].budget = call[d].budget
  PROVE  /\ Times'
         /\ \A s \in Accounts, m \in Models : Bounded(s, m) => Bounded(s, m)'
<1>1. Times'
  BY DEF Times, Route
<1>2. ASSUME NEW s \in Accounts, NEW m \in Models, Bounded(s, m) PROVE Bounded(s, m)'
  <2>1. HoldersOf(s, m)' = HoldersOf(s, m)
    BY DEF HoldersOf, Holders, Account
  <2>2. Committing(s, m)' = Committing(s, m)
    BY <2>1 DEF Committing, SameDay
  <2>3. Today(s, m)' = Today(s, m)
    BY DEF Today, SameDay
  <2> QED BY <1>2, <2>1, <2>2, <2>3 DEF Bounded, Committed
<1> QED BY <1>1, <1>2

\* A reservation that is given back.
LEMMA MoneyReleases ==
  ASSUME RoutingAssumption, IInv, Times, NEW c \in Calls, held' = [held EXCEPT ![c] = None],
         UNCHANGED <<ledger, minute>>, \A d \in Calls \ {c} : call'[d] = call[d]
  PROVE  /\ Times'
         /\ \A s \in Accounts, m \in Models : Bounded(s, m) => Bounded(s, m)'
<1>1. held'[c] = None /\ \A d \in Calls \ {c} : held'[d] = held[d]
  BY DEF IInv
<1>2. Times'
  BY <1>1 DEF Times, Route
<1>3. ASSUME NEW s \in Accounts, NEW m \in Models, Bounded(s, m) PROVE Bounded(s, m)'
  <2>1. HoldersOf(s, m)' = HoldersOf(s, m) \ {c}
    BY <1>1 DEF HoldersOf, Holders, Account
  <2>2. Committing(s, m)' = Committing(s, m) \ {c}
    BY <1>1, <2>1 DEF Committing, SameDay
  <2>3. Today(s, m)' = Today(s, m)
    BY DEF Today, SameDay
  <2>4. /\ Cardinality(HoldersOf(s, m)') \in Nat /\ Cardinality(Committing(s, m)') \in Nat
        /\ Cardinality(HoldersOf(s, m)') <= Cardinality(HoldersOf(s, m))
        /\ Cardinality(Committing(s, m)') <= Cardinality(Committing(s, m))
    BY <2>1, <2>2, FiniteCalls, OneLess
  <2>5. /\ Committed(s, m)' \in Nat /\ Committed(s, m) \in Nat /\ Committed(s, m)' <= Committed(s, m)
    BY <2>3, <2>4, FiniteCalls DEF Committed
  <2>6. MaxByProvider \in Nat
    BY DEF RoutingAssumption
  <2> QED BY <1>3, <2>4, <2>5, <2>6, BoundedBy, LimitType, FiniteCalls DEF Bounded
<1> QED BY <1>2, <1>3

\* A reservation that becomes a request: it is counted on the day it was made.
LEMMA MoneyCommits ==
  ASSUME RoutingAssumption, IInv, Times, NEW c \in Calls, held[c] # None, CommitReservation(c),
         UNCHANGED minute, \A d \in Calls \ {c} : call'[d] = call[d]
  PROVE  /\ Times'
         /\ \A s \in Accounts, m \in Models : Bounded(s, m) => Bounded(s, m)'
<1> DEFINE at == held[c].at
           t == Account(c)
           n == Route(c)
<1>1. held'[c] = None /\ \A d \in Calls \ {c} : held'[d] = held[d]
  BY DEF IInv, CommitReservation
<1>a. call[c].pc \notin {"idle", "done"}
  BY DEF IInv, Sound, Holding
<1>2. /\ t \in Accounts /\ n \in Models /\ held[c].model = n /\ at \in 0 .. minute
  BY <1>a, AccountType DEF IInv, Sound, CallType, Times, Reservation
<1>3. ledger' = [ledger EXCEPT ![t][n] = Append(@, at)]
  BY DEF CommitReservation
<1> HIDE DEF at, t, n
<1>4. ASSUME NEW s \in Accounts, NEW m \in Models
      PROVE  ledger'[s][m] = IF s = t /\ m = n THEN Append(ledger[s][m], at) ELSE ledger[s][m]
  BY <1>2, <1>3 DEF Times
<1>5. Times'
  <2>1. ledger' \in [Accounts -> [Models -> Seq(Nat)]]
    <3>1. ledger[t][n] \in Seq(Nat) /\ at \in Nat
      BY <1>2 DEF Times, IInv
    <3>2. Append(ledger[t][n], at) \in Seq(Nat)
      BY <3>1
    <3> QED BY <1>2, <1>3, <3>2 DEF Times
  <2>2. ASSUME NEW s \in Accounts, NEW m \in Models, NEW i \in DOMAIN ledger'[s][m]
        PROVE  ledger'[s][m][i] \in 0 .. minute'
    <3>1. CASE s = t /\ m = n
      <4>1. ledger[s][m] \in Seq(Nat) /\ ledger'[s][m] = Append(ledger[s][m], at)
        BY <1>4, <3>1, FiniteCalls
      <4>2. ledger'[s][m][i] = at \/ (i \in DOMAIN ledger[s][m] /\ ledger'[s][m][i] = ledger[s][m][i])
        BY <2>2, <4>1
      <4> QED BY <1>2, <4>2 DEF Times
    <3>2. CASE ~(s = t /\ m = n)
      BY <1>4, <2>2, <3>2 DEF Times
    <3> QED BY <3>1, <3>2
  <2> QED BY <1>1, <2>1, <2>2 DEF Times, Route
<1>6. ASSUME NEW s \in Accounts, NEW m \in Models, Bounded(s, m) PROVE Bounded(s, m)'
  <2>1. HoldersOf(s, m)' = HoldersOf(s, m) \ {c}
    BY <1>1 DEF HoldersOf, Holders, Account
  <2>2. Committing(s, m)' = Committing(s, m) \ {c}
    <3>1. \A d \in HoldersOf(s, m) \ {c} : held'[d] = held[d]
      BY <1>1 DEF HoldersOf, Holders, Account
    <3> QED BY <2>1, <3>1 DEF Committing, SameDay
  <2>3. /\ Cardinality(HoldersOf(s, m)') \in Nat /\ Cardinality(Committing(s, m)') \in Nat
        /\ Cardinality(HoldersOf(s, m)') <= Cardinality(HoldersOf(s, m))
        /\ Cardinality(Committing(s, m)') =
              IF c \in Committing(s, m) THEN Cardinality(Committing(s, m)) - 1
              ELSE Cardinality(Committing(s, m))
    <3>1. IsFiniteSet(HoldersOf(s, m)) /\ IsFiniteSet(Committing(s, m))
      BY FiniteCalls
    <3>2. /\ Cardinality(HoldersOf(s, m)') \in Nat
          /\ Cardinality(HoldersOf(s, m)') <= Cardinality(HoldersOf(s, m))
      BY <2>1, <3>1, OneLess
    <3>3. /\ Cardinality(Committing(s, m)') \in Nat
          /\ Cardinality(Committing(s, m)') =
                IF c \in Committing(s, m) THEN Cardinality(Committing(s, m)) - 1
                ELSE Cardinality(Committing(s, m))
      BY <2>2, <3>1, OneLess
    <3> QED BY <3>2, <3>3
  <2>4. /\ Cardinality(Today(s, m)') \in Nat
        /\ Cardinality(Today(s, m)') <= Cardinality(Today(s, m)) + 1
        /\ c \notin Committing(s, m) => Cardinality(Today(s, m)') <= Cardinality(Today(s, m))
    <3>1. CASE s = t /\ m = n
      <4> DEFINE l == Len(ledger[s][m]) + 1
      <4>1. ledger[s][m] \in Seq(Nat) /\ ledger'[s][m] = Append(ledger[s][m], at)
        BY <1>4, <3>1, FiniteCalls
      <4>2. /\ DOMAIN ledger'[s][m] = DOMAIN ledger[s][m] \cup {l} /\ ledger'[s][m][l] = at
            /\ \A i \in DOMAIN ledger[s][m] : ledger'[s][m][i] = ledger[s][m][i]
        BY <1>2, <4>1
      <4> HIDE DEF l
      <4>3. CASE SameDay(at)
        <5>1. Today(s, m)' = Today(s, m) \cup {l}
          BY <4>2, <4>3 DEF Today, SameDay
        <5>2. c \in Committing(s, m)
          BY <1>2, <3>1, <4>3 DEF Committing, HoldersOf, Holders, at, t
        <5> QED BY <5>1, <5>2, FiniteCalls, OneMore
      <4>4. CASE ~SameDay(at)
        <5>1. Today(s, m)' \in SUBSET Today(s, m)
          BY <4>2, <4>4 DEF Today, SameDay
        <5> QED BY <5>1, FiniteCalls, FS_Subset, FS_CardinalityType
      <4> QED BY <4>3, <4>4
    <3>2. CASE ~(s = t /\ m = n)
      <4>1. Today(s, m)' = Today(s, m)
        BY <1>4, <3>2 DEF Today, SameDay
      <4> QED BY <4>1, FiniteCalls
    <3> QED BY <3>1, <3>2
  <2>5. /\ Committed(s, m)' \in Nat /\ Committed(s, m) \in Nat /\ Committed(s, m)' <= Committed(s, m)
    <3>1. c \in Committing(s, m) => Cardinality(Committing(s, m)) # 0
      BY FiniteCalls, FS_EmptySet
    <3> QED BY <2>3, <2>4, <3>1, FiniteCalls DEF Committed
  <2>6. MaxByProvider \in Nat
    BY DEF RoutingAssumption
  <2>7. ASSUME Execution[m] = "cloud" PROVE Bounded(s, m)'
    <3>1. /\ Cardinality(HoldersOf(s, m)) <= MaxByProvider
          /\ Committed(s, m) * Cost[m] <= LimitOf(s) + (MaxByProvider - 1) * Cost[m]
      BY <1>6, <2>7 DEF Bounded
    <3>2. Committed(s, m)' * Cost[m] <= LimitOf(s) + (MaxByProvider - 1) * Cost[m]
      BY <2>5, <3>1, BoundedBy, LimitType
    <3>3. Cardinality(HoldersOf(s, m)') <= MaxByProvider
      BY <2>3, <2>6, <3>1, FiniteCalls
    <3> QED BY <3>2, <3>3 DEF Bounded
  <2> QED BY <2>7 DEF Bounded
<1> QED BY <1>5, <1>6

\* A reservation that is made when it can be paid for.
LEMMA MoneyReserves ==
  ASSUME RoutingAssumption, IInv, Times, NEW c \in Calls, held[c] = None, Reserve(c),
         Affordable(Account(c), Route(c)), call[c].pc \notin {"idle", "done"}, call[c].index \in 1 .. Len(Order[call[c].stage]),
         UNCHANGED <<ledger, minute>>, \A d \in Calls \ {c} : call'[d] = call[d],
         call'[c].stage = call[c].stage, call'[c].index = call[c].index,
         call'[c].budget = call[c].budget
  PROVE  /\ Times'
         /\ \A s \in Accounts, m \in Models : Bounded(s, m) => Bounded(s, m)'
<1> DEFINE t == Account(c)
           n == Route(c)
<1>1. /\ held'[c] = [model |-> n, at |-> minute] /\ held'[c] # None /\ n \in Models
      /\ \A d \in Calls \ {c} : held'[d] = held[d]
  <2>1. n \in Models
    BY DEF Route, RoutingAssumption, IInv, Sound, CallType
  <2> QED BY <2>1 DEF IInv, Reserve, RoutingAssumption
<1>2. Account(c)' = t /\ n = Route(c)' /\ minute \in Nat /\ t \in Accounts
  BY AccountType DEF Route, Account, IInv, Sound, CallType
<1>3. Affordable(t, n)
  OBVIOUS
<1> HIDE DEF t, n
<1>4. Times'
  <2>1. /\ ledger' \in [Accounts -> [Models -> Seq(Nat)]]
        /\ \A s \in Accounts, m \in Models : \A i \in DOMAIN ledger'[s][m] :
             ledger'[s][m][i] \in 0 .. minute'
    BY DEF Times
  <2>2. ASSUME NEW d \in Calls, held'[d] # None
        PROVE  held'[d].at \in 0 .. minute' /\ held'[d].model = Route(d)'
    <3>1. CASE d = c
      BY <1>1, <1>2, <3>1
    <3>2. CASE d # c
      BY <1>1, <2>2, <3>2 DEF Times, Route
    <3> QED BY <3>1, <3>2
  <2> QED BY <2>1, <2>2 DEF Times
<1>5. ASSUME NEW s \in Accounts, NEW m \in Models, Bounded(s, m) PROVE Bounded(s, m)'
  <2>1. Today(s, m)' = Today(s, m)
    BY DEF Today, SameDay
  <2>2. CASE s = t /\ m = n
    <3>1. HoldersOf(s, m)' = HoldersOf(s, m) \cup {c}
      BY <1>1, <1>2, <2>2 DEF HoldersOf, Holders, Account
    <3>2. Committing(s, m)' \subseteq Committing(s, m) \cup {c}
      <4>1. \A d \in HoldersOf(s, m) \ {c} : held'[d] = held[d]
        BY <1>1 DEF HoldersOf, Holders, Account
      <4> QED BY <3>1, <4>1 DEF Committing, SameDay
    <3>3. /\ Cardinality(HoldersOf(s, m)') \in Nat
          /\ Cardinality(HoldersOf(s, m)') <= Cardinality(HoldersOf(s, m)) + 1
      BY <3>1, FiniteCalls, OneMore
    <3>4. /\ Cardinality(Committing(s, m)') \in Nat
          /\ Cardinality(Committing(s, m)') <= Cardinality(Committing(s, m)) + 1
      <4> DEFINE more == Committing(s, m) \cup {c}
      <4>1. /\ IsFiniteSet(more) /\ Cardinality(more) \in Nat
            /\ Cardinality(more) <= Cardinality(Committing(s, m)) + 1
            /\ Cardinality(Committing(s, m)) \in Nat
        BY FiniteCalls, OneMore
      <4>2. /\ IsFiniteSet(Committing(s, m)')
            /\ Cardinality(Committing(s, m)') <= Cardinality(more)
        BY <3>2, <4>1, FS_Subset
      <4>3. Cardinality(Committing(s, m)') \in Nat
        BY <4>2, FS_CardinalityType
      <4> QED BY <4>1, <4>2, <4>3
    <3>5. ASSUME Execution[m] = "cloud" PROVE Bounded(s, m)'
      <4> DEFINE k == Cost[m]
                 x == Cardinality(Today(s, m))
                 y == MaxByProvider - 1
                 z == Committed(s, m)'
      <4>1. /\ x * k + k <= LimitOf(s) /\ Cardinality(HoldersOf(s, m)) < MaxByProvider
        BY <1>3, <2>2, <3>5 DEF Affordable, MonetaryCheck, DailySpend, DailyRequests
      <4>2. /\ k \in Nat /\ x \in Nat /\ y \in Nat /\ MaxByProvider \in Nat
            /\ Cardinality(HoldersOf(s, m)) \in Nat /\ Cardinality(Committing(s, m)) \in Nat
            /\ Cardinality(Committing(s, m)) <= Cardinality(HoldersOf(s, m))
        BY FiniteCalls DEF RoutingAssumption
      <4>a. LimitOf(s) \in Nat
        BY LimitType
      <4>3. z \in Nat /\ z <= (x + 1) + y
        <5>1. z = x + Cardinality(Committing(s, m)')
          BY <2>1 DEF Committed
        <5>2. /\ Cardinality(Committing(s, m)') \in Nat
              /\ Cardinality(Committing(s, m)') <= y + 1
          BY <3>4, <4>1, <4>2
        <5> HIDE DEF x, y, z
        <5> QED BY <4>2, <5>1, <5>2
      <4>4. Cardinality(HoldersOf(s, m)') <= MaxByProvider
        BY <3>3, <4>1, <4>2
      <4> HIDE DEF k, x, y, z
      <4>5. z * k <= ((x + 1) + y) * k
        BY <4>2, <4>3, Cheaper
      <4>6. ((x + 1) + y) * k = (x * k + k) + y * k
        BY <4>2
      <4>7. z * k \in Nat /\ x * k \in Nat /\ y * k \in Nat
        BY <4>2, <4>3, Cheaper
      <4>8. z * k <= LimitOf(s) + y * k
        BY <4>1, <4>2, <4>a, <4>5, <4>6, <4>7
      <4> QED BY <4>4, <4>8 DEF Bounded, k, y, z
    <3> QED BY <3>5 DEF Bounded
  <2>3. CASE ~(s = t /\ m = n)
    <3>1. HoldersOf(s, m)' = HoldersOf(s, m)
      BY <1>1, <1>2, <2>3 DEF HoldersOf, Holders, Account
    <3>2. \A d \in HoldersOf(s, m) : held'[d] = held[d]
      BY <1>1 DEF HoldersOf, Holders, Account
    <3>3. Committing(s, m)' = Committing(s, m)
      BY <3>1, <3>2 DEF Committing, SameDay
    <3> QED BY <1>5, <2>1, <3>1, <3>3 DEF Bounded, Committed
  <2> QED BY <2>2, <2>3
<1> QED BY <1>4, <1>5

\* Another day: nothing was spent nor reserved on it.
LEMMA MoneyMinute ==
  ASSUME RoutingAssumption, IInv, Times, NextMinute
  PROVE  /\ Times'
         /\ \A s \in Accounts, m \in Models : Bounded(s, m) => Bounded(s, m)'
<1>1. minute \in Nat /\ minute' = minute + 1 /\ UNCHANGED <<call, held, ledger>>
  BY DEF NextMinute, IInv
<1>2. 0 .. minute \subseteq 0 .. minute'
  BY <1>1
<1>3. Times'
  <2>1. \A s \in Accounts, m \in Models : \A i \in DOMAIN ledger'[s][m] :
          ledger'[s][m][i] \in 0 .. minute'
    BY <1>1, <1>2 DEF Times
  <2> QED BY <1>1, <1>2, <2>1 DEF Times, Route
<1>4. ASSUME NEW s \in Accounts, NEW m \in Models, Bounded(s, m) PROVE Bounded(s, m)'
  <2>1. HoldersOf(s, m)' = HoldersOf(s, m)
    BY <1>1 DEF HoldersOf, Holders, Account
  <2>2. CASE minute' \div DayLength = minute \div DayLength
    <3>1. \A time : SameDay(time)' <=> SameDay(time)
      BY <2>2 DEF SameDay
    <3>2. Today(s, m)' = Today(s, m)
      BY <1>1, <3>1 DEF Today
    <3>3. Committing(s, m)' = Committing(s, m)
      BY <1>1, <2>1, <3>1 DEF Committing
    <3> QED BY <1>4, <2>1, <3>2, <3>3 DEF Bounded, Committed
  <2>3. CASE minute' \div DayLength # minute \div DayLength
    <3>1. \A time \in 0 .. minute : ~SameDay(time)'
      <4> SUFFICES ASSUME NEW time \in 0 .. minute PROVE ~SameDay(time)'
        OBVIOUS
      <4>1. /\ time \div DayLength <= minute \div DayLength
            /\ minute \div DayLength <= minute' \div DayLength
        BY <1>1, LaterDay
      <4>2. /\ time \div DayLength \in Int /\ minute \div DayLength \in Int
            /\ minute' \div DayLength \in Int
        BY <1>1 DEF RoutingAssumption
      <4> QED BY <2>3, <4>1, <4>2 DEF SameDay
    <3>2. Today(s, m)' = {}
      <4>1. \A i \in DOMAIN ledger[s][m] : ledger[s][m][i] \in 0 .. minute
        BY DEF Times
      <4> QED BY <1>1, <3>1, <4>1 DEF Today
    <3>3. Committing(s, m)' = {}
      <4>1. \A c \in HoldersOf(s, m) : held[c].at \in 0 .. minute
        BY DEF HoldersOf, Holders, Account, Times
      <4> QED BY <1>1, <2>1, <3>1, <4>1 DEF Committing
    <3>4. Committed(s, m)' = 0
      BY <3>2, <3>3, FS_EmptySet DEF Committed
    <3>5. Cost[m] \in Nat /\ LimitOf(s) \in Nat /\ MaxByProvider - 1 \in Nat
      BY LimitType DEF RoutingAssumption
    <3>6. (MaxByProvider - 1) * Cost[m] \in Nat /\ 0 * Cost[m] = 0
      BY <3>5, Cheaper
    <3>7. 0 * Cost[m] <= LimitOf(s) + (MaxByProvider - 1) * Cost[m]
      BY <3>5, <3>6
    <3> QED BY <1>4, <2>1, <3>4, <3>7 DEF Bounded
  <2> QED BY <2>2, <2>3
<1> QED BY <1>3, <1>4

\* A step of a decision leaves the others alone, and going on keeps its route.
LEMMA OthersStay ==
  ASSUME IInv, NEW c \in Calls, NEW decided, NEW category, NEW pc,
         Ended(c, decided) \/ Advance(c, category) \/ Go(c, pc)
  PROVE  /\ \A d \in Calls \ {c} : call'[d] = call[d]
         /\ Go(c, pc) => call'[c].stage = call[c].stage /\ call'[c].index = call[c].index /\ call'[c].budget = call[c].budget
<1>1. call[c] \in CallType /\ DOMAIN call = Calls
  BY DEF IInv, Sound
<1>2. \A d \in Calls \ {c} : call'[d] = call[d]
  BY <1>1 DEF Ended, Advance, Go
<1>3. Go(c, pc) => call'[c].stage = call[c].stage /\ call'[c].index = call[c].index /\ call'[c].budget = call[c].budget
  BY <1>1 DEF Go, CallType
<1> QED BY <1>2, <1>3

MoneyKept == Times' /\ \A s \in Accounts, m \in Models : Bounded(s, m) => Bounded(s, m)'

\* Where nothing is held the budget does not notice what a decision does.
LEMMA MoneyIdles ==
  ASSUME RoutingAssumption, IInv, Times, NEW c \in Calls, held[c] = None,
         UNCHANGED <<held, ledger, minute>>, \A d \in Calls \ {c} : call'[d] = call[d]
  PROVE  MoneyKept
<1>1. \A d \in Calls : held[d] # None =>
        call'[d].stage = call[d].stage /\ call'[d].index = call[d].index /\ call'[d].budget = call[d].budget
  OBVIOUS
<1> QED BY <1>1, MoneyStays DEF MoneyKept

\* Every step of a decision keeps the budget.
LEMMA MoneyCall ==
  ASSUME RoutingAssumption, IInv, Times, NEW c \in Calls, Begin(c) \/ Decides(c) \/ Abort(c)
  PROVE  MoneyKept
<1>0. held[c] # None <=> Holding(call[c])
  BY DEF IInv, Sound
<1>1. CASE Begin(c) \/ Enter(c) \/ PreprocessText(c) \/ RecordDecision(c)
  <2>1. held[c] = None /\ UNCHANGED <<held, ledger, minute>>
    BY <1>0, <1>1 DEF Begin, Enter, PreprocessText, RecordDecision, Holding
  <2>2. \A d \in Calls \ {c} : call'[d] = call[d]
    BY <1>1, OthersStay DEF Begin, Enter, PreprocessText, RecordDecision, IInv
  <2> QED BY <2>1, <2>2, MoneyIdles
<1>2. ASSUME NEW yes \in BOOLEAN, NEW decided \in BOOLEAN,
             \/ SelectMedia(c, yes) \/ ResolveMedia(c, yes) \/ PreflightMedia(c, yes)
             \/ MinimizeMedia(c, yes) \/ PrepareVisualInput(c, yes) \/ WriteCache(c, yes)
             \/ LookupText(c, yes, decided)
      PROVE  MoneyKept
  <2>1. held[c] = None /\ UNCHANGED <<held, ledger, minute>>
    BY <1>0, <1>2 DEF SelectMedia, ResolveMedia, PreflightMedia, MinimizeMedia,
                      PrepareVisualInput, WriteCache, LookupText, Holding
  <2>2. \/ \E end : Ended(c, end)
        \/ \E pc : Go(c, pc)
    BY <1>2 DEF SelectMedia, ResolveMedia, PreflightMedia, MinimizeMedia,
                PrepareVisualInput, WriteCache, LookupText
  <2>3. \A d \in Calls \ {c} : call'[d] = call[d]
    BY <2>2, OthersStay
  <2> QED BY <2>1, <2>3, MoneyIdles
<1>3. ASSUME NEW hit \in BOOLEAN, NEW decided \in BOOLEAN, LookupVision(c, hit, decided)
      PROVE  MoneyKept
  <2>1. UNCHANGED minute
    BY <1>3 DEF LookupVision
  <2>2. CASE Ended(c, decided) /\ Release(c)
    <3>1. \A d \in Calls \ {c} : call'[d] = call[d]
      BY <2>2, OthersStay
    <3>2. held' = [held EXCEPT ![c] = None] /\ UNCHANGED <<ledger, minute>>
      BY <2>1, <2>2 DEF Release
    <3> QED BY <3>1, <3>2, MoneyReleases DEF MoneyKept
  <2>3. CASE Go(c, "model") /\ UNCHANGED <<held, ledger>>
    <3>1. \A d \in Calls : call'[d].stage = call[d].stage /\ call'[d].index = call[d].index /\ call'[d].budget = call[d].budget
      BY <2>3, OthersStay
    <3> QED BY <2>1, <2>3, <3>1, MoneyStays DEF MoneyKept
  <2> QED BY <1>3, <2>2, <2>3 DEF LookupVision
<1>4. ASSUME NEW obstacle, ResolveText(c, obstacle) \/ ResolveVision(c, obstacle) PROVE MoneyKept
  <2> DEFINE code == Unavailable(c, obstacle)
  <2>1. call[c].pc = "resolve" /\ Take(c, code) /\ UNCHANGED <<ledger, minute>>
    BY <1>4 DEF ResolveText, ResolveVision
  <2>2. held[c] = None /\ call[c].index \in 1 .. Len(Order[call[c].stage])
    BY <1>0, <2>1 DEF Holding, IInv, Sound, Legal
  <2>3. CASE code # None
    <3>1. Advance(c, FailureCategory(code)) /\ UNCHANGED held
      BY <1>4, <2>1, <2>3 DEF ResolveText, ResolveVision, Take
    <3>2. \A d \in Calls \ {c} : call'[d] = call[d]
      BY <3>1, OthersStay
    <3> QED BY <2>1, <2>2, <3>1, <3>2, MoneyIdles
  <2>4. CASE code = None
    <3>1. Affordable(Account(c), Route(c))
      BY <2>4 DEF Unavailable, RoutingAssumption
    <3>2. Reserve(c) /\ \E pc : Go(c, pc)
      BY <1>4, <2>1, <2>4 DEF ResolveText, ResolveVision, Take
    <3>3. /\ \A d \in Calls \ {c} : call'[d] = call[d]
          /\ call'[c].stage = call[c].stage /\ call'[c].index = call[c].index /\ call'[c].budget = call[c].budget
      BY <3>2, OthersStay
    <3> QED BY <2>1, <2>2, <3>1, <3>2, <3>3, MoneyReserves DEF MoneyKept
  <2> QED BY <2>3, <2>4
<1>5. ASSUME NEW answer, TextAnswers(c, answer) \/ VisionAnswers(c, answer) PROVE MoneyKept
  <2>1. PICK code : call[c].pc = "model" /\ Counted(c, code)
    BY <1>5 DEF TextAnswers, VisionAnswers
  <2>2. held[c] # None /\ CommitReservation(c) /\ UNCHANGED minute
    BY <1>0, <2>1 DEF Holding, Counted
  <2>3. Go(c, "write") \/ Advance(c, OutcomeCategory(code))
    BY <2>1 DEF Counted
  <2>4. \A d \in Calls \ {c} : call'[d] = call[d]
    BY <2>3, OthersStay
  <2> QED BY <2>2, <2>4, MoneyCommits DEF MoneyKept
<1>6. CASE Abort(c)
  <2>1. \A d \in Calls : call'[d].stage = call[d].stage /\ call'[d].index = call[d].index /\ call'[d].budget = call[d].budget
    BY <1>6 DEF Abort, IInv, Sound, CallType
  <2> QED BY <1>6, <2>1, MoneyStays DEF Abort, MoneyKept
<1> QED BY <1>1, <1>2, <1>3, <1>4, <1>5, <1>6 DEF Decides

\* Another budget has another ledger, and the ledgers there are stay as they are; a worker
\* that starts again has counted nothing.
LEMMA MoneyLoses ==
  ASSUME RoutingAssumption, IInv, Times, ChangeBudget \/ WorkerRestarts
  PROVE  MoneyKept
<1>1. CASE ChangeBudget
  <2>1. UNCHANGED <<held, ledger, minute>> /\ \A d \in Calls : call'[d] = call[d]
    BY <1>1 DEF ChangeBudget
  <2> QED BY <2>1, MoneyStays DEF MoneyKept
<1>2. CASE WorkerRestarts
  <2>1. /\ \A c \in Calls : held'[c] = None
        /\ \A s \in Accounts, m \in Models : ledger'[s][m] = <<>>
        /\ ledger' \in [Accounts -> [Models -> Seq(Nat)]]
    <3>1. <<>> \in Seq(Nat)
      OBVIOUS
    <3> QED BY <1>2, <3>1 DEF WorkerRestarts, NoRequests
  <2>2. Times'
    BY <2>1 DEF Times
  <2>3. ASSUME NEW s \in Accounts, NEW m \in Models PROVE Bounded(s, m)'
    <3>1. HoldersOf(s, m)' = {} /\ Committing(s, m)' = {} /\ Today(s, m)' = {}
      BY <2>1 DEF HoldersOf, Holders, Committing, Today
    <3>2. Cardinality(HoldersOf(s, m)') = 0 /\ Committed(s, m)' = 0
      BY <3>1, FS_EmptySet DEF Committed
    <3>3. Cost[m] \in Nat /\ LimitOf(s) \in Nat /\ MaxByProvider \in Nat /\ MaxByProvider - 1 \in Nat
      BY LimitType DEF RoutingAssumption
    <3>4. (MaxByProvider - 1) * Cost[m] \in Nat /\ 0 * Cost[m] = 0
      BY <3>3, Cheaper
    <3>5. 0 * Cost[m] <= LimitOf(s) + (MaxByProvider - 1) * Cost[m]
      BY <3>3, <3>4
    <3> QED BY <3>2, <3>3, <3>5 DEF Bounded
  <2> QED BY <2>2, <2>3 DEF MoneyKept
<1> QED BY <1>1, <1>2

\* Every step keeps what was spent and reserved within its bound.
LEMMA MoneyStep == RoutingAssumption /\ MoneyInv /\ [Next]_rVars => MoneyInv'
<1> SUFFICES ASSUME RoutingAssumption, MoneyInv, [Next]_rVars PROVE MoneyInv'
  OBVIOUS
<1>1. IInv'
  BY NextIInv DEF MoneyInv
<1>2. MoneyKept
  <2>1. CASE UNCHANGED rVars
    <3>1. UNCHANGED <<held, ledger, minute>> /\ \A d \in Calls : call'[d] = call[d]
      BY <2>1 DEF rVars
    <3> QED BY <3>1, MoneyStays DEF MoneyInv, MoneyKept
  <2>2. CASE NextMinute
    BY <2>2, MoneyMinute DEF MoneyInv, MoneyKept
  <2>3. ASSUME NEW c \in Calls, Begin(c) \/ Decides(c) \/ Abort(c) PROVE MoneyKept
    BY <2>3, MoneyCall DEF MoneyInv
  <2>4. CASE ChangeBudget \/ WorkerRestarts
    BY <2>4, MoneyLoses DEF MoneyInv
  <2> QED BY <2>1, <2>2, <2>3, <2>4 DEF Next
<1> QED BY <1>1, <1>2 DEF MoneyInv, MoneyKept

\* At first at most one request was made, one that could be paid for.
LEMMA MoneyInit == RoutingAssumption /\ Init => MoneyInv
<1> SUFFICES ASSUME RoutingAssumption, Init PROVE MoneyInv
  OBVIOUS
<1>1. IInv
  BY InitIInv
<1>2. PICK past \in {<<>>, <<0>>} :
        ledger = [s \in Accounts |-> [m \in Models |->
                   IF s = <<"text", budget>> /\ Execution[m] = "cloud" /\ Cost[m] <= Limit[budget]
                   THEN past ELSE <<>>]]
  BY DEF Init
<1>3. past \in Seq(Nat) /\ <<>> \in Seq(Nat)
  <2>1. <<>> \in Seq(Nat) /\ <<0>> \in Seq(Nat)
    OBVIOUS
  <2> QED BY <1>2, <2>1
<1>4. /\ minute = 0 /\ \A c \in Calls : held[c] = None
  BY DEF Init
<1>5. Times
  <2>1. ledger \in [Accounts -> [Models -> Seq(Nat)]]
    BY <1>2, <1>3
  <2>2. ASSUME NEW s \in Accounts, NEW m \in Models, NEW i \in DOMAIN ledger[s][m]
        PROVE  ledger[s][m][i] \in 0 .. minute
    <3>1. ledger[s][m] = <<0>>
      BY <1>2, <2>2
    <3> QED BY <1>4, <3>1, <2>2
  <2> QED BY <1>4, <2>1, <2>2 DEF Times
<1>6. ASSUME NEW s \in Accounts, NEW m \in Models, Execution[m] = "cloud" PROVE Bounded(s, m)
  <2>1. HoldersOf(s, m) = {} /\ Committing(s, m) = {}
    BY <1>4 DEF HoldersOf, Holders, Account, Committing
  <2>2. Cardinality(HoldersOf(s, m)) = 0 /\ Cardinality(Committing(s, m)) = 0
    BY <2>1, FS_EmptySet
  <2>3. /\ Cost[m] \in Nat /\ LimitOf(s) \in Nat /\ MaxByProvider \in Nat
        /\ MaxByProvider - 1 \in Nat
    BY LimitType DEF RoutingAssumption
  <2>4. (MaxByProvider - 1) * Cost[m] \in Nat /\ 0 * Cost[m] = 0 /\ 1 * Cost[m] = Cost[m]
    BY <2>3, Cheaper
  <2>5. CASE ledger[s][m] = <<0>> /\ Cost[m] <= LimitOf(s)
    <3>1. Today(s, m) \subseteq {1}
      BY <2>5 DEF Today
    <3>2. Cardinality({1}) = 1 /\ IsFiniteSet({1})
      BY FS_Singleton
    <3>3. Cardinality(Today(s, m)) \in Nat /\ Cardinality(Today(s, m)) <= 1
      BY <3>1, <3>2, FS_Subset, FS_CardinalityType
    <3>4. Committed(s, m) \in Nat /\ Committed(s, m) <= 1
      BY <2>2, <3>3 DEF Committed
    <3>5. 1 * Cost[m] <= LimitOf(s) + (MaxByProvider - 1) * Cost[m]
      BY <2>3, <2>4, <2>5
    <3>6. Committed(s, m) * Cost[m] <= LimitOf(s) + (MaxByProvider - 1) * Cost[m]
      BY <2>3, <3>4, <3>5, BoundedBy
    <3> QED BY <2>2, <2>3, <3>6 DEF Bounded
  <2>6. CASE ledger[s][m] = <<>>
    <3>1. Today(s, m) = {}
      BY <2>6 DEF Today
    <3>2. Committed(s, m) = 0
      BY <2>2, <3>1, FS_EmptySet DEF Committed
    <3>3. 0 * Cost[m] <= LimitOf(s) + (MaxByProvider - 1) * Cost[m]
      BY <2>3, <2>4
    <3> QED BY <2>2, <2>3, <3>2, <3>3 DEF Bounded
  <2>7. s = <<"text", budget>> => LimitOf(s) = Limit[budget]
    BY DEF LimitOf
  <2> QED BY <1>2, <2>5, <2>6, <2>7
<1> QED BY <1>1, <1>5, <1>6 DEF MoneyInv, Bounded

\* What was spent today is within what was spent and reserved.
LEMMA MoneyBound == RoutingAssumption /\ MoneyInv => OverspendBounded
<1> SUFFICES ASSUME RoutingAssumption, MoneyInv, NEW s \in Accounts, NEW m \in Models,
                    Execution[m] = "cloud"
             PROVE  DailySpend(s, m) <= LimitOf(s) + (MaxByProvider - 1) * Cost[m]
  BY DEF OverspendBounded
<1>1. /\ Cardinality(Today(s, m)) \in Nat /\ Committed(s, m) \in Nat
      /\ Cardinality(Today(s, m)) <= Committed(s, m)
  BY FiniteCalls DEF Committed, MoneyInv
<1>2. Committed(s, m) * Cost[m] <= LimitOf(s) + (MaxByProvider - 1) * Cost[m]
  BY DEF MoneyInv, Bounded
<1> QED BY <1>1, <1>2, BoundedBy, LimitType DEF DailySpend, DailyRequests

\* However many decisions run at once, the money spent on a model in a day exceeds its
\* limit by less than the requests that may be under way together: what counts them is
\* the number of reservations, which are not money yet (RoutingBudget.reserve).
THEOREM OverspendBoundedThm == RoutingAssumption /\ Spec => []OverspendBounded
<1>1. RoutingAssumption => RoutingAssumption'
  BY DEF RoutingAssumption
<1> QED BY <1>1, MoneyInit, MoneyStep, MoneyBound, PTL DEF Spec
=============================================================================
