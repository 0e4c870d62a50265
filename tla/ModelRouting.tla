---------------------------- MODULE ModelRouting ----------------------------
(* The decisions that ask models: when the rules do not decide, the text stage     *)
(* and then the visual stage try the configured route and its fallbacks.  The        *)
(* calls of a worker run at once and share, in each stage, one circuit breaker and,   *)
(* for each budget the settings had, one ledger; each waits for caches, permissions,  *)
(* pictures and models.  What a wait finds is an input of the action that follows     *)
(* it.  Ledgers and breakers are in memory: a worker that starts again has none.      *)
EXTENDS Nothing, RouteFallback, Naturals, Sequences, FiniteSets

CONSTANTS
  Calls,              \* the decisions
  Models,             \* the models, each of a provider of its own
  Order,              \* for each stage, the primary route and its fallbacks
  Execution,          \* where each model runs: "local", "browser" or "cloud"
  Cost,               \* the estimated cost of a request to each model
  AllowCloudFallback, \* whether a local route may fall back to the cloud
  AllowHigherCost,    \* whether a route may fall back to one that costs more
  Budgets,            \* the budgets the user sets
  Limit,              \* of each, the monetary budget of a day
  MaxGlobal, MaxByProvider, PerMinute, PerDay, \* and what else it limits
  Failures, FailureWindow, OpenFor, \* of the circuit breaker
  DayLength, MaxMinute, \* the length of a day, and the bound of the time
  MaxEvents           \* how often in all time passes, budgets change and the worker stops

VARIABLES
  budget,   \* the budget of the settings
  call,     \* each decision: where it is, the route it tries, the budget it read
  held,     \* the reservation each decision holds
  ledger,   \* for each account and model, when requests were made
  breaker,  \* for each stage, the circuit of each route
  minute,   \* the time
  losses    \* how often ledgers were left behind

rVars == <<budget, call, held, ledger, breaker, minute, losses>>

Stages == {"text", "vision"}

\* Each stage has a ledger for each budget.
Accounts == Stages \X Budgets

Places == {"idle", "enter", "media", "fetch", "check", "minimize", "prepare", "lookup", "resolve", "model",
           "write", "record", "done"}

\* Each stage tries models in an order, some request may be made at once, and having no
\* reservation is no reservation and no reason to refuse a route.
RoutingAssumption ==
  /\ MaxMinute \in Nat /\ MaxEvents \in Nat /\ Order \in [Stages -> Seq(Models)] /\ IsFiniteSet(Calls)
  /\ Cost \in [Models -> Nat] /\ Limit \in [Budgets -> Nat] /\ None \notin Budgets
  /\ MaxByProvider \in Nat \ {0} /\ DayLength \in Nat \ {0}
  /\ None \notin [model : Models, at : 0 .. MaxMinute]
  /\ None \notin {"fallback-not-authorized", "budget-blocked", "circuit-open"}

Fresh == [failures |-> <<>>, opened |-> None, probe |-> FALSE]
Idle == [pc |-> "idle", stage |-> "text", index |-> 1, aborted |-> FALSE, budget |-> None]

Done == [Idle EXCEPT !.pc = "done"]

NoRequests == [a \in Accounts |-> [m \in Models |-> <<>>]]
NoFailures == [s \in Stages |-> [m \in Models |-> Fresh]]

Route(c) == Order[call[c].stage][call[c].index]
Primary(c) == Order[call[c].stage][1]
Account(c) == <<call[c].stage, call[c].budget>>
LimitOf(a) == Limit[a[2]]

-----------------------------------------------------------------------------
(* What the codes mean.                                                            *)

FailureCategory(code) ==
  CASE code \in {"provider-unavailable", "circuit-open"} -> "temporary"
    [] code = "budget-blocked" -> "budget"
    [] code \in {"consent-missing", "credential-missing", "permission-missing"} -> "authorization"
    [] code \in {"input-too-large", "language-unsupported"} -> "input"
    [] OTHER -> "configuration"

\* Of the outcomes of the two stages, only the names of the inputs they refuse differ.
OutcomeCategory(code) ==
  CASE code = "invalid-output" -> "invalid-output"
    [] code \in {"provider-unavailable", "timeout"} -> "temporary"
    [] code = "cancelled" -> "cancelled"
    [] code = "cost-limit" -> "budget"
    [] code \in {"unsupported-input", "resource-limit"} -> "input"
    [] OTHER -> "configuration"

\* What a provider answers, or how a request to it fails.
Answers == {"signals", "malformed", "abstains", "refused", "bad-request", "too-large",
            "payment", "late", "unreachable"}

TextFailure(answer) ==
  CASE answer = "refused" -> "refused"         [] answer = "bad-request" -> "unsupported-input"
    [] answer = "too-large" -> "resource-limit" [] answer = "payment" -> "cost-limit"
    [] answer = "late" -> "timeout"             [] OTHER -> "provider-unavailable"

\* The limit of the time of a picture aborts the signal, like a cancellation does.
VisualFailure(answer) == IF answer = "late" THEN "cancelled" ELSE TextFailure(answer)

\* The code a stage abstains with, or none when the signals are valid.
ClassifyText(c, answer) ==
  CASE call[c].aborted -> "cancelled"
    [] answer = "signals" -> None
    [] answer = "malformed" -> "invalid-output"
    [] answer = "abstains" -> "insufficient-input"
    [] OTHER -> TextFailure(answer)

ClassifyVision(c, answer) ==
  CASE call[c].aborted -> "cancelled"
    [] answer = "signals" -> None
    [] answer = "malformed" -> "invalid-output"
    [] answer = "abstains" -> "insufficient-input"
    [] OTHER -> VisualFailure(answer)

-----------------------------------------------------------------------------
(* RoutingBudget: what is reserved counts against the concurrency, what is          *)
(* committed against the rates and the money.                                       *)

SameDay(time) == time \div DayLength = minute \div DayLength

\* The requests that were made today, by their places in the ledger.
Today(a, m) == {i \in DOMAIN ledger[a][m] : SameDay(ledger[a][m][i])}

DailyRequests(a, m) == Cardinality(Today(a, m))

DailySpend(a, m) == DailyRequests(a, m) * Cost[m]

MinuteRequests(a, m) == Cardinality({i \in DOMAIN ledger[a][m] : ledger[a][m][i] = minute})

Holders(a) == {c \in Calls : held[c] # None /\ Account(c) = a}

HoldersOf(a, m) == {c \in Holders(a) : held[c].model = m}

\* Slip: what was spent today is forgotten.
SlipMonetaryCheck(a, m) == Cost[m] <= LimitOf(a)

MonetaryCheck(a, m) == LimitOf(a) > 0 /\ DailySpend(a, m) + Cost[m] <= LimitOf(a)

Affordable(a, m) ==
  /\ Execution[m] = "cloud" => MonetaryCheck(a, m)
  /\ Cardinality(Holders(a)) < MaxGlobal
  /\ Cardinality(HoldersOf(a, m)) < MaxByProvider
  /\ MinuteRequests(a, m) < PerMinute /\ DailyRequests(a, m) < PerDay

Reserve(c) == held' = [held EXCEPT ![c] = [model |-> Route(c), at |-> minute]]

Release(c) == held' = [held EXCEPT ![c] = None] /\ UNCHANGED ledger

\* What was reserved becomes a request that was made when it was reserved.
CommitReservation(c) ==
  /\ held' = [held EXCEPT ![c] = None]
  /\ ledger' = [ledger EXCEPT ![Account(c)][Route(c)] = Append(@, held[c].at)]

-----------------------------------------------------------------------------
(* RouteCircuitBreaker.                                                            *)

Acquirable(s, m) ==
  breaker[s][m].opened # None =>
    minute >= breaker[s][m].opened + OpenFor /\ ~breaker[s][m].probe

Acquire(s, m) ==
  breaker' = [breaker EXCEPT ![s][m].probe = @ \/ breaker[s][m].opened # None]

RecordSuccess(s, m) == breaker' = [breaker EXCEPT ![s][m] = Fresh]

RecordTemporaryFailure(s, m) ==
  LET recent(time) == minute - time <= FailureWindow
      failures == Append(SelectSeq(breaker[s][m].failures, recent), minute) IN
    breaker' = [breaker EXCEPT ![s][m] =
      [failures |-> failures, probe |-> FALSE,
       opened |-> IF Len(failures) >= Failures THEN minute ELSE breaker[s][m].opened]]

-----------------------------------------------------------------------------
(* resolveEligibleRoute.                                                           *)

\* The provider, its capability, permission, credential, consent and price.
Obstacles == {"provider-unavailable", "model-not-found", "language-unsupported",
              "input-too-large", "permission-missing", "credential-missing",
              "consent-missing", "budget-blocked"}

\* A fallback that was not allowed; only the text stage knows what the primary costs.
FallbackBlocked(c) ==
  /\ call[c].index > 1
  /\ \/ Execution[Route(c)] = "cloud" /\ Execution[Primary(c)] # "cloud" /\ ~AllowCloudFallback
     \/ call[c].stage = "text" /\ Cost[Route(c)] > Cost[Primary(c)] /\ ~AllowHigherCost

\* Why the route cannot be taken, in the order of the code.
Unavailable(c, obstacle) ==
  CASE FallbackBlocked(c) -> "fallback-not-authorized"
    [] obstacle # None -> obstacle
    [] ~Affordable(Account(c), Route(c)) -> "budget-blocked"
    [] ~Acquirable(call[c].stage, Route(c)) -> "circuit-open"
    [] OTHER -> None

-----------------------------------------------------------------------------
(* The stages.                                                                     *)

Go(c, pc) == call' = [call EXCEPT ![c].pc = pc]

Configured(s) == Order[s] # <<>>

\* A stage ends: the visual one follows the text one when nothing was decided.
Ended(c, decided) ==
  call' = [call EXCEPT ![c] =
    IF @.stage = "text" /\ ~decided THEN [@ EXCEPT !.stage = "vision", !.index = 1, !.pc = "enter"]
    ELSE [@ EXCEPT !.index = 1, !.pc = "record"]]

\* The next fallback, when there is one and the failure allows it.
Advance(c, category) ==
  IF call[c].index < Len(Order[call[c].stage]) /\ CanAdvanceToFallback(category)
  THEN call' = [call EXCEPT ![c].index = @ + 1, ![c].pc = "enter"]
  ELSE Ended(c, FALSE)

\* The page asks for a decision on an item of a platform that is enabled; without
\* rules that decide it, the stages are asked, with the settings of this moment.
Begin(c) ==
  /\ call[c].pc = "idle" /\ call' = [call EXCEPT ![c].pc = "enter", ![c].budget = budget]
  /\ UNCHANGED <<losses, budget, held, ledger, breaker, minute>>

\* A decision that was cancelled ends at the next route it would try; a stage with
\* no route abstains.  The picture is prepared once, before the first route.
Enter(c) ==
  /\ call[c].pc = "enter"
  /\ IF call[c].aborted \/ ~Configured(call[c].stage) THEN Ended(c, FALSE)
     ELSE Go(c, CASE call[c].stage = "text" -> "lookup"
                  [] call[c].index = 1 -> "media"
                  [] OTHER -> "resolve")
  /\ UNCHANGED <<losses, budget, held, ledger, breaker, minute>>

\* The text is shrunk to what the model takes, or cannot be.
PreprocessText(c) ==
  /\ call[c].pc = "lookup" /\ call[c].stage = "text" /\ Ended(c, FALSE)
  /\ UNCHANGED <<losses, budget, held, ledger, breaker, minute>>

\* The consent of the primary route, one picture, an origin that is allowed.
SelectMedia(c, usable) ==
  /\ call[c].pc = "media"
  /\ IF usable THEN Go(c, "fetch") ELSE Ended(c, FALSE)
  /\ UNCHANGED <<losses, budget, held, ledger, breaker, minute>>

\* The picture is fetched; a cancelled fetch fails.
ResolveMedia(c, usable) ==
  /\ call[c].pc = "fetch" /\ (usable => ~call[c].aborted)
  /\ IF usable THEN Go(c, "check") ELSE Ended(c, FALSE)
  /\ UNCHANGED <<losses, budget, held, ledger, breaker, minute>>

\* Its size, its pixels and its type are checked, ...
PreflightMedia(c, usable) ==
  /\ call[c].pc = "check"
  /\ IF usable THEN Go(c, "minimize") ELSE Ended(c, FALSE)
  /\ UNCHANGED <<losses, budget, held, ledger, breaker, minute>>

\* ... it is shrunk and checked again, ...
MinimizeMedia(c, usable) ==
  /\ call[c].pc = "minimize" /\ (usable => ~call[c].aborted)
  /\ IF usable THEN Go(c, "prepare") ELSE Ended(c, FALSE)
  /\ UNCHANGED <<losses, budget, held, ledger, breaker, minute>>

\* ... and joined with the text of the item.
PrepareVisualInput(c, usable) ==
  /\ call[c].pc = "prepare"
  /\ IF usable THEN Go(c, "resolve") ELSE Ended(c, FALSE)
  /\ UNCHANGED <<losses, budget, held, ledger, breaker, minute>>

\* The text stage looks into the cache before it reserves; ...
LookupText(c, hit, decided) ==
  /\ call[c].pc = "lookup" /\ call[c].stage = "text"
  /\ IF hit THEN Ended(c, decided) ELSE Go(c, "resolve")
  /\ UNCHANGED <<losses, budget, held, ledger, breaker, minute>>

\* ... the visual one after it has, and gives back what it reserved.
LookupVision(c, hit, decided) ==
  /\ call[c].pc = "lookup" /\ call[c].stage = "vision"
  /\ IF hit THEN Ended(c, decided) /\ Release(c) ELSE Go(c, "model") /\ UNCHANGED <<held, ledger>>
  /\ UNCHANGED <<losses, budget, breaker, minute>>

\* Slip: the circuit refuses, and what was reserved is not given back.
SlipTake(c, code) ==
  /\ IF code \in {None, "circuit-open"} THEN Reserve(c) ELSE UNCHANGED held
  /\ IF code = None THEN Acquire(call[c].stage, Route(c)) ELSE UNCHANGED breaker

\* The route is taken in one synchronous piece of code: the budget is reserved and
\* the circuit acquired, or neither is.
Take(c, code) ==
  IF code = None THEN Reserve(c) /\ Acquire(call[c].stage, Route(c)) ELSE UNCHANGED <<held, breaker>>

ResolveText(c, obstacle) ==
  LET code == Unavailable(c, obstacle) IN
  /\ call[c].pc = "resolve" /\ call[c].stage = "text" /\ Take(c, code)
  /\ IF code = None THEN Go(c, "model") ELSE Advance(c, FailureCategory(code))
  /\ UNCHANGED <<losses, budget, ledger, minute>>

ResolveVision(c, obstacle) ==
  LET code == Unavailable(c, obstacle) IN
  /\ call[c].pc = "resolve" /\ call[c].stage = "vision" /\ Take(c, code)
  /\ IF code = None THEN Go(c, "lookup") ELSE Advance(c, FailureCategory(code))
  /\ UNCHANGED <<losses, budget, ledger, minute>>

\* The request is counted whatever the model answers, and what it tells of the route
\* is recorded.
Counted(c, code) ==
  LET category == OutcomeCategory(code) IN
  /\ CommitReservation(c)
  /\ IF code = None
     THEN RecordSuccess(call[c].stage, Route(c)) /\ Go(c, "write")
     ELSE /\ Advance(c, category)
          /\ IF CanAdvanceToFallback(category)
             THEN RecordTemporaryFailure(call[c].stage, Route(c)) ELSE UNCHANGED breaker
  /\ UNCHANGED <<losses, budget, minute>>

TextAnswers(c, answer) ==
  call[c].pc = "model" /\ call[c].stage = "text" /\ Counted(c, ClassifyText(c, answer))

VisionAnswers(c, answer) ==
  call[c].pc = "model" /\ call[c].stage = "vision" /\ Counted(c, ClassifyVision(c, answer))

\* The signals are kept when they can be; the rules are evaluated with them.
WriteCache(c, decided) ==
  /\ call[c].pc = "write" /\ Ended(c, decided)
  /\ UNCHANGED <<losses, budget, held, ledger, breaker, minute>>

\* The decision is recorded, also one that was cancelled; or it fails.
RecordDecision(c) ==
  /\ call[c].pc = "record" /\ call' = [call EXCEPT ![c] = Done]
  /\ UNCHANGED <<losses, budget, held, ledger, breaker, minute>>

-----------------------------------------------------------------------------
\* The scheduler aborts a decision that is cancelled, superseded or too late.
Abort(c) ==
  /\ call[c].pc \notin {"idle", "record", "done"} /\ ~call[c].aborted
  /\ call' = [call EXCEPT ![c].aborted = TRUE]
  /\ UNCHANGED <<losses, budget, held, ledger, breaker, minute>>

NextMinute ==
  /\ minute < MaxMinute /\ minute + losses < MaxEvents /\ minute' = minute + 1
  /\ UNCHANGED <<losses, budget, call, held, ledger, breaker>>

\* The user sets another budget: what is asked from now on has a ledger of its own, and
\* the one of a budget that is set again is still there.
ChangeBudget ==
  /\ minute + losses < MaxEvents /\ losses' = losses + 1
  /\ \E b \in Budgets \ {budget} : budget' = b
  /\ UNCHANGED <<call, held, ledger, breaker, minute>>

\* The worker stops and starts again: the decisions under way end without an answer,
\* and nobody knows any more what was reserved, spent or failed.
WorkerRestarts ==
  /\ minute + losses < MaxEvents /\ losses' = losses + 1
  /\ call' = [c \in Calls |-> IF call[c].pc = "idle" THEN Idle ELSE Done]
  /\ held' = [c \in Calls |-> None] /\ ledger' = NoRequests /\ breaker' = NoFailures
  /\ UNCHANGED <<losses, budget, minute>>

\* A decision made before these may have been counted for a cloud model it could afford.
Init ==
  /\ budget \in Budgets
  /\ call = [c \in Calls |-> Idle] /\ held = [c \in Calls |-> None]
  /\ \E past \in {<<>>, <<0>>} :
       ledger = [a \in Accounts |-> [m \in Models |->
                  IF a = <<"text", budget>> /\ Execution[m] = "cloud" /\ Cost[m] <= Limit[budget]
                  THEN past ELSE <<>>]]
  /\ breaker = NoFailures
  /\ minute = 0 /\ losses = 0

Decides(c) ==
  \/ Enter(c) \/ PreprocessText(c) \/ RecordDecision(c)
  \/ \E yes \in BOOLEAN :
       \/ SelectMedia(c, yes) \/ ResolveMedia(c, yes) \/ PreflightMedia(c, yes)
       \/ MinimizeMedia(c, yes) \/ PrepareVisualInput(c, yes) \/ WriteCache(c, yes)
       \/ \E decided \in BOOLEAN : LookupText(c, yes, decided) \/ LookupVision(c, yes, decided)
  \/ \E obstacle \in Obstacles \cup {None} : ResolveText(c, obstacle) \/ ResolveVision(c, obstacle)
  \/ \E answer \in Answers : TextAnswers(c, answer) \/ VisionAnswers(c, answer)

Next ==
  \/ \E c \in Calls : Begin(c) \/ Decides(c) \/ Abort(c)
  \/ NextMinute \/ ChangeBudget \/ WorkerRestarts

Spec == Init /\ [][Next]_rVars

-----------------------------------------------------------------------------
\* Every variable keeps its type; a decision tries a route of its stage, or the stage has
\* none.
TypeOK ==
  /\ \A c \in Calls : /\ call[c].pc \in Places /\ call[c].stage \in Stages
                      /\ call[c].index = 1 \/ call[c].index \in DOMAIN Order[call[c].stage]
  /\ held \in [Calls -> [model : Models, at : 0..MaxMinute] \cup {None}]

\* A reservation is held by a decision that will commit it or give it back, and by no
\* other, on every way out of a stage: a circuit that refuses, a cached answer, a
\* fallback, a cancellation (resolveEligibleRoute, classify).  What is lost counts
\* against the concurrency for as long as the worker lives.
NoReservationLost ==
  \A c \in Calls :
    held[c] # None <=> (call[c].pc = "model" \/ (call[c].pc = "lookup" /\ call[c].stage = "vision"))

\* What a ledger counts for a model in a day goes over its limit at most by the requests
\* that may run at once, for what is reserved is not counted (reserve), also after the
\* settings changed while requests ran and came back to an earlier budget (budgetFor).
\* It bounds the day only while one worker and one budget last it: each start of the
\* worker and each other budget begins a ledger that counts nothing.
OverspendBounded ==
  \A a \in Accounts, m \in Models :
    Execution[m] = "cloud" => DailySpend(a, m) <= LimitOf(a) + (MaxByProvider - 1) * Cost[m]

\* The money spent on a model in a day stays within the limit: "The runtime reserves
\* a conservative upper bound before the request" (docs/14-api.md:254).
SpendWithinLimit ==
  \A a \in Accounts, m \in Models : Execution[m] = "cloud" => DailySpend(a, m) <= LimitOf(a)
=============================================================================
