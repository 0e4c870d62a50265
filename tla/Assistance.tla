----------------------------- MODULE Assistance ------------------------------
(* The help a model gives with a rule: a draft from what the user wants, or an     *)
(* explanation of a decision.  Every call tries its route and the fallbacks; what    *)
(* it reserves of the budget it gives back or spends.  The answers are cached in      *)
(* the database, which the profile's edits, other calls and its own failures          *)
(* change between the steps of a call.                                               *)
EXTENDS Nothing, RouteFallback, Naturals, Sequences, FiniteSets

CONSTANTS
  HelpCalls,     \* the calls
  Requests,      \* what is asked, apart from the revision of the profile
  HelpRoutes,    \* for each task, the primary model and its fallbacks
  Browser,       \* the models that need a document of the browser
  MaxConcurrent, \* the reservations held at once
  MaxRevision,   \* bounds the edits of the profile
  MaxFaults      \* bounds the failures of the database

VARIABLES
  asked,    \* each call: where it is, what it asked for and the route it tries
  reserved, \* the reservation of each call
  cache,    \* the answers cached, by their keys
  revision, \* of the profile
  faults

assistanceVars == <<asked, reserved, cache, revision, faults>>

Tasks == DOMAIN HelpRoutes
RouteModels == UNION {{HelpRoutes[t][n] : n \in DOMAIN HelpRoutes[t]} : t \in Tasks}

HelpPlaces == {"idle", "resolve", "lookup", "model", "write", "done"}
Outcomes == {"pending", "answered", "rejected", "unavailable", "threw"}

\* Every task has a primary model, and something is asked.
AssistanceAssumption ==
  /\ MaxRevision \in Nat /\ Requests # {} /\ "assistance-draft" \in Tasks
  /\ \A t \in Tasks : HelpRoutes[t] \in Seq(RouteModels) /\ HelpRoutes[t] # <<>>

\* What an answer says of where it comes from (trustedProvenance).
Provenance == [task : Tasks, model : RouteModels, request : Requests, revision : 0 .. MaxRevision]

HelpRoute(c) == HelpRoutes[asked[c].task][asked[c].index]

Made(c) == [task |-> asked[c].task, model |-> HelpRoute(c), request |-> asked[c].request,
            revision |-> asked[c].revision]

SlipKey(p) == <<p.task, p.model, p.request>>

\* The key of the cache: everything the answer depends on.
Key(p) == <<p.task, p.model, p.request, p.revision>>

-----------------------------------------------------------------------------
(* How a call goes on and ends.                                               *)

\* What a provider fails with, and why a route cannot be taken.  What the circuit of
\* the route says is an input.
FailureCodes == {"provider-unavailable", "timeout", "cancelled", "refused", "content-filtered",
                 "truncated", "invalid-output"}
HelpObstacles == {"model-not-found", "permission-missing", "credential-missing", "consent-missing",
              "language-unsupported", "input-too-large", "circuit-open",
              "provider-temporarily-unavailable", "fallback-not-authorized"}

RouteFailureCategory(code) ==
  CASE code \in {"provider-temporarily-unavailable", "circuit-open", "provider-unavailable", "timeout"} ->
         "temporary"
    [] code = "invalid-output" -> "invalid-output"
    [] code = "budget-blocked" -> "budget"
    [] code \in {"consent-missing", "credential-missing", "permission-missing"} -> "authorization"
    [] code \in {"language-unsupported", "input-too-large", "modality-unsupported"} -> "input"
    [] code = "cancelled" -> "cancelled"
    [] OTHER -> "configuration"

GoHelp(c, place) == asked' = [asked EXCEPT ![c].pc = place]

EndHelp(c, outcome, answer) ==
  asked' = [asked EXCEPT ![c].pc = "done", ![c].outcome = outcome, ![c].answer = answer]

\* A failure that allows it goes on to the next fallback; any other ends the call.
FailsWith(c, code, outcome) ==
  IF asked[c].index < Len(HelpRoutes[asked[c].task]) /\ CanAdvanceToFallback(RouteFailureCategory(code))
  THEN asked' = [asked EXCEPT ![c].index = @ + 1, ![c].pc = "resolve"]
  ELSE EndHelp(c, outcome, None)

Settle(c) == reserved' = [reserved EXCEPT ![c] = None]

-----------------------------------------------------------------------------
(* A call (routed-service.ts, ai/assistance/service.ts).                       *)

\* The providers can be read and a route is configured, or there is no call.
AskHelp(c, task, request, usable) ==
  /\ asked[c].pc = "idle"
  /\ asked' = [asked EXCEPT ![c] = [@ EXCEPT !.task = task, !.request = request, !.revision = revision,
       !.pc = IF usable THEN "resolve" ELSE "done",
       !.outcome = IF usable THEN "pending" ELSE "unavailable"]]
  /\ UNCHANGED <<reserved, cache, revision, faults>>

\* Permission, consent and credentials, then the budget, which is reserved; a browser
\* model whose document is closed gives it back.
ResolveAttempt(c, obstacle, opened) ==
  LET full == Cardinality({d \in HelpCalls : reserved[d] # None}) >= MaxConcurrent
      code == IF obstacle = None /\ full THEN "budget-blocked" ELSE obstacle
  IN
  /\ asked[c].pc = "resolve"
  /\ IF code # None THEN FailsWith(c, code, "unavailable") /\ UNCHANGED reserved
     ELSE IF HelpRoute(c) \in Browser /\ ~opened
     THEN FailsWith(c, "provider-unavailable", "unavailable") /\ UNCHANGED reserved
     ELSE GoHelp(c, "lookup") /\ reserved' = [reserved EXCEPT ![c] = HelpRoute(c)]
  /\ UNCHANGED <<cache, revision, faults>>

\* A request that is not valid is rejected before the cache is asked; it counts as
\* made.
RejectRequest(c) ==
  /\ asked[c].pc = "lookup" /\ Settle(c)
  /\ FailsWith(c, "input-too-large", "rejected")
  /\ UNCHANGED <<cache, revision, faults>>

\* An answer that was cached is given back with the reservation.
ReadCache(c) ==
  /\ asked[c].pc = "lookup"
  /\ IF Key(Made(c)) \in DOMAIN cache
     THEN EndHelp(c, "answered", cache[Key(Made(c))]) /\ Settle(c)
     ELSE GoHelp(c, "model") /\ UNCHANGED reserved
  /\ UNCHANGED <<cache, revision, faults>>

\* The model fails, or answers what does not pass the checks; the reservation is spent.
\* The limit of the time aborts the signal, so what it ends counts as cancelled, too.
Rejected(c, code) ==
  /\ asked[c].pc = "model"
  /\ asked[c].aborted => \/ code \in {"cancelled", "timeout"}
                         \/ code = "invalid-output" /\ asked[c].task = "assistance-explain"
  /\ Settle(c) /\ FailsWith(c, code, "rejected")
  /\ UNCHANGED <<cache, revision, faults>>

\* A valid draft, if the call was not cancelled meanwhile; ...
AnswersDraft(c) ==
  /\ asked[c].pc = "model" /\ asked[c].task = "assistance-draft" /\ ~asked[c].aborted
  /\ GoHelp(c, "write") /\ UNCHANGED <<reserved, cache, revision, faults>>

\* ... a valid explanation, also if it was.
AnswersExplanation(c) ==
  /\ asked[c].pc = "model" /\ asked[c].task = "assistance-explain"
  /\ GoHelp(c, "write") /\ UNCHANGED <<reserved, cache, revision, faults>>

\* It is cached, the reservation is spent, and the caller gets it.
PutAnswer(c) ==
  /\ asked[c].pc = "write"
  /\ cache' = [k \in DOMAIN cache \cup {Key(Made(c))} |-> IF k = Key(Made(c)) THEN Made(c) ELSE cache[k]]
  /\ EndHelp(c, "answered", Made(c)) /\ Settle(c)
  /\ UNCHANGED <<revision, faults>>

\* A cache that cannot be read or written throws through the service and the route:
\* nobody gives the reservation back.
CacheFails(c) ==
  /\ asked[c].pc \in {"lookup", "write"} /\ faults < MaxFaults /\ faults' = faults + 1
  /\ EndHelp(c, "threw", None)
  /\ UNCHANGED <<reserved, cache, revision>>

-----------------------------------------------------------------------------
AbortHelp(c) ==
  /\ asked[c].pc \notin {"idle", "done"} /\ ~asked[c].aborted
  /\ asked' = [asked EXCEPT ![c].aborted = TRUE] /\ UNCHANGED <<reserved, cache, revision, faults>>

\* The profile is edited while calls are under way.
Edit ==
  /\ revision < MaxRevision /\ revision' = revision + 1
  /\ UNCHANGED <<asked, reserved, cache, faults>>

\* The oldest entries of the cache make room for others.
TrimOldest(k) ==
  /\ cache' = [j \in DOMAIN cache \ {k} |-> cache[j]]
  /\ UNCHANGED <<asked, reserved, revision, faults>>

NotAsked == [pc |-> "idle", task |-> "assistance-draft", request |-> CHOOSE q \in Requests : TRUE,
         revision |-> 0, index |-> 1, aborted |-> FALSE, outcome |-> "pending", answer |-> None]

AssistanceInit ==
  /\ asked = [c \in HelpCalls |-> NotAsked] /\ reserved = [c \in HelpCalls |-> None]
  /\ cache = <<>> /\ revision = 0 /\ faults = 0

AssistanceStep(c) ==
  \/ \E task \in Tasks, request \in Requests, usable \in BOOLEAN : AskHelp(c, task, request, usable)
  \/ \E obstacle \in HelpObstacles \cup {None}, opened \in BOOLEAN : ResolveAttempt(c, obstacle, opened)
  \/ RejectRequest(c) \/ ReadCache(c) \/ AnswersDraft(c) \/ AnswersExplanation(c)
  \/ PutAnswer(c) \/ CacheFails(c) \/ AbortHelp(c)
  \/ \E code \in FailureCodes : Rejected(c, code)

AssistanceNext ==
  \/ (\E c \in HelpCalls : AssistanceStep(c))
  \/ Edit
  \/ (\E k \in DOMAIN cache : TrimOldest(k))

AssistanceSpec == AssistanceInit /\ [][AssistanceNext]_assistanceVars

-----------------------------------------------------------------------------
\* Calls, reservations and the cache are well formed.
AssistanceTypeOK ==
  /\ \A c \in HelpCalls :
       /\ asked[c].pc \in HelpPlaces /\ asked[c].outcome \in Outcomes
       /\ asked[c].answer \in Provenance \cup {None} /\ reserved[c] \in RouteModels \cup {None}
  /\ \A k \in DOMAIN cache : cache[k] \in Provenance

\* A call is answered with what was made for it: for its task and request, by a model of
\* its route and from the revision it was asked for, although the cache is shared, holds
\* answers of earlier revisions and the profile changes meanwhile (cacheKey).
AnswersItsRequest ==
  \A c \in HelpCalls : asked[c].outcome = "answered" => asked[c].answer = Made(c)

=============================================================================
