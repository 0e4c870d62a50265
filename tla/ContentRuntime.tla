--------------------------- MODULE ContentRuntime ---------------------------
(* What the content script does to one page: the elements the platform shows are   *)
(* observed, decided by the worker and hidden or given controls, while the platform *)
(* changes, removes and reuses them, the user hides and reveals, and the page moves  *)
(* on.  A runtime lives from one location to the next; the choices of the session    *)
(* outlive it.  Observers run right after the page's own task: a change of the page   *)
(* and what is observed of it are one step.                                           *)
EXTENDS Nothing, Naturals, Sequences, SequencesExt

CONSTANTS
  Elements,      \* the elements of the page
  Contents,      \* what an element may show
  Item,          \* the item each content is of
  Enabled,       \* the contents of the surfaces that are enabled
  Locations,     \* the locations of the page
  Supported,     \* those that have an enabled surface
  MaxChoices,    \* how many choices of the session are remembered
  MaxChanges     \* the bound of what page and user do

VARIABLES
  doc,       \* what each element shows
  el,        \* what the runtime knows of each element
  session,   \* the choices of the user for items, and the order they were made in
  requests,  \* the decisions the worker has not answered
  life,      \* the lifecycle: alive, suspended, running, and the location it is at
  epoch,     \* how many runtimes there were
  location,  \* where the page is
  changes    \* what page and user did

cVars == <<doc, el, session, requests, life, epoch, location, changes>>

\* Contents are told from what is not there, and a surface that is enabled shows contents.
PageAssumption ==
  /\ MaxChoices \in Nat
  /\ Enabled \subseteq Contents /\ Supported \subseteq Locations /\ None \notin Contents
  /\ None \notin {"show", "hide", "review"}
  /\ None \notin [content : Contents, revision : Nat]

PageItems == {Item[content] : content \in Contents}
Actions == {"show", "hide", "review"}
Unseen == [seen |-> None, revision |-> 0, latest |-> None, ruled |-> None,
           hidden |-> None, controls |-> None]

-----------------------------------------------------------------------------
(* The renderer, and the controls beside a candidate; an observation names the      *)
(* content and the instance it is of.                                               *)

IsCurrent(r, obs) == r.seen = obs

Restore(r) == [r EXCEPT !.hidden = None]

RemoveControls(r) == [r EXCEPT !.controls = None]

Mount(r, obs) ==
  IF r.controls # None THEN r ELSE [r EXCEPT !.controls = [of |-> obs, state |-> "pending"]]

SetDecisionState(r, state) ==
  IF r.controls = None THEN r ELSE [r EXCEPT !.controls.state = state]

Hide(r, obs) ==
  IF IsCurrent(r, obs) THEN [RemoveControls(r) EXCEPT !.hidden = obs] ELSE r

Show(r, obs, state) == SetDecisionState(Mount(Restore(r), obs), state)

-----------------------------------------------------------------------------
(* startDomContentRuntime.                                                          *)

Choice(obs) == session.chosen[Item[obs.content]]

\* An item that is chosen again is the latest.
Without(order, item) ==
  LET places == {i \in DOMAIN order : order[i] = item} IN
    IF places = {} THEN order ELSE RemoveAt(order, CHOOSE i \in places : TRUE)

\* Slip: the choices are all kept.
SlipRememberSessionAction(obs, action) ==
  LET item == Item[obs.content] IN
    session' = [chosen |-> [session.chosen EXCEPT ![item] = action],
                order |-> Append(Without(session.order, item), item)]

\* The last choice of an item is kept, the oldest choices are forgotten.
RememberSessionAction(obs, action) ==
  LET item == Item[obs.content]
      chosen == [session.chosen EXCEPT ![item] = action]
      order == Append(Without(session.order, item), item) IN
    session' = IF Len(order) > MaxChoices
               THEN [chosen |-> [chosen EXCEPT ![Head(order)] = None], order |-> Tail(order)]
               ELSE [chosen |-> chosen, order |-> order]

ApplyRuleDecision(r, obs, action) ==
  IF action = "hide" THEN Hide(r, obs)
  ELSE Show(r, obs, IF action = "review" THEN "conflict" ELSE "applied")

\* The choice of the user comes first, then a decision that can be replayed.
ApplyObservedState(r, obs, replayed) ==
  CASE Choice(obs) = "hide" -> Hide(r, obs)
    [] Choice(obs) = "show" -> Show(r, obs, "applied")
    [] Choice(obs) = None /\ replayed # None -> ApplyRuleDecision(r, obs, replayed)
    [] OTHER -> Mount(r, obs)

\* The same content under another instance keeps the decision that was made of it.
CanReplay(r, obs) ==
  /\ r.latest # None /\ r.latest # obs
  /\ r.latest.content = obs.content /\ r.ruled # None /\ r.ruled.content = obs.content

\* Slip: an element that is reused keeps what it had.
SlipObserve(r, obs) ==
  IF CanReplay(r, obs)
  THEN ApplyObservedState(RemoveControls([r EXCEPT !.latest = obs]), obs, r.ruled.action)
  ELSE ApplyObservedState([r EXCEPT !.latest = obs], obs, None)

Observe(r, obs) ==
  IF CanReplay(r, obs)
  THEN ApplyObservedState(RemoveControls([r EXCEPT !.latest = obs]), obs, r.ruled.action)
  ELSE LET fresh == IF r.latest # None THEN RemoveControls(Restore(r)) ELSE r IN
         ApplyObservedState([fresh EXCEPT !.latest = obs], obs, None)

-----------------------------------------------------------------------------
(* observeDomCandidates, and the surfaces of the installed adapters.                *)

\* What is shown gets an instance of its own; the runtime is told of it when its
\* surface is enabled.
Process(r, content) ==
  LET obs == [content |-> content, revision |-> r.revision]
      seen == [r EXCEPT !.seen = obs, !.revision = @ + 1] IN
    IF r.seen # None /\ r.seen.content = content THEN r
    ELSE IF content \in Enabled THEN Observe(seen, obs) ELSE seen

\* The worker is asked of what was observed and is not replayed.
Asked(e, before, after) ==
  IF after.latest # before.latest /\ ~CanReplay(before, after.latest)
  THEN {[epoch |-> epoch', element |-> e, of |-> after.latest]} ELSE {}

Unwatch(r) == [r EXCEPT !.seen = None]

\* The page shows something else in an element, takes it away or puts it back.
PageChanges(e, content) ==
  LET after == IF content = None THEN Unwatch(el[e]) ELSE Process(el[e], content) IN
  /\ ~life.suspended /\ changes < MaxChanges /\ doc[e] # content
  /\ doc' = [doc EXCEPT ![e] = content] /\ changes' = changes + 1
  /\ UNCHANGED <<session, life, epoch, location>>
  /\ IF life.running
     THEN el' = [el EXCEPT ![e] = after] /\ requests' = requests \cup Asked(e, el[e], after)
     ELSE UNCHANGED <<el, requests>>

-----------------------------------------------------------------------------
(* The decisions.                                                                   *)

\* The choice of the user stands, whatever the worker decides.
Decided(r, obs, action) ==
  LET ruled == [r EXCEPT !.ruled = [content |-> obs.content, action |-> action]] IN
    IF ~IsCurrent(r, obs) THEN r
    ELSE CASE Choice(obs) = "hide" -> Hide(ruled, obs)
           [] Choice(obs) = "show" -> Show(ruled, obs, "applied")
           [] OTHER -> ApplyRuleDecision(ruled, obs, action)

\* Slip: the decision of the worker stands, whatever the user chose.
SlipAnswer(q, action) ==
  /\ q \in requests /\ requests' = requests \ {q} /\ ~life.suspended
  /\ el' = IF life.running /\ q.epoch = epoch /\ IsCurrent(el[q.element], q.of)
           THEN [el EXCEPT ![q.element] =
             ApplyRuleDecision([@ EXCEPT !.ruled = [content |-> q.of.content, action |-> action]],
                               q.of, action)]
           ELSE el
  /\ UNCHANGED <<doc, session, life, epoch, location, changes>>

\* The worker answers, in any order; a runtime that was disabled does nothing.
Answer(q, action) ==
  /\ q \in requests /\ requests' = requests \ {q} /\ ~life.suspended
  /\ el' = IF life.running /\ q.epoch = epoch
           THEN [el EXCEPT ![q.element] = Decided(@, q.of, action)] ELSE el
  /\ UNCHANGED <<doc, session, life, epoch, location, changes>>

\* No decision, or every attempt to send the request failed: the content stays as it is.
NoAnswer(q, state) ==
  /\ q \in requests /\ requests' = requests \ {q} /\ ~life.suspended
  /\ el' = IF life.running /\ q.epoch = epoch /\ IsCurrent(el[q.element], q.of)
           THEN [el EXCEPT ![q.element] = SetDecisionState(@, state)] ELSE el
  /\ UNCHANGED <<doc, session, life, epoch, location, changes>>

\* The user hides a candidate for the session with its control, ...
UserHides(e) ==
  /\ ~life.suspended /\ changes < MaxChanges /\ changes' = changes + 1
  /\ life.running /\ doc[e] # None /\ el[e].controls # None
  /\ IsCurrent(el[e], el[e].controls.of)
  /\ RememberSessionAction(el[e].controls.of, "hide")
  /\ el' = [el EXCEPT ![e] = Hide(@, @.controls.of)]
  /\ UNCHANGED <<doc, requests, life, epoch, location>>

\* ... or reveals what is hidden with its placeholder.
Reveal(e) ==
  /\ ~life.suspended /\ changes < MaxChanges /\ changes' = changes + 1
  /\ life.running /\ doc[e] # None /\ el[e].hidden # None
  /\ IsCurrent(el[e], el[e].hidden)
  /\ RememberSessionAction(el[e].hidden, "show")
  /\ el' = [el EXCEPT ![e] = Mount(Restore(@), @.hidden)]
  /\ UNCHANGED <<doc, requests, life, epoch, location>>

-----------------------------------------------------------------------------
(* startPlatformContentLifecycle, and the control messages of the worker.           *)

\* What was done to the page is undone; what was observed is not forgotten.
Disabled == [e \in Elements |-> RemoveControls(Restore(el[e]))]

\* A new runtime observes what is there, or there is none on this location.
StartRuntime(at) ==
  LET first(e) == IF doc[e] = None THEN Unseen ELSE Process(Unseen, doc[e]) IN
  IF at \in Supported
  THEN /\ epoch' = epoch + 1 /\ el' = [e \in Elements |-> first(e)]
       /\ requests' = requests \cup UNION {Asked(e, Unseen, first(e)) : e \in Elements}
       /\ life' = [alive |-> TRUE, suspended |-> FALSE, running |-> TRUE, at |-> at]
  ELSE /\ el' = Disabled /\ UNCHANGED <<epoch, requests>>
       /\ life' = [alive |-> TRUE, suspended |-> FALSE, running |-> FALSE, at |-> at]

StopRuntime(after) == el' = Disabled /\ life' = after /\ UNCHANGED <<epoch, requests>>

\* The page moves: the runtime is told by the events of the history, and not when a
\* script of the page replaces the location.
Navigate(to, noticed) ==
  /\ ~life.suspended /\ changes < MaxChanges /\ changes' = changes + 1
  /\ location' = to
  /\ IF noticed /\ life.alive /\ ~(life.running /\ life.at = to)
     THEN StartRuntime(to) ELSE UNCHANGED <<el, requests, life, epoch>>
  /\ UNCHANGED <<doc, session>>

\* The page is kept aside and may come back, or goes for good.
PageHide(persisted) ==
  /\ life.alive /\ ~life.suspended /\ changes < MaxChanges /\ changes' = changes + 1
  /\ StopRuntime([life EXCEPT !.alive = persisted, !.suspended = persisted, !.running = FALSE])
  /\ UNCHANGED <<doc, session, location>>

PageShow ==
  /\ life.alive /\ life.suspended /\ StartRuntime(location)
  /\ UNCHANGED <<doc, session, location, changes>>

\* The worker says that the platform is active, again, or is not.
Activate ==
  /\ ~life.suspended /\ changes < MaxChanges /\ changes' = changes + 1
  /\ StartRuntime(location) /\ UNCHANGED <<doc, session, location>>

Deactivate ==
  /\ life.alive /\ ~life.suspended
  /\ StopRuntime([life EXCEPT !.alive = FALSE, !.running = FALSE])
  /\ UNCHANGED <<doc, session, location, changes>>

-----------------------------------------------------------------------------
PageInit ==
  /\ doc \in [Elements -> Enabled] /\ el = [e \in Elements |-> Unseen]
  /\ session = [chosen |-> [item \in PageItems |-> None], order |-> <<>>] /\ requests = {} /\ epoch = 0 /\ location \in Supported /\ changes = 0
  /\ life = [alive |-> FALSE, suspended |-> FALSE, running |-> FALSE, at |-> None]

PageNext ==
  \/ \E e \in Elements, content \in Contents \cup {None} : PageChanges(e, content)
  \/ \E q \in requests : \/ \E action \in Actions : Answer(q, action)
                         \/ \E state \in {"deferred", "failed"} : NoAnswer(q, state)
  \/ \E e \in Elements : UserHides(e) \/ Reveal(e)
  \/ \E to \in Locations, noticed \in BOOLEAN : Navigate(to, noticed)
  \/ \E persisted \in BOOLEAN : PageHide(persisted)
  \/ PageShow \/ Activate \/ Deactivate

PageSpec == PageInit /\ [][PageNext]_cVars

-----------------------------------------------------------------------------
\* Every variable keeps its type; the choices that are remembered are those of an order
\* that names each item once and not too many, and what was asked was asked by a runtime.
PageTypeOK ==
  /\ doc \in [Elements -> Contents \cup {None}] /\ location \in Locations /\ epoch \in Nat
  /\ session.chosen \in [PageItems -> {"show", "hide", None}]
  /\ session.order \in Seq(PageItems) /\ Len(session.order) <= MaxChoices
  /\ \A i, j \in DOMAIN session.order : session.order[i] = session.order[j] => i = j
  /\ \A item \in PageItems :
       session.chosen[item] # None <=> \E i \in DOMAIN session.order : session.order[i] = item
  /\ \A q \in requests : q.element \in Elements /\ q.epoch \in 1..epoch

\* What the page shows now is what was hidden of it: an element that is reused while
\* its decision is on its way, was applied or is replayed hides nothing it was not
\* decided for, and the placeholder reveals it (isCurrent).
HiddenAsObserved ==
  \A e \in Elements :
    doc[e] \in Enabled /\ el[e].hidden # None => el[e].hidden = el[e].seen /\ el[e].hidden.content = doc[e]

\* Everything that is hidden can be revealed: "Restore original content when a user
\* reveals it or disables ContentLens." (docs/06-platforms.md:43).
EveryHiddenReveals ==
  \A e \in Elements : doc[e] # None /\ el[e].hidden # None => IsCurrent(el[e], el[e].hidden)

\* Nothing stays of a runtime that was stopped, whatever is answered to it later
\* (disable, decide).
NoTraceLeft ==
  ~life.running => \A e \in Elements : el[e].hidden = None /\ el[e].controls = None

\* What the user chose for an item is not undone by a decision that arrives later
\* (decide): a candidate that stays what it was becomes hidden or shown as chosen.
ChoiceStands ==
  [][\A e \in Elements :
       /\ epoch' = epoch /\ life'.running /\ session' = session
       /\ el[e].seen # None /\ el'[e].seen = el[e].seen
       /\ (el'[e].hidden = None) # (el[e].hidden = None) /\ Choice(el[e].seen) # None
       => (Choice(el[e].seen) = "hide") = (el'[e].hidden # None)]_cVars
=============================================================================
