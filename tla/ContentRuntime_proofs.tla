----------------------- MODULE ContentRuntime_proofs ------------------------
(***************************************************************************)
(* Proofs about the content script, for any number of elements, contents,  *)
(* choices and runtimes.                                                   *)
(*                                                                         *)
(* HiddenAsObserved is not inductive: it says nothing of an element whose  *)
(* content is not enabled, and such an element keeps what was hidden of an *)
(* earlier content until it is observed again.  What clears it then is     *)
(* that the runtime remembers an observation of every element that it      *)
(* changed (Kept), and that it follows the page while it runs (Follows).   *)
(***************************************************************************)
EXTENDS ContentRuntime, TLAPS

Observation == [content : Enabled, revision : Nat]
States == {"pending", "applied", "conflict", "deferred", "failed"}

RowType ==
  [seen : [content : Contents, revision : Nat] \cup {None}, revision : Nat,
   latest : Observation \cup {None},
   ruled : [content : Enabled, action : Actions] \cup {None},
   hidden : Observation \cup {None},
   controls : [of : Observation, state : States] \cup {None}]

\* What is hidden of an element that shows an enabled content is this content, which is
\* the last that was observed of it; of no other element is something hidden that was
\* not observed.
Kept(r) ==
  /\ r \in RowType
  /\ r.seen # None /\ r.seen.content \in Enabled =>
       r.latest = r.seen /\ (r.hidden # None => r.hidden = r.seen)
  /\ r.hidden # None => r.latest # None

\* What was seen of an element is what it shows.
Follows(content, r) ==
  /\ content = None => r.seen = None
  /\ content # None => r.seen # None /\ r.seen.content = content

SessionType ==
  /\ DOMAIN session = {"chosen", "order"}
  /\ session.chosen \in [PageItems -> {"show", "hide", None}]

LifeType == [alive : BOOLEAN, suspended : BOOLEAN, running : BOOLEAN, at : Locations \cup {None}]

RequestType(q) == q.element \in Elements /\ q.of \in Observation

\* The inductive invariant.
IInv ==
  /\ doc \in [Elements -> Contents \cup {None}]
  /\ el \in [Elements -> RowType] /\ \A e \in Elements : Kept(el[e])
  /\ SessionType /\ life \in LifeType /\ location \in Locations /\ epoch \in Nat
  /\ \A q \in requests : RequestType(q)
  /\ life.running => \A e \in Elements : Follows(doc[e], el[e])
  /\ ~life.running => \A e \in Elements : el[e].hidden = None /\ el[e].controls = None

-----------------------------------------------------------------------------
(* What the renderer and the controls do to one element: they hide it or show   *)
(* it, and leave alone what was observed and decided.                           *)

Same(r, after) ==
  /\ after \in RowType /\ after.seen = r.seen /\ after.revision = r.revision
  /\ after.latest = r.latest /\ after.ruled = r.ruled

\* The element is shown, keeps what is hidden, or is hidden under an observation.
LEMMA RestoreRow ==
  ASSUME NEW r \in RowType PROVE Same(r, Restore(r)) /\ Restore(r).hidden = None
  BY DEF RowType, Same, Restore

LEMMA RemoveControlsRow ==
  ASSUME NEW r \in RowType
  PROVE  /\ Same(r, RemoveControls(r)) /\ RemoveControls(r).hidden = r.hidden
         /\ RemoveControls(r).controls = None
  BY DEF RowType, Same, RemoveControls

LEMMA MountRow ==
  ASSUME NEW r \in RowType, NEW obs \in Observation
  PROVE  Same(r, Mount(r, obs)) /\ Mount(r, obs).hidden = r.hidden
<1>1. [of |-> obs, state |-> "pending"] \in [of : Observation, state : States]
  BY DEF States
<1> QED BY <1>1 DEF RowType, Same, Mount

LEMMA SetDecisionStateRow ==
  ASSUME NEW r \in RowType, NEW state \in States
  PROVE  Same(r, SetDecisionState(r, state)) /\ SetDecisionState(r, state).hidden = r.hidden
<1>1. CASE r.controls = None
  BY <1>1 DEF RowType, Same, SetDecisionState
<1>2. CASE r.controls # None
  <2> DEFINE controls == [r.controls EXCEPT !.state = state]
  <2>1. r.controls \in [of : Observation, state : States]
    BY <1>2 DEF RowType
  <2>2. controls \in [of : Observation, state : States]
    BY <2>1
  <2>3. SetDecisionState(r, state) = [r EXCEPT !.controls = controls]
    BY <1>2 DEF SetDecisionState, RowType
  <2> HIDE DEF controls
  <2> QED BY <2>2, <2>3 DEF RowType, Same
<1> QED BY <1>1, <1>2

LEMMA HideRow ==
  ASSUME NEW r \in RowType, NEW obs \in Observation, IsCurrent(r, obs)
  PROVE  Same(r, Hide(r, obs)) /\ Hide(r, obs).hidden = obs
<1> DEFINE bare == RemoveControls(r)
<1>1. Same(r, bare)
  BY RemoveControlsRow
<1>2. Hide(r, obs) = [bare EXCEPT !.hidden = obs]
  BY DEF Hide
<1> HIDE DEF bare
<1> QED BY <1>1, <1>2 DEF Same, RowType

LEMMA ShowRow ==
  ASSUME NEW r \in RowType, NEW obs \in Observation, NEW state \in States
  PROVE  Same(r, Show(r, obs, state)) /\ Show(r, obs, state).hidden = None
<1>1. Same(r, Restore(r)) /\ Restore(r).hidden = None
  BY RestoreRow
<1>2. Same(r, Mount(Restore(r), obs)) /\ Mount(Restore(r), obs).hidden = None
  BY <1>1, MountRow DEF Same
<1> QED BY <1>2, SetDecisionStateRow DEF Show, Same

LEMMA ApplyRuleDecisionRow ==
  ASSUME NEW r \in RowType, NEW obs \in Observation, IsCurrent(r, obs), NEW action \in Actions
  PROVE  /\ Same(r, ApplyRuleDecision(r, obs, action))
         /\ ApplyRuleDecision(r, obs, action).hidden \in {None, obs}
<1>1. CASE action = "hide"
  BY <1>1, HideRow DEF ApplyRuleDecision
<1>2. CASE action # "hide"
  <2>1. PICK state \in States : ApplyRuleDecision(r, obs, action) = Show(r, obs, state)
    BY <1>2 DEF ApplyRuleDecision, States
  <2> QED BY <2>1, ShowRow
<1> QED BY <1>1, <1>2

-----------------------------------------------------------------------------
(* What a new observation of an element does to it.                             *)

\* A choice is one of two, or there is none.
LEMMA ChoiceType ==
  ASSUME PageAssumption, SessionType, NEW obs \in Observation
  PROVE  Choice(obs) \in {"show", "hide", None}
<1>1. Item[obs.content] \in PageItems
  BY DEF PageItems, Observation, PageAssumption
<1> QED BY <1>1 DEF Choice, SessionType

LEMMA ApplyObservedStateRow ==
  ASSUME PageAssumption, SessionType, NEW r \in RowType, NEW obs \in Observation,
         IsCurrent(r, obs), NEW replayed \in Actions \cup {None},
         replayed # None \/ r.hidden = None
  PROVE  /\ Same(r, ApplyObservedState(r, obs, replayed))
         /\ ApplyObservedState(r, obs, replayed).hidden \in {None, obs}
<1>1. CASE Choice(obs) = "hide"
  <2>1. ApplyObservedState(r, obs, replayed) = Hide(r, obs)
    BY <1>1 DEF ApplyObservedState, PageAssumption
  <2> QED BY <2>1, HideRow
<1>2. CASE Choice(obs) = "show"
  <2>1. ApplyObservedState(r, obs, replayed) = Show(r, obs, "applied") /\ "applied" \in States
    BY <1>2 DEF ApplyObservedState, PageAssumption, States
  <2> QED BY <2>1, ShowRow
<1>3. CASE Choice(obs) = None /\ replayed # None
  <2>1. ApplyObservedState(r, obs, replayed) = ApplyRuleDecision(r, obs, replayed)
    BY <1>3 DEF ApplyObservedState, PageAssumption
  <2> QED BY <1>3, <2>1, ApplyRuleDecisionRow
<1>4. CASE Choice(obs) = None /\ replayed = None
  <2>1. ApplyObservedState(r, obs, replayed) = Mount(r, obs)
    BY <1>4 DEF ApplyObservedState, PageAssumption
  <2> QED BY <1>4, <2>1, MountRow
<1> QED BY <1>1, <1>2, <1>3, <1>4, ChoiceType

\* An element that is observed shows its content or hides it under this observation.
LEMMA ObserveRow ==
  ASSUME PageAssumption, SessionType, NEW r \in RowType, NEW obs \in Observation,
         IsCurrent(r, obs), r.hidden # None => r.latest # None
  PROVE  /\ Observe(r, obs) \in RowType /\ Observe(r, obs).seen = obs
         /\ Observe(r, obs).latest = obs /\ Observe(r, obs).hidden \in {None, obs}
<1>1. CASE CanReplay(r, obs)
  <2> DEFINE after == [r EXCEPT !.latest = obs]
             bare == RemoveControls(after)
  <2>1. after \in RowType /\ after.seen = r.seen /\ after.latest = obs
    BY DEF RowType
  <2>2. bare \in RowType /\ bare.seen = obs /\ bare.latest = obs
    BY <2>1, RemoveControlsRow DEF Same, IsCurrent
  <2>3. r.ruled.action \in Actions /\ r.ruled.action # None
    BY <1>1 DEF CanReplay, RowType, PageAssumption, Actions
  <2>4. Observe(r, obs) = ApplyObservedState(bare, obs, r.ruled.action)
    BY <1>1 DEF Observe
  <2> HIDE DEF bare
  <2> QED BY <2>2, <2>3, <2>4, ApplyObservedStateRow DEF Same, IsCurrent
<1>2. CASE ~CanReplay(r, obs)
  <2> DEFINE fresh == IF r.latest # None THEN RemoveControls(Restore(r)) ELSE r
             after == [fresh EXCEPT !.latest = obs]
  <2>1. fresh \in RowType /\ fresh.seen = obs /\ fresh.hidden = None
    <3>1. CASE r.latest # None
      BY <3>1, RestoreRow, RemoveControlsRow DEF Same, IsCurrent
    <3>2. CASE r.latest = None
      BY <3>2 DEF IsCurrent
    <3> QED BY <3>1, <3>2
  <2> HIDE DEF fresh
  <2>2. after \in RowType /\ after.seen = obs /\ after.latest = obs /\ after.hidden = None
    BY <2>1 DEF RowType
  <2>3. Observe(r, obs) = ApplyObservedState(after, obs, None)
    BY <1>2 DEF Observe, fresh
  <2> HIDE DEF after
  <2> QED BY <2>2, <2>3, ApplyObservedStateRow DEF Same, IsCurrent
<1> QED BY <1>1, <1>2

\* What is processed is followed.
LEMMA ProcessRow ==
  ASSUME PageAssumption, SessionType, NEW r, Kept(r), NEW content \in Contents
  PROVE  /\ Kept(Process(r, content)) /\ Follows(content, Process(r, content))
         /\ Process(r, content).latest = None => r.latest = None
<1> DEFINE obs == [content |-> content, revision |-> r.revision]
           more == r.revision + 1
           marked == [r EXCEPT !.seen = obs]
           seen == [marked EXCEPT !.revision = more]
<1>0. r \in RowType /\ more \in Nat /\ obs \in [content : Contents, revision : Nat]
  BY DEF Kept, RowType
<1>1. obs # None /\ content # None
  BY <1>0 DEF PageAssumption
<1>2. marked \in RowType /\ marked.seen = obs /\ marked.hidden = r.hidden /\ marked.latest = r.latest
  BY <1>0 DEF RowType
<1>3. [r EXCEPT !.seen = obs, !.revision = @ + 1] = seen
  BY <1>0 DEF RowType
<1> HIDE DEF marked, more
<1>4. seen \in RowType /\ seen.seen = obs /\ seen.hidden = r.hidden /\ seen.latest = r.latest
  BY <1>0, <1>2 DEF RowType
<1>5. CASE r.seen # None /\ r.seen.content = content
  BY <1>1, <1>5 DEF Process, Follows
<1>6. CASE ~(r.seen # None /\ r.seen.content = content) /\ content \in Enabled
  <2>1. Process(r, content) = Observe(seen, obs)
    BY <1>3, <1>6 DEF Process
  <2>2. obs \in Observation
    BY <1>0, <1>6 DEF Observation, RowType
  <2> HIDE DEF seen
  <2>3. /\ Observe(seen, obs) \in RowType /\ Observe(seen, obs).seen = obs
        /\ Observe(seen, obs).latest = obs /\ Observe(seen, obs).hidden \in {None, obs}
    BY <1>4, <2>2, ObserveRow DEF IsCurrent, Kept
  <2> QED BY <1>1, <2>1, <2>3 DEF Kept, Follows
<1>7. CASE ~(r.seen # None /\ r.seen.content = content) /\ content \notin Enabled
  <2>1. Process(r, content) = seen
    BY <1>3, <1>7 DEF Process
  <2> HIDE DEF seen
  <2> QED BY <1>1, <1>4, <1>7, <2>1 DEF Kept, Follows
<1> QED BY <1>5, <1>6, <1>7

\* What is hidden or shown under the current observation is kept, and followed as before.
LEMMA KeptSame ==
  ASSUME PageAssumption, NEW r, Kept(r), NEW after, Same(r, after),
         \/ after.hidden \in {None, r.hidden}
         \/ r.seen \in Observation /\ after.hidden = r.seen
  PROVE  Kept(after) /\ \A content : Follows(content, r) => Follows(content, after)
<1>1. None \notin Observation /\ \A obs \in Observation : obs.content \in Enabled
  BY DEF PageAssumption, Observation
<1> QED BY <1>1 DEF Kept, Same, Follows

-----------------------------------------------------------------------------
(* The steps.                                                                   *)

\* Everything is unseen at first.
LEMMA UnseenKept == PageAssumption => Kept(Unseen) /\ Unseen \in RowType
<1>1. Unseen \in RowType
  BY DEF Unseen, RowType
<1> QED BY <1>1 DEF Kept, Unseen

LEMMA InitIInv == PageAssumption /\ PageInit => IInv
<1> SUFFICES ASSUME PageAssumption, PageInit PROVE IInv
  OBVIOUS
<1>1. /\ doc \in [Elements -> Contents \cup {None}] /\ location \in Locations /\ epoch = 0
      /\ life \in LifeType /\ ~life.running
  BY DEF PageInit, PageAssumption, LifeType
<1>2. SessionType
  BY DEF PageInit, SessionType
<1>3. el \in [Elements -> RowType] /\ \A e \in Elements : el[e] = Unseen
  BY UnseenKept DEF PageInit
<1>4. \A e \in Elements : Kept(el[e]) /\ el[e].hidden = None /\ el[e].controls = None
  BY <1>3, UnseenKept DEF Unseen
<1> QED BY <1>1, <1>2, <1>3, <1>4 DEF PageInit, IInv

\* One element changes while the runtime runs, and the page shows what it then follows.
LEMMA OneElement ==
  ASSUME IInv, NEW e \in Elements, NEW after, Kept(after), el' = [el EXCEPT ![e] = after],
         life.running, UNCHANGED <<life, location, epoch>>, SessionType',
         \A q \in requests' : RequestType(q),
         NEW content \in Contents \cup {None}, doc' = [doc EXCEPT ![e] = content],
         Follows(content, after)
  PROVE  IInv'
<1>1. after \in RowType
  BY DEF Kept
<1>2. /\ doc' \in [Elements -> Contents \cup {None}] /\ el' \in [Elements -> RowType]
  BY <1>1 DEF IInv
<1>3. ASSUME NEW d \in Elements PROVE Kept(el'[d]) /\ Follows(doc'[d], el'[d])
  BY <1>3 DEF IInv
<1>4. \A d \in Elements : Kept(el[d])' /\ Follows(doc[d], el[d])'
  BY <1>3 DEF Kept, Follows, RowType
<1> QED BY <1>2, <1>4 DEF IInv, LifeType, RequestType

\* The runtime hides or shows an element under the observation that is current.
LEMMA OneRow ==
  ASSUME PageAssumption, IInv, NEW e \in Elements, NEW after, Same(el[e], after),
         \/ after.hidden \in {None, el[e].hidden}
         \/ el[e].seen \in Observation /\ after.hidden = el[e].seen,
         el' = [el EXCEPT ![e] = after],
         life.running, UNCHANGED <<doc, life, location, epoch>>, SessionType',
         \A q \in requests' : RequestType(q)
  PROVE  IInv'
<1>1. Kept(el[e]) /\ Follows(doc[e], el[e]) /\ doc[e] \in Contents \cup {None}
  BY DEF IInv
<1>2. Kept(after) /\ Follows(doc[e], after)
  BY <1>1, KeptSame
<1>3. doc' = [doc EXCEPT ![e] = doc[e]]
  BY DEF IInv
<1> QED BY <1>1, <1>2, <1>3, OneElement

\* The choices stay well formed when one is remembered.
LEMMA RememberType ==
  ASSUME IInv, NEW obs, NEW action \in {"show", "hide"}, RememberSessionAction(obs, action)
  PROVE  SessionType'
<1> DEFINE chosen == [session.chosen EXCEPT ![Item[obs.content]] = action]
           order == Append(Without(session.order, Item[obs.content]), Item[obs.content])
           forgotten == [chosen EXCEPT ![Head(order)] = None]
<1>1. chosen \in [PageItems -> {"show", "hide", None}]
  BY DEF IInv, SessionType
<1>2. session' = IF Len(order) > MaxChoices THEN [chosen |-> forgotten, order |-> Tail(order)]
                 ELSE [chosen |-> chosen, order |-> order]
  BY DEF RememberSessionAction
<1> HIDE DEF chosen, order
<1>3. forgotten \in [PageItems -> {"show", "hide", None}]
  BY <1>1
<1> HIDE DEF forgotten
<1> QED BY <1>1, <1>2, <1>3 DEF SessionType

\* What the worker is asked about was observed.
LEMMA AskedType ==
  ASSUME NEW e \in Elements, NEW before, NEW after, after \in RowType,
         after.latest = None => before.latest = None
  PROVE  \A q \in Asked(e, before, after) : RequestType(q)
BY DEF Asked, RequestType, RowType

\* Nothing stays of what was done to the page.
LEMMA DisabledRows ==
  ASSUME PageAssumption, IInv
  PROVE  /\ Disabled \in [Elements -> RowType]
         /\ \A e \in Elements : /\ Kept(Disabled[e])
                                /\ Disabled[e].hidden = None /\ Disabled[e].controls = None
<1>1. ASSUME NEW e \in Elements
      PROVE  /\ Disabled[e] \in RowType /\ Kept(Disabled[e])
             /\ Disabled[e].hidden = None /\ Disabled[e].controls = None
  <2> DEFINE shown == Restore(el[e])
             after == RemoveControls(shown)
  <2>1. el[e] \in RowType /\ Kept(el[e])
    BY DEF IInv
  <2>2. Same(el[e], shown) /\ shown.hidden = None
    BY <2>1, RestoreRow
  <2>3. Same(shown, after) /\ after.hidden = None /\ after.controls = None
    BY <2>2, RemoveControlsRow DEF Same
  <2> HIDE DEF shown, after
  <2>4. Same(el[e], after)
    BY <2>2, <2>3 DEF Same
  <2>5. Kept(after)
    BY <2>1, <2>3, <2>4, KeptSame
  <2>6. Disabled[e] = after
    BY DEF Disabled, after, shown
  <2> QED BY <2>3, <2>4, <2>5, <2>6 DEF Same
<1> QED BY <1>1 DEF Disabled

LEMMA Stopped ==
  ASSUME PageAssumption, IInv, el' = Disabled, life' \in LifeType, ~life'.running,
         UNCHANGED <<doc, session, requests, epoch>>, location' \in Locations
  PROVE  IInv'
<1>1. /\ el' \in [Elements -> RowType]
      /\ \A e \in Elements : Kept(el'[e]) /\ el'[e].hidden = None /\ el'[e].controls = None
  BY DisabledRows
<1>2. \A e \in Elements : Kept(el[e])'
  BY <1>1 DEF Kept, RowType
<1> QED BY <1>1, <1>2 DEF IInv, SessionType, LifeType, RequestType

LEMMA Started ==
  ASSUME PageAssumption, IInv, NEW at \in Locations, StartRuntime(at),
         UNCHANGED <<doc, session>>, location' \in Locations
  PROVE  IInv'
<1> DEFINE first(e) == IF doc[e] = None THEN Unseen ELSE Process(Unseen, doc[e])
<1>1. CASE at \in Supported
  <2>1. /\ el' = [e \in Elements |-> first(e)]
        /\ requests' = requests \cup UNION {Asked(e, Unseen, first(e)) : e \in Elements}
        /\ life' = [alive |-> TRUE, suspended |-> FALSE, running |-> TRUE, at |-> at]
        /\ epoch' = epoch + 1
    BY <1>1 DEF StartRuntime
  <2>2. ASSUME NEW e \in Elements PROVE Kept(first(e)) /\ Follows(doc[e], first(e))
    <3>1. CASE doc[e] = None
      BY <3>1, UnseenKept DEF Follows, Unseen
    <3>2. CASE doc[e] # None
      <4>1. doc[e] \in Contents
        BY <3>2 DEF IInv
      <4> QED BY <3>2, <4>1, UnseenKept, ProcessRow DEF IInv
    <3> QED BY <3>1, <3>2
  <2>3. ASSUME NEW e \in Elements PROVE \A q \in Asked(e, Unseen, first(e)) : RequestType(q)
    BY <2>2, AskedType DEF Kept, Unseen
  <2> HIDE DEF first
  <2>4. el' \in [Elements -> RowType] /\ \A e \in Elements : Kept(el'[e]) /\ Follows(doc'[e], el'[e])
    BY <2>1, <2>2 DEF Kept
  <2>5. \A e \in Elements : Kept(el[e])' /\ Follows(doc[e], el[e])'
    BY <2>4 DEF Kept, Follows, RowType
  <2>6. \A q \in requests' : RequestType(q)
    BY <2>1, <2>3 DEF IInv
  <2>7. life' \in LifeType /\ life'.running /\ epoch' \in Nat
    BY <2>1 DEF LifeType, IInv
  <2> QED BY <2>4, <2>5, <2>6, <2>7 DEF IInv, SessionType, LifeType, RequestType
<1>2. CASE at \notin Supported
  <2>1. /\ el' = Disabled /\ UNCHANGED <<requests, epoch>>
        /\ life' = [alive |-> TRUE, suspended |-> FALSE, running |-> FALSE, at |-> at]
    BY <1>2 DEF StartRuntime
  <2> QED BY <2>1, Stopped DEF LifeType
<1> QED BY <1>1, <1>2

\* What the page shows changes.
LEMMA PageChangesIInv ==
  ASSUME PageAssumption, IInv, NEW e \in Elements, NEW content \in Contents \cup {None},
         PageChanges(e, content)
  PROVE  IInv'
<1> DEFINE after == IF content = None THEN Unwatch(el[e]) ELSE Process(el[e], content)
<1>0. /\ doc' = [doc EXCEPT ![e] = content] /\ UNCHANGED <<session, life, location, epoch>>
      /\ IF life.running
         THEN el' = [el EXCEPT ![e] = after] /\ requests' = requests \cup Asked(e, el[e], after)
         ELSE UNCHANGED <<el, requests>>
  BY DEF PageChanges
<1>1. CASE life.running
  <2>1. Kept(el[e]) /\ el[e] \in RowType
    BY DEF IInv
  <2>2. /\ Kept(after) /\ Follows(content, after)
        /\ after.latest = None => el[e].latest = None
    <3>1. CASE content = None
      <4>1. /\ Unwatch(el[e]) \in RowType /\ Unwatch(el[e]).seen = None
            /\ Unwatch(el[e]).latest = el[e].latest /\ Unwatch(el[e]).hidden = el[e].hidden
        BY <2>1 DEF Unwatch, RowType
      <4> QED BY <2>1, <3>1, <4>1 DEF Kept, Follows
    <3>2. CASE content # None
      BY <2>1, <3>2, ProcessRow DEF IInv
    <3> QED BY <3>1, <3>2
  <2> HIDE DEF after
  <2>3. \A q \in requests' : RequestType(q)
    BY <1>0, <1>1, <2>2, AskedType DEF IInv, Kept
  <2> QED BY <1>0, <1>1, <2>2, <2>3, OneElement DEF IInv, SessionType
<1>2. CASE ~life.running
  BY <1>0, <1>2 DEF IInv, SessionType, LifeType, RequestType, Kept, RowType
<1> QED BY <1>1, <1>2

\* What a decision makes of an element.
DecidedRow(r, after, obs) ==
  /\ after \in RowType /\ after.seen = r.seen /\ after.latest = r.latest
  /\ after = r \/ (IsCurrent(r, obs) /\ after.hidden \in {None, obs})

LEMMA DecidedKept ==
  ASSUME PageAssumption, SessionType, NEW r \in RowType, NEW obs \in Observation,
         NEW action \in Actions
  PROVE  DecidedRow(r, Decided(r, obs, action), obs)
<1> DEFINE ruling == [content |-> obs.content, action |-> action]
           ruled == [r EXCEPT !.ruled = ruling]
<1>1. ruling \in [content : Enabled, action : Actions]
  BY DEF Observation
<1> HIDE DEF ruling
<1>2. ruled \in RowType /\ ruled.seen = r.seen /\ ruled.latest = r.latest
  BY <1>1 DEF RowType
<1>3. CASE ~IsCurrent(r, obs)
  BY <1>3 DEF Decided, DecidedRow
<1>4. CASE IsCurrent(r, obs)
  <2>1. IsCurrent(ruled, obs)
    BY <1>2, <1>4 DEF IsCurrent
  <2>2. \/ Decided(r, obs, action) = Hide(ruled, obs)
        \/ Decided(r, obs, action) = Show(ruled, obs, "applied")
        \/ Decided(r, obs, action) = ApplyRuleDecision(ruled, obs, action)
    BY <1>4, ChoiceType DEF Decided, PageAssumption, ruling
  <2> HIDE DEF ruled
  <2>3. "applied" \in States
    BY DEF States
  <2>4. /\ Same(ruled, Decided(r, obs, action))
        /\ Decided(r, obs, action).hidden \in {None, obs}
    BY <1>2, <2>1, <2>2, <2>3, HideRow, ShowRow, ApplyRuleDecisionRow
  <2> QED BY <1>2, <1>4, <2>4 DEF Same, DecidedRow
<1> QED BY <1>3, <1>4

\* An answer.
LEMMA AnswerIInv ==
  ASSUME PageAssumption, IInv, NEW q \in requests,
         \/ \E action \in Actions : Answer(q, action)
         \/ \E state \in {"deferred", "failed"} : NoAnswer(q, state)
  PROVE  IInv'
<1>0. /\ UNCHANGED <<doc, session, life, epoch, location>> /\ RequestType(q)
      /\ \A p \in requests' : RequestType(p)
  BY DEF Answer, NoAnswer, IInv
<1> DEFINE e == q.element
<1>1. e \in Elements /\ el[e] \in RowType /\ Kept(el[e]) /\ q.of \in Observation /\ SessionType
  BY <1>0 DEF RequestType, IInv
<1>2. CASE el' = el
  BY <1>0, <1>2 DEF IInv, SessionType, LifeType, RequestType, Kept, RowType, Follows
<1>3. ASSUME life.running, NEW after, DecidedRow(el[e], after, q.of), el' = [el EXCEPT ![e] = after]
      PROVE  IInv'
  <2>1. Kept(after) /\ Follows(doc[e], after) /\ doc[e] \in Contents \cup {None}
    <3>1. Follows(doc[e], el[e]) /\ doc[e] \in Contents \cup {None}
      BY <1>1, <1>3 DEF IInv
    <3>2. None \notin Observation /\ \A obs \in Observation : obs.content \in Enabled
      BY DEF PageAssumption, Observation
    <3> QED BY <1>1, <1>3, <3>1, <3>2 DEF DecidedRow, Kept, Follows, IsCurrent
  <2>2. doc' = [doc EXCEPT ![e] = doc[e]] /\ SessionType'
    BY <1>0, <1>1 DEF IInv, SessionType
  <2> HIDE DEF e
  <2> QED BY <1>0, <1>1, <1>3, <2>1, <2>2, OneElement
<1>4. ASSUME NEW action \in Actions, Answer(q, action), life.running, q.epoch = epoch PROVE IInv'
  <2>1. el' = [el EXCEPT ![e] = Decided(el[e], q.of, action)]
    BY <1>4 DEF Answer
  <2>2. DecidedRow(el[e], Decided(el[e], q.of, action), q.of)
    BY <1>1, DecidedKept
  <2> QED BY <1>3, <1>4, <2>1, <2>2
<1>5. ASSUME NEW state \in {"deferred", "failed"}, NoAnswer(q, state), life.running,
             IsCurrent(el[e], q.of)
      PROVE  IInv'
  <2>1. el' = [el EXCEPT ![e] = SetDecisionState(el[e], state)] \/ el' = el
    BY <1>5 DEF NoAnswer
  <2>2. Same(el[e], SetDecisionState(el[e], state)) /\ SetDecisionState(el[e], state).hidden = el[e].hidden
    BY <1>1, SetDecisionStateRow DEF States
  <2>3. SessionType'
    BY <1>0, <1>1 DEF SessionType
  <2> QED BY <1>0, <1>1, <1>2, <1>5, <2>1, <2>2, <2>3, OneRow
<1> QED BY <1>2, <1>4, <1>5 DEF Answer, NoAnswer

\* A choice of the user.
LEMMA UserIInv ==
  ASSUME PageAssumption, IInv, NEW e \in Elements, UserHides(e) \/ Reveal(e)
  PROVE  IInv'
<1>0. /\ UNCHANGED <<doc, requests, life, location, epoch>> /\ life.running
      /\ el[e] \in RowType /\ \A q \in requests' : RequestType(q)
  BY DEF UserHides, Reveal, IInv
<1>1. CASE UserHides(e)
  <2> DEFINE obs == el[e].controls.of
  <2>1. obs \in Observation /\ IsCurrent(el[e], obs)
    BY <1>0, <1>1 DEF UserHides, RowType
  <2>2. SessionType'
    BY <1>1, RememberType DEF UserHides
  <2>3. el' = [el EXCEPT ![e] = Hide(el[e], obs)]
    BY <1>1 DEF UserHides, IInv
  <2>4. Same(el[e], Hide(el[e], obs)) /\ Hide(el[e], obs).hidden = obs
    BY <1>0, <2>1, HideRow
  <2> HIDE DEF obs
  <2> QED BY <1>0, <2>1, <2>2, <2>3, <2>4, OneRow DEF IsCurrent
<1>2. CASE Reveal(e)
  <2> DEFINE obs == el[e].hidden
             shown == Restore(el[e])
  <2>1. obs \in Observation
    BY <1>0, <1>2 DEF Reveal, RowType
  <2>2. SessionType'
    BY <1>2, RememberType DEF Reveal
  <2>3. el' = [el EXCEPT ![e] = Mount(shown, obs)]
    BY <1>2 DEF Reveal, IInv
  <2>4. Same(el[e], shown) /\ shown.hidden = None
    BY <1>0, RestoreRow
  <2> HIDE DEF obs, shown
  <2>5. Same(el[e], Mount(shown, obs)) /\ Mount(shown, obs).hidden = None
    BY <2>1, <2>4, MountRow DEF Same
  <2> QED BY <1>0, <2>2, <2>3, <2>5, OneRow
<1> QED BY <1>1, <1>2

\* A runtime starts or stops.
LEMMA LifeIInv ==
  ASSUME PageAssumption, IInv,
         \/ \E to \in Locations, noticed \in BOOLEAN : Navigate(to, noticed)
         \/ \E persisted \in BOOLEAN : PageHide(persisted)
         \/ PageShow \/ Activate \/ Deactivate
  PROVE  IInv'
<1>0. life \in LifeType /\ location \in Locations
  BY DEF IInv
<1>1. ASSUME NEW to \in Locations, NEW noticed \in BOOLEAN, Navigate(to, noticed) PROVE IInv'
  <2>1. UNCHANGED <<doc, session>> /\ location' \in Locations
    BY <1>1 DEF Navigate
  <2>2. CASE StartRuntime(to)
    BY <2>1, <2>2, Started
  <2>3. CASE UNCHANGED <<el, requests, life, epoch>>
    BY <2>1, <2>3 DEF IInv, SessionType, LifeType, RequestType, Kept, RowType, Follows
  <2> QED BY <1>1, <2>2, <2>3 DEF Navigate
<1>2. ASSUME NEW persisted \in BOOLEAN, PageHide(persisted) PROVE IInv'
  <2> DEFINE after == [life EXCEPT !.alive = persisted, !.suspended = persisted, !.running = FALSE]
  <2>1. after \in LifeType /\ ~after.running
    BY <1>0 DEF LifeType
  <2>2. el' = Disabled /\ life' = after /\ UNCHANGED <<doc, session, requests, epoch, location>>
    BY <1>2 DEF PageHide, StopRuntime
  <2> HIDE DEF after
  <2> QED BY <1>0, <2>1, <2>2, Stopped
<1>3. CASE PageShow \/ Activate
  BY <1>0, <1>3, Started DEF PageShow, Activate
<1>4. CASE Deactivate
  <2> DEFINE after == [life EXCEPT !.alive = FALSE, !.running = FALSE]
  <2>1. after \in LifeType /\ ~after.running
    BY <1>0 DEF LifeType
  <2>2. el' = Disabled /\ life' = after /\ UNCHANGED <<doc, session, requests, epoch, location>>
    BY <1>4 DEF Deactivate, StopRuntime
  <2> HIDE DEF after
  <2> QED BY <1>0, <2>1, <2>2, Stopped
<1> QED BY <1>1, <1>2, <1>3, <1>4

\* Every step keeps the invariant.
LEMMA NextIInv == PageAssumption /\ IInv /\ [PageNext]_cVars => IInv'
<1> SUFFICES ASSUME PageAssumption, IInv, [PageNext]_cVars PROVE IInv'
  OBVIOUS
<1>1. CASE UNCHANGED cVars
  BY <1>1 DEF cVars, IInv, SessionType, LifeType, RequestType, Kept, RowType, Follows
<1> QED BY <1>1, PageChangesIInv, AnswerIInv, UserIInv, LifeIInv DEF PageNext

-----------------------------------------------------------------------------
\* The choice of the user stands for an element in a step.
Stands(e) ==
  /\ epoch' = epoch /\ life'.running /\ session' = session
  /\ el[e].seen # None /\ el'[e].seen = el[e].seen
  /\ (el'[e].hidden = None) # (el[e].hidden = None) /\ Choice(el[e].seen) # None
  => (Choice(el[e].seen) = "hide") = (el'[e].hidden # None)

\* A decision does to an element what the user chose.
LEMMA DecidedStands ==
  ASSUME PageAssumption, SessionType, NEW r \in RowType, NEW obs \in Observation,
         NEW action \in Actions, IsCurrent(r, obs), Choice(obs) # None
  PROVE  (Choice(obs) = "hide") = (Decided(r, obs, action).hidden # None)
<1> DEFINE ruling == [content |-> obs.content, action |-> action]
           ruled == [r EXCEPT !.ruled = ruling]
<1>1. ruling \in [content : Enabled, action : Actions]
  BY DEF Observation
<1> HIDE DEF ruling
<1>2. ruled \in RowType /\ IsCurrent(ruled, obs)
  BY <1>1 DEF RowType, IsCurrent
<1>3. CASE Choice(obs) = "hide"
  <2>1. Decided(r, obs, action) = Hide(ruled, obs)
    BY <1>3 DEF Decided, ruling
  <2> HIDE DEF ruled
  <2>2. obs # None
    BY DEF PageAssumption, Observation
  <2> QED BY <1>2, <1>3, <2>1, <2>2, HideRow
<1>4. CASE Choice(obs) = "show"
  <2>1. Decided(r, obs, action) = Show(ruled, obs, "applied") /\ "applied" \in States
    BY <1>4 DEF Decided, ruling, States
  <2> HIDE DEF ruled
  <2> QED BY <1>2, <1>4, <2>1, ShowRow
<1> QED BY <1>3, <1>4, ChoiceType

\* An answer does what the user chose, or changes nothing of what is hidden.
LEMMA AnswerStands ==
  ASSUME PageAssumption, IInv, NEW e \in Elements, NEW q \in requests,
         \/ \E action \in Actions : Answer(q, action)
         \/ \E state \in {"deferred", "failed"} : NoAnswer(q, state)
  PROVE  Stands(e)
<1>0. el[e] \in RowType /\ SessionType /\ q.of \in Observation
  BY DEF IInv, RequestType
<1>1. ASSUME NEW action \in Actions, Answer(q, action) PROVE Stands(e)
  <2>1. CASE el'[e] = Decided(el[e], q.of, action) /\ IsCurrent(el[e], q.of)
    BY <1>0, <2>1, DecidedStands DEF Stands, IsCurrent
  <2>2. CASE el'[e] = el[e]
    BY <2>2 DEF Stands
  <2>3. el' = el \/ el' = [el EXCEPT ![q.element] = Decided(el[q.element], q.of, action)]
    BY <1>1 DEF Answer
  <2>4. ~IsCurrent(el[e], q.of) => Decided(el[e], q.of, action) = el[e]
    BY DEF Decided
  <2> QED BY <2>1, <2>2, <2>3, <2>4 DEF IInv
<1>2. ASSUME NEW state \in {"deferred", "failed"}, NoAnswer(q, state) PROVE Stands(e)
  <2>1. el' = el \/ el' = [el EXCEPT ![q.element] = SetDecisionState(el[q.element], state)]
    BY <1>2 DEF NoAnswer
  <2>2. SetDecisionState(el[e], state).hidden = el[e].hidden
    BY <1>0, SetDecisionStateRow DEF States
  <2>3. el'[e].hidden = el[e].hidden
    BY <2>1, <2>2 DEF IInv
  <2> QED BY <2>3 DEF Stands
<1> QED BY <1>1, <1>2

\* What is remembered without a change was chosen before.
LEMMA RememberStands ==
  ASSUME IInv, PageAssumption, NEW obs \in Observation, NEW action \in {"show", "hide"},
         RememberSessionAction(obs, action), session' = session, Choice(obs) # None
  PROVE  Choice(obs) = action
<1> DEFINE item == Item[obs.content]
           chosen == [session.chosen EXCEPT ![item] = action]
           order == Append(Without(session.order, item), item)
           forgotten == [chosen EXCEPT ![Head(order)] = None]
<1>1. item \in PageItems /\ session.chosen \in [PageItems -> {"show", "hide", None}]
  BY DEF PageItems, Observation, PageAssumption, IInv, SessionType
<1>2. session' = IF Len(order) > MaxChoices THEN [chosen |-> forgotten, order |-> Tail(order)]
                 ELSE [chosen |-> chosen, order |-> order]
  BY DEF RememberSessionAction
<1> HIDE DEF order
<1>3. session.chosen = forgotten \/ session.chosen = chosen
  <2> HIDE DEF chosen, forgotten
  <2> QED BY <1>2
<1>4. chosen[item] = action /\ forgotten[item] \in {action, None}
  BY <1>1
<1> HIDE DEF chosen, forgotten
<1> QED BY <1>3, <1>4 DEF Choice, item

\* Every step lets the choice stand.
LEMMA NextStands ==
  ASSUME PageAssumption, IInv, [PageNext]_cVars, NEW e \in Elements
  PROVE  Stands(e)
<1>0. el[e] \in RowType /\ el \in [Elements -> RowType]
  BY DEF IInv
<1>1. CASE UNCHANGED el
  BY <1>1 DEF Stands
<1>2. ASSUME NEW d \in Elements, NEW content \in Contents \cup {None}, PageChanges(d, content)
      PROVE  Stands(e)
  <2>1. CASE d # e \/ ~life.running
    BY <1>0, <1>1, <1>2, <2>1 DEF PageChanges, Stands
  <2>2. CASE d = e /\ life.running
    <3>1. content = None => el'[e].seen = None
      BY <1>0, <1>2, <2>2 DEF PageChanges, Unwatch, RowType
    <3>2. content # None => el'[e] = Process(el[e], content)
      BY <1>0, <1>2, <2>2 DEF PageChanges
    <3>3. CASE content # None /\ el[e].seen # None /\ el[e].seen.content = content
      BY <3>2, <3>3 DEF Process, Stands
    <3>4. CASE content # None /\ ~(el[e].seen # None /\ el[e].seen.content = content)
      <4>1. Follows(content, el'[e])
        BY <3>2, <3>4, ProcessRow DEF IInv
      <4> QED BY <3>4, <4>1 DEF Follows, Stands
    <3> QED BY <3>1, <3>3, <3>4 DEF Stands
  <2> QED BY <2>1, <2>2
<1>3. ASSUME NEW d \in Elements, UserHides(d) PROVE Stands(e)
  <2> DEFINE obs == el[d].controls.of
  <2>1. el[d] \in RowType /\ obs \in Observation /\ IsCurrent(el[d], obs)
    BY <1>3 DEF UserHides, IInv, RowType
  <2>2. el' = [el EXCEPT ![d] = Hide(el[d], obs)] /\ RememberSessionAction(obs, "hide")
    BY <1>3 DEF UserHides, IInv
  <2>3. Hide(el[d], obs).hidden = obs /\ obs # None
    BY <2>1, HideRow DEF PageAssumption, Observation
  <2> HIDE DEF obs
  <2>4. session' = session /\ Choice(obs) # None => Choice(obs) = "hide"
    BY <2>1, <2>2, RememberStands
  <2> QED BY <1>0, <2>1, <2>2, <2>3, <2>4 DEF Stands, IsCurrent
<1>4. ASSUME NEW d \in Elements, Reveal(d) PROVE Stands(e)
  <2> DEFINE obs == el[d].hidden
             shown == Restore(el[d])
  <2>1. el[d] \in RowType /\ obs \in Observation /\ IsCurrent(el[d], obs)
    BY <1>4 DEF Reveal, IInv, RowType
  <2>2. el' = [el EXCEPT ![d] = Mount(shown, obs)] /\ RememberSessionAction(obs, "show")
    BY <1>4 DEF Reveal, IInv
  <2>3. Same(el[d], shown) /\ shown.hidden = None
    BY <2>1, RestoreRow
  <2> HIDE DEF obs, shown
  <2>4. Mount(shown, obs).hidden = None
    BY <2>1, <2>3, MountRow DEF Same
  <2>5. session' = session /\ Choice(obs) # None => Choice(obs) = "show"
    BY <2>1, <2>2, RememberStands
  <2> QED BY <1>0, <2>1, <2>2, <2>4, <2>5 DEF Stands, IsCurrent
<1>5. CASE \/ \E to \in Locations, noticed \in BOOLEAN : Navigate(to, noticed)
           \/ \E persisted \in BOOLEAN : PageHide(persisted)
           \/ PageShow \/ Activate \/ Deactivate
  <2>1. ASSUME NEW at, StartRuntime(at) PROVE Stands(e)
    BY <2>1 DEF StartRuntime, Stands, IInv
  <2>2. ~life'.running => Stands(e)
    BY DEF Stands
  <2>3. CASE \E persisted \in BOOLEAN : PageHide(persisted)
    BY <2>2, <2>3 DEF PageHide, StopRuntime, IInv, LifeType
  <2>4. CASE Deactivate
    BY <2>2, <2>4 DEF Deactivate, StopRuntime, IInv, LifeType
  <2>5. CASE \E to \in Locations, noticed \in BOOLEAN : Navigate(to, noticed)
    BY <1>1, <2>1, <2>5 DEF Navigate
  <2>6. CASE PageShow \/ Activate
    BY <2>1, <2>6 DEF PageShow, Activate
  <2> QED BY <1>5, <2>3, <2>4, <2>5, <2>6
<1> QED BY <1>1, <1>2, <1>3, <1>4, <1>5, AnswerStands DEF PageNext, cVars

-----------------------------------------------------------------------------
(* The choices of the session, and what was asked.                              *)

\* The choices are those of an order that names each item once.
Remembered(s) ==
  /\ DOMAIN s = {"chosen", "order"}
  /\ s.chosen \in [PageItems -> {"show", "hide", None}] /\ s.order \in Seq(PageItems)
  /\ \A i, j \in DOMAIN s.order : s.order[i] = s.order[j] => i = j
  /\ \A item \in PageItems : s.chosen[item] # None <=> \E i \in DOMAIN s.order : s.order[i] = item

\* What is left of a sequence without one of its elements.
LEMMA RemoveAtOf ==
  ASSUME NEW S, NEW s \in Seq(S), NEW k \in 1 .. Len(s)
  PROVE  /\ RemoveAt(s, k) \in Seq(S) /\ Len(RemoveAt(s, k)) = Len(s) - 1
         /\ \A i \in 1 .. Len(s) - 1 : RemoveAt(s, k)[i] = IF i < k THEN s[i] ELSE s[i + 1]
<1> DEFINE front == SubSeq(s, 1, k - 1)
           rest == SubSeq(s, k + 1, Len(s))
<1>1. Len(s) \in Nat /\ k \in Nat /\ k <= Len(s) /\ 1 <= k
  OBVIOUS
<1>2. front \in Seq(S) /\ Len(front) = k - 1 /\ \A i \in 1 .. k - 1 : front[i] = s[i]
  BY <1>1
<1>3. rest \in Seq(S) /\ Len(rest) = Len(s) - k /\ \A i \in 1 .. Len(s) - k : rest[i] = s[i + k]
  BY <1>1
<1>4. RemoveAt(s, k) = front \o rest
  BY DEF RemoveAt
<1> HIDE DEF front, rest
<1>5. /\ front \o rest \in Seq(S) /\ Len(front \o rest) = Len(s) - 1
      /\ \A i \in 1 .. Len(s) - 1 :
           (front \o rest)[i] = IF i <= k - 1 THEN front[i] ELSE rest[i - (k - 1)]
  <2>1. front \in Seq(S) /\ rest \in Seq(S)
    BY <1>2, <1>3
  <2>4. front \o rest \in Seq(S)
    BY <2>1
  <2>5. Len(front \o rest) = Len(front) + Len(rest)
    BY <2>1
  <2>2. \A i \in 1 .. Len(front) + Len(rest) :
          (front \o rest)[i] = IF i <= Len(front) THEN front[i] ELSE rest[i - Len(front)]
    BY <1>2, <1>3
  <2>3. Len(front) + Len(rest) = Len(s) - 1
    BY <1>1, <1>2, <1>3
  <2> QED BY <1>2, <2>2, <2>3, <2>4, <2>5
<1>6. ASSUME NEW i \in 1 .. Len(s) - 1, i >= k PROVE rest[i - (k - 1)] = s[i + 1]
  <2>1. i - (k - 1) \in 1 .. Len(s) - k /\ (i - (k - 1)) + k = i + 1
    BY <1>1, <1>6
  <2> QED BY <1>3, <2>1
<1>7. ASSUME NEW i \in 1 .. Len(s) - 1, i < k PROVE i <= k - 1 /\ front[i] = s[i]
  BY <1>1, <1>2, <1>7
<1>8. \A i \in 1 .. Len(s) - 1 : (i < k <=> i <= k - 1) /\ (~(i < k) <=> i >= k)
  BY <1>1
<1> QED BY <1>4, <1>5, <1>6, <1>7, <1>8

\* An order without an item names the others once, and it no more.
LEMMA WithoutItem ==
  ASSUME NEW order \in Seq(PageItems), \A i, j \in DOMAIN order : order[i] = order[j] => i = j,
         NEW item \in PageItems
  PROVE  LET left == Without(order, item) IN
         /\ left \in Seq(PageItems)
         /\ \A i, j \in DOMAIN left : left[i] = left[j] => i = j
         /\ \A other \in PageItems :
              (\E i \in DOMAIN left : left[i] = other)
                <=> other # item /\ \E i \in DOMAIN order : order[i] = other
         /\ Len(left) <= Len(order)
<1> DEFINE places == {i \in DOMAIN order : order[i] = item}
           k == CHOOSE i \in places : TRUE
           left == RemoveAt(order, k)
<1>0. DOMAIN order = 1 .. Len(order) /\ Len(order) \in Nat
  OBVIOUS
<1>1. CASE places = {}
  BY <1>0, <1>1 DEF Without
<1>2. CASE places # {}
  <2>1. k \in 1 .. Len(order) /\ order[k] = item
    BY <1>0, <1>2
  <2>2. Without(order, item) = left
    BY <1>2 DEF Without
  <2> HIDE DEF k
  <2>3. /\ left \in Seq(PageItems) /\ Len(left) = Len(order) - 1
        /\ \A i \in 1 .. Len(order) - 1 : left[i] = IF i < k THEN order[i] ELSE order[i + 1]
    BY <2>1, RemoveAtOf
  <2> HIDE DEF left
  <2> DEFINE at(i) == IF i < k THEN i ELSE i + 1
  <2>4. DOMAIN left = 1 .. Len(order) - 1
    BY <2>3
  <2>5. ASSUME NEW i \in 1 .. Len(order) - 1
        PROVE  at(i) \in 1 .. Len(order) /\ at(i) # k /\ left[i] = order[at(i)]
    BY <1>0, <2>1, <2>3
  <2>6. ASSUME NEW i \in 1 .. Len(order) - 1, NEW j \in 1 .. Len(order) - 1, at(i) = at(j) PROVE i = j
    BY <1>0, <2>1, <2>6
  <2>7. ASSUME NEW i \in 1 .. Len(order), i # k
        PROVE  \E j \in 1 .. Len(order) - 1 : at(j) = i
    <3>1. CASE i < k
      <4>1. i \in 1 .. Len(order) - 1 /\ at(i) = i
        BY <1>0, <2>1, <3>1
      <4> QED BY <4>1
    <3>2. CASE i > k
      <4>1. i - 1 \in 1 .. Len(order) - 1 /\ at(i - 1) = i
        BY <1>0, <2>1, <3>2
      <4> QED BY <4>1
    <3> QED BY <1>0, <2>1, <2>7, <3>1, <3>2
  <2> HIDE DEF at
  <2>8. \A i, j \in DOMAIN left : left[i] = left[j] => i = j
    BY <1>0, <2>4, <2>5, <2>6
  <2>9. ASSUME NEW other \in PageItems
        PROVE  (\E i \in DOMAIN left : left[i] = other)
                 <=> other # item /\ \E i \in DOMAIN order : order[i] = other
    <3>1. ASSUME NEW i \in DOMAIN left, left[i] = other
          PROVE  other # item /\ \E j \in DOMAIN order : order[j] = other
      BY <1>0, <2>1, <2>4, <2>5, <3>1
    <3>2. ASSUME NEW i \in DOMAIN order, order[i] = other, other # item
          PROVE  \E j \in DOMAIN left : left[j] = other
      <4>1. PICK j \in 1 .. Len(order) - 1 : at(j) = i
        BY <1>0, <2>1, <2>7, <3>2
      <4> QED BY <2>4, <2>5, <3>2, <4>1
    <3> QED BY <3>1, <3>2
  <2> QED BY <1>0, <2>2, <2>3, <2>8, <2>9
<1> QED BY <1>1, <1>2

\* A choice that is remembered is the latest, and too many make the oldest forgotten.
LEMMA RememberKeeps ==
  ASSUME PageAssumption, Remembered(session), Len(session.order) <= MaxChoices,
         NEW obs \in Observation, NEW action \in {"show", "hide"}, RememberSessionAction(obs, action)
  PROVE  Remembered(session') /\ Len(session'.order) <= MaxChoices
<1> DEFINE item == Item[obs.content]
           left == Without(session.order, item)
           order == Append(left, item)
           chosen == [session.chosen EXCEPT ![item] = action]
           oldest == Head(order)
           forgotten == [chosen EXCEPT ![oldest] = None]
           newer == Tail(order)
<1>1. item \in PageItems
  BY DEF PageItems, Observation, PageAssumption
<1>2. session' = IF Len(order) > MaxChoices THEN [chosen |-> forgotten, order |-> newer]
                 ELSE [chosen |-> chosen, order |-> order]
  BY DEF RememberSessionAction
<1>3. /\ left \in Seq(PageItems) /\ Len(left) <= Len(session.order)
      /\ \A i, j \in DOMAIN left : left[i] = left[j] => i = j
      /\ \A other \in PageItems :
           (\E i \in DOMAIN left : left[i] = other)
             <=> other # item /\ \E i \in DOMAIN session.order : session.order[i] = other
  BY <1>1, WithoutItem DEF Remembered
<1>4. chosen \in [PageItems -> {"show", "hide", None}] /\ chosen[item] = action /\ action # None
      /\ \A other \in PageItems \ {item} : chosen[other] = session.chosen[other]
  BY <1>1 DEF Remembered, PageAssumption
<1> HIDE DEF item, left, chosen
<1>5. /\ order \in Seq(PageItems) /\ Len(order) = Len(left) + 1 /\ Len(left) \in Nat
      /\ DOMAIN order = 1 .. Len(left) + 1 /\ DOMAIN left = 1 .. Len(left)
      /\ order[Len(left) + 1] = item /\ \A i \in 1 .. Len(left) : order[i] = left[i]
  BY <1>1, <1>3
<1> HIDE DEF order
<1>6. \A i, j \in DOMAIN order : order[i] = order[j] => i = j
  <2>1. \A i \in 1 .. Len(left) : left[i] \in PageItems /\ left[i] # item
    BY <1>3, <1>5
  <2> QED BY <1>3, <1>5, <2>1
<1>7. \A other \in PageItems : chosen[other] # None <=> \E i \in DOMAIN order : order[i] = other
  <2>1. ASSUME NEW other \in PageItems, other # item
        PROVE  chosen[other] # None <=> \E i \in DOMAIN order : order[i] = other
    <3>1. chosen[other] # None <=> \E i \in DOMAIN left : left[i] = other
      BY <1>3, <1>4, <2>1 DEF Remembered
    <3>2. (\E i \in DOMAIN left : left[i] = other) <=> \E i \in DOMAIN order : order[i] = other
      BY <1>5, <2>1
    <3> QED BY <3>1, <3>2
  <2>2. chosen[item] # None /\ Len(left) + 1 \in DOMAIN order
    BY <1>4, <1>5
  <2> QED BY <1>5, <2>1, <2>2
<1>8. CASE ~(Len(order) > MaxChoices)
  <2>1. session' = [chosen |-> chosen, order |-> order] /\ Len(order) <= MaxChoices
    BY <1>2, <1>5, <1>8 DEF PageAssumption
  <2> QED BY <1>4, <1>5, <1>6, <1>7, <2>1 DEF Remembered
<1>9. CASE Len(order) > MaxChoices
  <2>1. /\ oldest = order[1] /\ oldest \in PageItems /\ newer \in Seq(PageItems)
        /\ Len(newer) = Len(left) /\ DOMAIN newer = 1 .. Len(left)
        /\ \A i \in 1 .. Len(left) : newer[i] = order[i + 1]
    BY <1>5
  <2>2. session' = [chosen |-> forgotten, order |-> newer]
    BY <1>2, <1>9
  <2>3. Len(newer) <= MaxChoices
    BY <1>3, <1>5, <2>1 DEF PageAssumption, Remembered
  <2>4. /\ forgotten \in [PageItems -> {"show", "hide", None}] /\ forgotten[oldest] = None
        /\ \A other \in PageItems \ {oldest} : forgotten[other] = chosen[other]
    BY <1>4, <2>1
  <2> HIDE DEF oldest, newer, forgotten
  <2>5. \A i, j \in DOMAIN newer : newer[i] = newer[j] => i = j
    <3>1. \A i \in 1 .. Len(left) : i + 1 \in DOMAIN order
      BY <1>5
    <3> QED BY <1>5, <1>6, <2>1, <3>1
  <2>6. ASSUME NEW other \in PageItems
        PROVE  forgotten[other] # None <=> \E i \in DOMAIN newer : newer[i] = other
    <3>1. CASE other = oldest
      <4>1. ASSUME NEW i \in DOMAIN newer, newer[i] = oldest PROVE FALSE
        <5>1. i + 1 \in DOMAIN order /\ 1 \in DOMAIN order /\ order[i + 1] = order[1] /\ i + 1 # 1
          BY <1>5, <2>1, <4>1
        <5> QED BY <1>6, <5>1
      <4> QED BY <2>4, <3>1, <4>1
    <3>2. CASE other # oldest
      <4>1. forgotten[other] # None <=> \E i \in DOMAIN order : order[i] = other
        BY <1>7, <2>4, <3>2
      <4>2. ASSUME NEW i \in DOMAIN order, order[i] = other
            PROVE  \E j \in DOMAIN newer : newer[j] = other
        <5>1. i \in 1 .. Len(left) + 1 /\ i # 1
          BY <1>5, <2>1, <3>2, <4>2
        <5>2. i - 1 \in 1 .. Len(left) /\ (i - 1) + 1 = i
          BY <1>5, <5>1
        <5> QED BY <2>1, <4>2, <5>2
      <4>3. ASSUME NEW j \in DOMAIN newer, newer[j] = other
            PROVE  \E i \in DOMAIN order : order[i] = other
        BY <1>5, <2>1, <4>3
      <4> QED BY <4>1, <4>2, <4>3
    <3> QED BY <3>1, <3>2
  <2> QED BY <2>1, <2>2, <2>3, <2>4, <2>5, <2>6 DEF Remembered
<1> QED BY <1>8, <1>9

\* What was asked was asked by a runtime, and there is one while one runs.
Epochs ==
  /\ epoch \in Nat /\ (life.running => epoch >= 1)
  /\ \A q \in requests : q.epoch \in 1 .. epoch

\* The inductive invariant, with the choices and the runtimes.
PageIInv == IInv /\ Remembered(session) /\ Len(session.order) <= MaxChoices /\ Epochs

\* The choices of the user are the only ones that are remembered.
LEMMA SessionSteps ==
  ASSUME PageAssumption, IInv, [PageNext]_cVars
  PROVE  \/ session' = session
         \/ \E obs \in Observation, action \in {"show", "hide"} : RememberSessionAction(obs, action)
<1>1. ASSUME NEW e \in Elements, UserHides(e)
      PROVE  \E obs \in Observation : RememberSessionAction(obs, "hide")
  <2>1. el[e].controls.of \in Observation
    BY <1>1 DEF UserHides, IInv, RowType
  <2> QED BY <1>1, <2>1 DEF UserHides
<1>2. ASSUME NEW e \in Elements, Reveal(e)
      PROVE  \E obs \in Observation : RememberSessionAction(obs, "show")
  <2>1. el[e].hidden \in Observation
    BY <1>2 DEF Reveal, IInv, RowType
  <2> QED BY <1>2, <2>1 DEF Reveal
<1>3. CASE ~\E e \in Elements : UserHides(e) \/ Reveal(e)
  BY <1>3 DEF PageNext, cVars, PageChanges, Answer, NoAnswer, Navigate, PageHide, PageShow, Activate,
              Deactivate
<1> QED BY <1>1, <1>2, <1>3

\* A runtime that starts is another one.
LEMMA EpochSteps ==
  ASSUME Epochs, IInv, [PageNext]_cVars
  PROVE  Epochs'
<1>1. ASSUME NEW at, StartRuntime(at) PROVE Epochs'
  <2> DEFINE first(e) == IF doc[e] = None THEN Unseen ELSE Process(Unseen, doc[e])
  <2>1. CASE at \in Supported
    <3>1. /\ epoch' = epoch + 1 /\ life'.running
          /\ requests' = requests \cup UNION {Asked(e, Unseen, first(e)) : e \in Elements}
      BY <1>1, <2>1 DEF StartRuntime
    <3>2. \A e \in Elements : \A q \in Asked(e, Unseen, first(e)) : q.epoch = epoch'
      BY DEF Asked
    <3> HIDE DEF first
    <3>3. \A q \in requests' : q \in requests \/ q.epoch = epoch'
      BY <3>1, <3>2
    <3> QED BY <3>1, <3>3 DEF Epochs
  <2>2. CASE at \notin Supported
    BY <1>1, <2>2 DEF StartRuntime, Epochs
  <2> QED BY <2>1, <2>2
<1>2. ASSUME UNCHANGED epoch, life'.running => life.running,
             \A q \in requests' : q \in requests \/ (life.running /\ q.epoch = epoch')
      PROVE  Epochs'
  BY <1>2 DEF Epochs
<1>3. ASSUME NEW e \in Elements, NEW content, PageChanges(e, content) PROVE Epochs'
  <2> DEFINE after == IF content = None THEN Unwatch(el[e]) ELSE Process(el[e], content)
  <2>1. UNCHANGED <<life, epoch>> /\ (life.running \/ requests' = requests)
        /\ (life.running => requests' = requests \cup Asked(e, el[e], after))
    BY <1>3 DEF PageChanges
  <2>2. \A q \in Asked(e, el[e], after) : q.epoch = epoch'
    BY DEF Asked
  <2> HIDE DEF after
  <2> QED BY <1>2, <2>1, <2>2
<1>4. ASSUME NEW q \in requests,
             \/ \E action \in Actions : Answer(q, action)
             \/ \E state \in {"deferred", "failed"} : NoAnswer(q, state)
      PROVE  Epochs'
  BY <1>2, <1>4 DEF Answer, NoAnswer
<1>5. ASSUME NEW e \in Elements, UserHides(e) \/ Reveal(e) PROVE Epochs'
  BY <1>2, <1>5 DEF UserHides, Reveal
<1>6. ASSUME NEW to, NEW noticed, Navigate(to, noticed) PROVE Epochs'
  BY <1>1, <1>2, <1>6 DEF Navigate
<1>7. ASSUME NEW after, StopRuntime(after), ~after.running PROVE Epochs'
  BY <1>2, <1>7 DEF StopRuntime
<1>8. ASSUME NEW persisted, PageHide(persisted) PROVE Epochs'
  <2> DEFINE after == [life EXCEPT !.alive = persisted, !.suspended = persisted, !.running = FALSE]
  <2>1. ~after.running
    BY DEF IInv, LifeType
  <2>2. StopRuntime(after)
    BY <1>8 DEF PageHide
  <2> HIDE DEF after
  <2> QED BY <1>7, <2>1, <2>2
<1>9. CASE Deactivate
  <2> DEFINE after == [life EXCEPT !.alive = FALSE, !.running = FALSE]
  <2>1. ~after.running
    BY DEF IInv, LifeType
  <2>2. StopRuntime(after)
    BY <1>9 DEF Deactivate
  <2> HIDE DEF after
  <2> QED BY <1>7, <2>1, <2>2
<1>10. CASE PageShow \/ Activate
  BY <1>1, <1>10 DEF PageShow, Activate
<1>11. CASE UNCHANGED cVars
  BY <1>2, <1>11 DEF cVars
<1> QED BY <1>3, <1>4, <1>5, <1>6, <1>8, <1>9, <1>10, <1>11 DEF PageNext

\* Every step keeps the choices and the runtimes.
LEMMA NextPageIInv == PageAssumption /\ PageIInv /\ [PageNext]_cVars => PageIInv'
<1> SUFFICES ASSUME PageAssumption, PageIInv, [PageNext]_cVars PROVE PageIInv'
  OBVIOUS
<1>1. IInv' /\ Epochs'
  BY NextIInv, EpochSteps DEF PageIInv
<1>2. Remembered(session)' /\ (Len(session.order) <= MaxChoices)'
  <2>1. CASE session' = session
    BY <2>1 DEF PageIInv, Remembered
  <2>2. ASSUME NEW obs \in Observation, NEW action \in {"show", "hide"}, RememberSessionAction(obs, action)
        PROVE  Remembered(session)' /\ (Len(session.order) <= MaxChoices)'
    <3>1. Remembered(session') /\ Len(session'.order) <= MaxChoices
      BY <2>2, RememberKeeps DEF PageIInv
    <3> QED BY <3>1 DEF Remembered
  <2> QED BY <2>1, <2>2, SessionSteps DEF PageIInv
<1> QED BY <1>1, <1>2 DEF PageIInv

\* Nothing was chosen and nothing was asked at first.
LEMMA InitPageIInv == PageAssumption /\ PageInit => PageIInv
<1> SUFFICES ASSUME PageAssumption, PageInit PROVE PageIInv
  OBVIOUS
<1>1. session = [chosen |-> [item \in PageItems |-> None], order |-> <<>>]
  BY DEF PageInit
<1>2. Remembered(session) /\ Len(session.order) <= MaxChoices
  BY <1>1 DEF Remembered, PageAssumption
<1>3. Epochs
  BY DEF PageInit, Epochs
<1> QED BY <1>2, <1>3, InitIInv DEF PageIInv

\* The types, and that the choices remembered are the latest, each once and at most as many
\* as allowed (rememberSessionAction).
THEOREM PageTypeCorrect == PageAssumption /\ PageSpec => []PageTypeOK
<1>1. PageIInv => PageTypeOK
  BY DEF PageIInv, IInv, Remembered, Epochs, RequestType, PageTypeOK
<1>2. PageAssumption => PageAssumption'
  BY DEF PageAssumption
<1> QED BY <1>1, <1>2, InitPageIInv, NextPageIInv, PTL DEF PageSpec

-----------------------------------------------------------------------------
\* What is hidden of an element that shows an enabled content is this content, however
\* the platform reuses its elements while decisions are on their way (isCurrent).
THEOREM HiddenAsObservedThm == PageAssumption /\ PageSpec => []HiddenAsObserved
<1>1. PageAssumption /\ IInv => HiddenAsObserved
  <2> SUFFICES ASSUME PageAssumption, IInv, NEW e \in Elements, doc[e] \in Enabled,
                      el[e].hidden # None
               PROVE  el[e].hidden = el[e].seen /\ el[e].hidden.content = doc[e]
    BY DEF HiddenAsObserved
  <2>1. life.running /\ Kept(el[e]) /\ doc[e] # None
    BY DEF IInv, PageAssumption
  <2> QED BY <2>1 DEF IInv, Kept, Follows
<1>2. PageAssumption => PageAssumption'
  BY DEF PageAssumption
<1> QED BY <1>1, <1>2, InitIInv, NextIInv, PTL DEF PageSpec

\* Nothing stays on the page of a runtime that was stopped, whatever is answered to it
\* later (disable).
THEOREM NoTraceLeftThm == PageAssumption /\ PageSpec => []NoTraceLeft
<1>1. IInv => NoTraceLeft
  BY DEF IInv, NoTraceLeft
<1>2. PageAssumption => PageAssumption'
  BY DEF PageAssumption
<1> QED BY <1>1, <1>2, InitIInv, NextIInv, PTL DEF PageSpec

\* What the user chose for an item is not undone by a decision that arrives later, nor by
\* a change of the page (decide).
THEOREM ChoiceStandsThm == PageAssumption /\ PageSpec => ChoiceStands
<1>1. PageAssumption /\ IInv /\ [PageNext]_cVars => [\A e \in Elements : Stands(e)]_cVars
  BY NextStands
<1>2. PageAssumption => PageAssumption'
  BY DEF PageAssumption
<1> QED BY <1>1, <1>2, InitIInv, NextIInv, PTL DEF PageSpec, ChoiceStands, Stands
=============================================================================
