-------------------------- MODULE Providers_proofs --------------------------
(***************************************************************************)
(* Proofs about what the settings panel stores, and about the providers    *)
(* the worker keeps, for any number of provider configurations, edits,     *)
(* messages at once and writes by others.  Those about the panel need the  *)
(* fields of the records and no more of what is in them.                   *)
(***************************************************************************)
EXTENDS SettingsPanel, ProviderManagement, TLAPS

SettingsFields(s) == s = [on |-> s.on, global |-> s.global, override |-> s.override, locale |-> s.locale]

WorkerFields(w) == w = [status |-> w.status, models |-> w.models, consents |-> w.consents]

PanelFields(p) == {"draft", "shown"} \subseteq DOMAIN p

RunFields(r) ==
  r = [op |-> r.op, of |-> r.of, forms |-> r.forms, settings |-> r.settings, revision |-> r.revision,
       over |-> r.over, next |-> r.next, phase |-> r.phase]

\* The settings of a revision of the profile, which may have gone on since.
SeenAt(s, revision, p) ==
  /\ revision \in Nat /\ revision <= p.revision
  /\ revision = p.revision => s = p.settings

ProfileSound(p) == p.revision \in Nat /\ SettingsFields(p.settings)

PanelSound(q, p, u) ==
  /\ PanelFields(q) /\ SettingsFields(q.draft) /\ SettingsFields(q.shown.settings)
  /\ u # 0 \/ SeenAt(q.shown.settings, q.shown.revision, p)

\* A save commits over the settings it was started from, unless an import took a revision
\* again, and what was consented to.
RunSound(r, p, g, u) ==
  /\ RunFields(r)
  /\ r.op = "save" => SettingsFields(r.settings) /\ (u # 0 \/ SeenAt(r.over, r.revision, p))
  /\ r.phase = "committing" => r.op = "save" /\ CloudCandidates(r.settings) \subseteq g

\* The inductive invariant.
IInv ==
  /\ ProfileSound(profile) /\ WorkerFields(worker) /\ worker.consents \subseteq granted
  /\ PanelSound(panel, profile, reuses) /\ RunSound(run, profile, granted, reuses) /\ reuses \in Nat

-----------------------------------------------------------------------------
\* What an operation of the worker leaves of the consents.
LEMMA EffectsKeep ==
  ASSUME NEW op \in Operations, NEW p, NEW w, WorkerFields(w), NEW next \in Effects(op, p, w)
  PROVE  WorkerFields(next) /\ next.consents \subseteq w.consents
<1> DEFINE N == NoConsent(w, p)
<1>1. WorkerFields(N) /\ N.consents \subseteq w.consents
  BY DEF NoConsent, WorkerFields
<1>2. ASSUME NEW v, WorkerFields(v), NEW status
      PROVE  WorkerFields(WithStatus(v, p, status)) /\ WithStatus(v, p, status).consents = v.consents
  BY <1>2 DEF WithStatus, WorkerFields
<1>3. ASSUME NEW v, WorkerFields(v), NEW models
      PROVE  /\ WorkerFields([v EXCEPT !.models = models])
             /\ [v EXCEPT !.models = models].consents = v.consents
  BY <1>3 DEF WorkerFields
<1>4. CASE op \in {"create", "test"}
  BY <1>2, <1>4 DEF Effects
<1>5. CASE op \in {"credential", "edit", "disconnect"}
  BY <1>1, <1>2, <1>5 DEF Effects
<1>6. CASE op = "remove"
  <2> DEFINE M == [N EXCEPT !.models = @ \ {p}]
  <2>1. WorkerFields(M) /\ M.consents = N.consents
    BY <1>1, <1>3
  <2>2. next = WithStatus(M, p, "absent")
    BY <1>6 DEF Effects
  <2> HIDE DEF M, N
  <2> QED BY <1>1, <1>2, <2>1, <2>2
<1>7. CASE op \in {"model", "catalog"}
  <2>1. next = [w EXCEPT !.models = w.models \cup {p}]
    BY <1>7 DEF Effects
  <2> QED BY <1>3, <2>1
<1> QED BY <1>4, <1>5, <1>6, <1>7 DEF Operations

\* An operation of the worker keeps its part of the invariant.
LEMMA Applied ==
  ASSUME IInv, NEW op \in Operations, NEW p, Apply(op, p), UNCHANGED granted
  PROVE  WorkerFields(worker') /\ worker'.consents \subseteq granted'
BY EffectsKeep DEF Apply, IInv

\* Settings from elsewhere have the fields of settings.
LEMMA LeftFields ==
  ASSUME NEW s, SettingsFields(s), NEW l \in Left(s)
  PROVE  SettingsFields(l)
BY DEF SettingsFields, Left

\* Changing a field of a run leaves the others.
LEMMA RunChanged ==
  ASSUME NEW r, RunFields(r), NEW v
  PROVE  /\ LET s == [r EXCEPT !.op = v] IN
              /\ RunFields(s) /\ s.op = v /\ s.of = r.of /\ s.forms = r.forms /\ s.phase = r.phase
         /\ LET s == [r EXCEPT !.of = v] IN
              /\ RunFields(s) /\ s.op = r.op /\ s.forms = r.forms /\ s.phase = r.phase
         /\ LET s == [r EXCEPT !.next = v] IN
              /\ RunFields(s) /\ s.op = r.op /\ s.forms = r.forms /\ s.phase = r.phase
         /\ LET s == [r EXCEPT !.forms = v] IN
              /\ RunFields(s) /\ s.op = r.op /\ s.settings = r.settings
              /\ s.revision = r.revision /\ s.over = r.over /\ s.phase = r.phase
<1>1. LET s == [r EXCEPT !.op = v] IN
        RunFields(s) /\ s.op = v /\ s.of = r.of /\ s.forms = r.forms /\ s.phase = r.phase
  BY DEF RunFields
<1>2. LET s == [r EXCEPT !.of = v] IN
        RunFields(s) /\ s.op = r.op /\ s.forms = r.forms /\ s.phase = r.phase
  BY DEF RunFields
<1>3. LET s == [r EXCEPT !.next = v] IN
        RunFields(s) /\ s.op = r.op /\ s.forms = r.forms /\ s.phase = r.phase
  BY DEF RunFields
<1>4. LET s == [r EXCEPT !.forms = v] IN
        /\ RunFields(s) /\ s.op = r.op /\ s.settings = r.settings
        /\ s.revision = r.revision /\ s.over = r.over /\ s.phase = r.phase
  BY DEF RunFields
<1> QED BY <1>1, <1>2, <1>3, <1>4

\* So does going on to another phase.
LEMMA PhaseChanged ==
  ASSUME NEW r, RunFields(r), NEW v
  PROVE  LET s == [r EXCEPT !.phase = v] IN
           /\ RunFields(s) /\ s.op = r.op /\ s.settings = r.settings
           /\ s.revision = r.revision /\ s.over = r.over /\ s.phase = v
BY DEF RunFields

\* The fields of the runs that are started.
LEMMA AskedFields ==
  ASSUME NEW op, NEW p
  PROVE  /\ RunFields(Idle) /\ Idle.op = "idle" /\ Idle.phase = "idle"
         /\ RunFields(Asked(op, p)) /\ Asked(op, p).op = op /\ Asked(op, p).phase = "asked"
<1>1. RunFields(Idle) /\ Idle.op = "idle" /\ Idle.phase = "idle"
  BY DEF Idle, RunFields
<1> DEFINE a == [Idle EXCEPT !.op = op]
           b == [a EXCEPT !.of = p]
<1>2. RunFields(a) /\ a.op = op
  BY <1>1, RunChanged
<1> HIDE DEF a
<1>3. RunFields(b) /\ b.op = op
  BY <1>2, RunChanged
<1> HIDE DEF b
<1>4. RunFields([b EXCEPT !.phase = "asked"]) /\ [b EXCEPT !.phase = "asked"].op = op
        /\ [b EXCEPT !.phase = "asked"].phase = "asked"
  BY <1>3, PhaseChanged
<1>5. Asked(op, p) = [b EXCEPT !.phase = "asked"]
  BY DEF Asked, a, b
<1> QED BY <1>1, <1>4, <1>5

\* A run that is no save asks nothing of the profile.
LEMMA NoSaveSound ==
  ASSUME NEW r, RunFields(r), r.op # "save", r.phase # "committing", NEW p, NEW g, NEW u
  PROVE  RunSound(r, p, g, u)
BY DEF RunSound

\* A snapshot shows the profile as it is.
LEMMA SnapshotSeen ==
  ASSUME ProfileSound(profile)
  PROVE  /\ SettingsFields(Snapshot.settings)
         /\ SeenAt(Snapshot.settings, Snapshot.revision, profile)
BY DEF ProfileSound, Snapshot, SeenAt

\* A panel that shows a snapshot, or what it showed, with settings for a draft.
LEMMA PanelKept ==
  ASSUME IInv, UNCHANGED profile, NEW q, PanelFields(q), SettingsFields(q.draft),
         (q.shown = panel.shown /\ UNCHANGED reuses) \/ q.shown = Snapshot
  PROVE  PanelSound(q, profile', reuses')
BY SnapshotSeen DEF IInv, PanelSound

\* A step that leaves the profile and what was consented to.
LEMMA Kept ==
  ASSUME IInv, UNCHANGED <<profile, granted>>,
         WorkerFields(worker') /\ worker'.consents \subseteq granted',
         PanelFields(panel'), SettingsFields(panel'.draft),
         (panel'.shown = panel.shown /\ UNCHANGED reuses) \/ (panel'.shown = Snapshot /\ reuses' = 0),
         RunSound(run', profile, granted, reuses')
  PROVE  IInv'
<1>1. PanelSound(panel', profile', reuses')
  BY PanelKept
<1> QED BY <1>1 DEF IInv

\* The panel keeps what it shows, and its draft stays one of settings.
LEMMA Edited ==
  ASSUME IInv, UNCHANGED <<profile, granted, worker, run, reuses>>,
         PanelFields(panel'), SettingsFields(panel'.draft), panel'.shown = panel.shown
  PROVE  IInv'
BY Kept DEF IInv

\* The panel waits for a request.
LEMMA Started ==
  ASSUME IInv, NEW r, Start(r), RunSound(r, profile, granted, reuses),
         PanelFields(panel'), panel'.draft = panel.draft, panel'.shown = panel.shown
  PROVE  IInv'
BY Kept DEF IInv, Start, PanelSound

-----------------------------------------------------------------------------
\* The panel shows the profile there is, and what is stored sends nothing to the cloud.
LEMMA InitIInv == Init => IInv
<1> SUFFICES ASSUME Init PROVE IInv
  OBVIOUS
<1>1. /\ profile.revision = 1 /\ profile.settings.global = NoRoute("disabled")
      /\ profile.settings.override = NoRoute("inherit")
      /\ SettingsFields(profile.settings) /\ ProfileSound(profile)
  BY DEF Init, SettingsFields, ProfileSound
<1>3. WorkerFields(worker) /\ worker.consents = {}
  BY DEF Init, WorkerFields
<1>4. PanelFields(panel) /\ panel.shown = Snapshot /\ panel.draft = profile.settings
  BY DEF Init, Fresh, PanelFields
<1>5. PanelSound(panel, profile, reuses)
  BY <1>1, <1>4, SnapshotSeen DEF PanelSound
<1>6. RunSound(run, profile, granted, reuses)
  BY AskedFields, NoSaveSound DEF Init
<1>7. reuses = 0
  BY DEF Init
<1> QED BY <1>1, <1>3, <1>5, <1>6, <1>7 DEF IInv

\* What is edited in the panel.
LEMMA EditsIInv ==
  ASSUME IInv, Edits
  PROVE  IInv'
<1>0. /\ UNCHANGED <<profile, granted, worker, run, reuses>>
      /\ PanelFields(panel) /\ SettingsFields(panel.draft) /\ SettingsFields(panel.shown.settings)
  BY DEF IInv, PanelSound, Edits, UpdateGlobalRoute, UpdatePlatform, ReviewCloud, ContinueEditing,
     DiscardAndContinue, Type, SelectProvider, RequestSection, ReviewDisconnect, CloseReview,
     ReviewRoutes, Edit, Change
<1>1. ASSUME NEW r, panel' = [panel EXCEPT !.draft.global = r] PROVE IInv'
  <2>1. panel'.draft = [panel.draft EXCEPT !.global = r] /\ panel'.shown = panel.shown /\ PanelFields(panel')
    BY <1>0, <1>1 DEF PanelFields
  <2>2. SettingsFields(panel'.draft)
    BY <1>0, <2>1 DEF SettingsFields
  <2> QED BY <1>0, <2>1, <2>2, Edited
<1>2. CASE UpdatePlatform
  <2>1. PICK on, override, locale :
          /\ panel'.draft \in {[panel.draft EXCEPT !.override = override],
                              [panel.draft EXCEPT !.on = on], [panel.draft EXCEPT !.locale = locale]}
          /\ panel'.shown = panel.shown /\ PanelFields(panel')
    BY <1>0, <1>2 DEF UpdatePlatform, Edit, Change, PanelFields
  <2>2. SettingsFields(panel'.draft)
    BY <1>0, <2>1 DEF SettingsFields
  <2> QED BY <1>0, <2>1, <2>2, Edited
<1>3. CASE DiscardAndContinue
  <2>1. PanelFields(panel') /\ panel'.draft = panel.shown.settings /\ panel'.shown = panel.shown
    BY <1>0, <1>3 DEF DiscardAndContinue, Edit, Change, PanelFields
  <2> QED BY <1>0, <2>1, Edited
<1>4. ASSUME \/ ReviewCloud \/ ContinueEditing \/ ReviewDisconnect \/ CloseReview \/ ReviewRoutes
             \/ \E form \in Forms : Type(form)
             \/ \E p \in Configs : SelectProvider(p)
             \/ \E target \in Sections : RequestSection(target)
      PROVE  IInv'
  <2>1. PanelFields(panel') /\ panel'.draft = panel.draft /\ panel'.shown = panel.shown
    BY <1>0, <1>4 DEF ReviewCloud, ContinueEditing, ReviewDisconnect, CloseReview, ReviewRoutes, Type,
       SelectProvider, RequestSection, Edit, Change, PanelFields
  <2> QED BY <1>0, <2>1, Edited
<1>5. CASE UpdateGlobalRoute
  BY <1>1, <1>5 DEF UpdateGlobalRoute, Edit, Change
<1> QED BY <1>2, <1>3, <1>4, <1>5 DEF Edits

\* The requests that are started.
LEMMA RequestsIInv ==
  ASSUME IInv,
         \/ Load \/ ReviewRemoval \/ ConfirmDisconnect \/ ConfirmRemoval \/ SaveTransient
         \/ \E op \in {"create", "credential", "edit", "test", "catalog"} : AskProvider(op)
         \/ \E p \in Configs : AddModel(p)
  PROVE  IInv'
<1>0. PanelFields(panel)
  BY DEF IInv, PanelSound
<1>1. ASSUME NEW op, op # "save", NEW p, Start(Asked(op, p)),
             PanelFields(panel'), panel'.draft = panel.draft, panel'.shown = panel.shown
      PROVE  IInv'
  <2>1. RunSound(Asked(op, p), profile, granted, reuses)
    BY <1>1, AskedFields, NoSaveSound
  <2> QED BY <1>1, <2>1, Started
<1>2. CASE Load
  BY <1>0, <1>1, <1>2 DEF Load
<1>3. CASE ReviewRemoval
  <2>1. PanelFields(panel') /\ panel'.draft = panel.draft /\ panel'.shown = panel.shown
    BY <1>0, <1>3 DEF ReviewRemoval, PanelFields
  <2> QED BY <1>1, <1>3, <2>1 DEF ReviewRemoval
<1>4. ASSUME NEW op, op # "save", Request(op) PROVE IInv'
  BY <1>0, <1>1, <1>4 DEF Request
<1>5. CASE ConfirmDisconnect \/ ConfirmRemoval
  BY <1>4, <1>5 DEF ConfirmDisconnect, ConfirmRemoval
<1>6. ASSUME NEW op \in {"create", "credential", "edit", "test", "catalog"}, AskProvider(op) PROVE IInv'
  BY <1>4, <1>6 DEF AskProvider
<1>7. ASSUME NEW p \in Configs, AddModel(p) PROVE IInv'
  BY <1>0, <1>1, <1>7 DEF AddModel
<1>8. CASE SaveTransient
  <2>1. RunFields(Idle)
    BY AskedFields
  <2> DEFINE a == [Idle EXCEPT !.op = "forms"]
             b == [a EXCEPT !.of = panel.selected]
             d == [b EXCEPT !.next = panel.wanted]
             e == [d EXCEPT !.phase = "asked"]
             f == [e EXCEPT !.forms = Unsent]
  <2>2. RunFields(a) /\ a.op = "forms"
    BY <2>1, RunChanged
  <2> HIDE DEF a
  <2>3. RunFields(b) /\ b.op = "forms"
    BY <2>2, RunChanged
  <2> HIDE DEF b
  <2>4. RunFields(d) /\ d.op = "forms"
    BY <2>3, RunChanged
  <2> HIDE DEF d
  <2>5. RunFields(e) /\ e.op = "forms" /\ e.phase = "asked"
    BY <2>4, PhaseChanged
  <2> HIDE DEF e
  <2>6. RunFields(f) /\ f.op = "forms" /\ f.phase = "asked"
    BY <2>5, RunChanged
  <2>7. Start(f) /\ UNCHANGED panel
    BY <1>8 DEF SaveTransient, a, b, d, e, f
  <2> HIDE DEF f
  <2>8. RunSound(f, profile, granted, reuses)
    BY <2>6, NoSaveSound
  <2> QED BY <1>0, <2>7, <2>8, Started
<1> QED BY <1>2, <1>3, <1>5, <1>6, <1>7, <1>8

\* What the panel makes of the answers to its requests.
LEMMA AnswersIInv ==
  ASSUME IInv, Loaded \/ LoadFails \/ Previewed \/ Answered \/ Refreshed \/ Fails
               \/ SendForm \/ FormsSaved
  PROVE  IInv'
<1>0. /\ PanelFields(panel) /\ SettingsFields(panel.draft) /\ RunFields(run)
      /\ WorkerFields(worker) /\ worker.consents \subseteq granted
      /\ SettingsFields(profile.settings)
  BY DEF IInv, PanelSound, RunSound, ProfileSound
<1>1. RunSound(Idle, profile, granted, reuses')
  BY AskedFields, NoSaveSound
<1>2. CASE Loaded
  <2>1. /\ PanelFields(panel') /\ panel'.draft = profile.settings /\ panel'.shown = Snapshot
        /\ run' = Idle /\ reuses' = 0 /\ UNCHANGED <<profile, worker, granted>>
    BY <1>0, <1>2 DEF Loaded, Show, PanelFields
  <2> QED BY <1>0, <1>1, <2>1, Kept
<1>3. CASE LoadFails \/ Previewed \/ Fails
  <2>1. /\ PanelFields(panel') /\ panel'.draft = panel.draft /\ panel'.shown = panel.shown
        /\ run' = Idle /\ UNCHANGED <<profile, worker, granted, reuses>>
    BY <1>0, <1>3 DEF LoadFails, Previewed, Fails, PanelFields
  <2> QED BY <1>0, <1>1, <2>1, Kept
<1>4. CASE Refreshed \/ FormsSaved
  <2>1. /\ PanelFields(panel') /\ panel'.draft = panel.draft /\ panel'.shown = Snapshot
        /\ run' = Idle /\ reuses' = 0 /\ UNCHANGED <<profile, worker, granted>>
    BY <1>0, <1>4 DEF Refreshed, FormsSaved, Show, PanelFields
  <2> QED BY <1>0, <1>1, <2>1, Kept
<1>5. CASE Answered
  <2>0. run' = [run EXCEPT !.phase = "reading"] /\ UNCHANGED <<profile, granted, reuses>>
    BY <1>5 DEF Answered
  <2>1. /\ PanelFields(panel') /\ panel'.draft = panel.draft /\ panel'.shown = panel.shown
    BY <1>0, <1>5 DEF Answered, PanelFields
  <2>2. WorkerFields(worker') /\ worker'.consents \subseteq granted'
    <3>1. PICK p : Apply(run.op, p)
      BY <1>5 DEF Answered
    <3>2. run.op \in Operations
      BY <1>5 DEF Answered
    <3> QED BY <2>0, <3>1, <3>2, Applied
  <2>3. RunFields(run') /\ run'.op = run.op /\ run'.phase = "reading"
    BY <1>0, <2>0, PhaseChanged
  <2>4. RunSound(run', profile, granted, reuses')
    <3>1. run.op # "save"
      BY <1>5 DEF Answered, Operations
    <3> QED BY <2>3, <3>1, NoSaveSound
  <2> QED BY <1>0, <2>0, <2>1, <2>2, <2>4, Kept
<1>6. CASE SendForm
  <2>1. PICK form, p :
          /\ form \in Operations /\ Apply(form, p) /\ run' = [run EXCEPT !.forms = @ \ {form}]
          /\ panel' = [panel EXCEPT !.selected = IF form = "create" THEN p ELSE @]
          /\ UNCHANGED <<profile, granted, reuses>>
    <3>1. FirstForm(run.forms) \in Operations
      BY DEF FirstForm, Operations
    <3> QED BY <1>6, <3>1 DEF SendForm
  <2>2. PanelFields(panel') /\ panel'.draft = panel.draft /\ panel'.shown = panel.shown
    BY <1>0, <2>1 DEF PanelFields
  <2>3. WorkerFields(worker') /\ worker'.consents \subseteq granted'
    BY <2>1, Applied
  <2>4. RunFields(run') /\ run'.op = run.op /\ run'.phase = run.phase
    BY <1>0, <2>1, RunChanged
  <2>5. RunSound(run', profile, granted, reuses')
    BY <1>6, <2>4 DEF SendForm, RunSound, IInv
  <2> QED BY <1>0, <2>1, <2>2, <2>3, <2>5, Kept
<1> QED BY <1>2, <1>3, <1>4, <1>5, <1>6

\* A save, from the button to the panel that shows it.
LEMMA SavesIInv ==
  ASSUME IInv, Save \/ Grant \/ Validate \/ Saved
  PROVE  IInv'
<1>0. /\ PanelFields(panel) /\ SettingsFields(panel.draft) /\ RunFields(run)
      /\ WorkerFields(worker) /\ worker.consents \subseteq granted
      /\ SettingsFields(profile.settings) /\ RunSound(run, profile, granted, reuses)
      /\ reuses # 0 \/ SeenAt(panel.shown.settings, panel.shown.revision, profile)
  BY DEF IInv, PanelSound, RunSound, ProfileSound
<1>1. ASSUME NEW next, SaveSettings(next) PROVE IInv'
  <2>1. PICK forms : Start([op |-> "save", of |-> None, forms |-> forms, settings |-> panel.draft,
                            revision |-> panel.shown.revision, over |-> panel.shown.settings,
                            next |-> next, phase |-> "granting"])
    BY <1>1 DEF SaveSettings
  <2>2. RunSound([op |-> "save", of |-> None, forms |-> forms, settings |-> panel.draft,
                  revision |-> panel.shown.revision, over |-> panel.shown.settings,
                  next |-> next, phase |-> "granting"], profile, granted, reuses)
    BY <1>0 DEF RunSound, RunFields
  <2> QED BY <1>0, <1>1, <2>1, <2>2, Started DEF SaveSettings
<1>2. CASE Save
  BY <1>1, <1>2 DEF Save
<1>3. CASE Grant
  <2>1. PICK p : /\ worker' = [worker EXCEPT !.consents = @ \cup {p}] /\ granted' = granted \cup {p}
                 /\ run' = [run EXCEPT !.forms = @ \ {p}]
    BY <1>3 DEF Grant
  <2>2. WorkerFields(worker') /\ worker'.consents = worker.consents \cup {p}
    BY <1>0, <2>1 DEF WorkerFields
  <2>3. /\ RunFields(run') /\ run'.op = run.op /\ run'.settings = run.settings
        /\ run'.revision = run.revision /\ run'.over = run.over /\ run'.phase = run.phase
    BY <1>0, <2>1, RunChanged
  <2>4. RunSound(run', profile, granted', reuses')
    <3>1. UNCHANGED reuses
      BY <1>3 DEF Grant
    <3> QED BY <1>0, <2>1, <2>3, <3>1 DEF RunSound
  <2> QED BY <1>0, <1>3, <2>1, <2>2, <2>4 DEF Grant, IInv
<1>4. CASE Validate
  <2>1. /\ RunFields(run') /\ run'.op = run.op /\ run'.settings = run.settings
        /\ run'.revision = run.revision /\ run'.over = run.over /\ run'.phase = "committing"
    BY <1>0, <1>4, PhaseChanged DEF Validate
  <2>2. run.op = "save" /\ CloudCandidates(run.settings) \subseteq granted
    BY <1>0, <1>4 DEF Validate, ValidateSettingsDraft, ValidateCloudConsents
  <2>3. RunSound(run', profile, granted, reuses')
    <3>1. UNCHANGED reuses
      BY <1>4 DEF Validate
    <3> QED BY <1>0, <2>1, <2>2, <3>1 DEF RunSound
  <2> QED BY <1>0, <1>4, <2>3, Kept DEF Validate
<1>5. CASE Saved
  <2>1. CASE panel' = Fresh /\ run' = Asked("load", None)
    <3>1. PanelFields(panel') /\ panel'.draft = profile.settings /\ panel'.shown = Snapshot
      BY <2>1 DEF Fresh, PanelFields
    <3>2. RunSound(run', profile, granted, reuses')
      BY <2>1, AskedFields, NoSaveSound
    <3> QED BY <1>0, <1>5, <3>1, <3>2, Kept DEF Saved
  <2>2. CASE ~(panel' = Fresh /\ run' = Asked("load", None))
    <3>1. /\ PanelFields(panel') /\ panel'.draft = profile.settings /\ panel'.shown = Snapshot
          /\ run' = Idle
      BY <1>0, <1>5, <2>2 DEF Saved, Show, PanelFields
    <3>2. RunSound(run', profile, granted, reuses')
      BY <3>1, AskedFields, NoSaveSound
    <3> QED BY <1>0, <1>5, <3>1, <3>2, Kept DEF Saved
  <2> QED BY <2>1, <2>2
<1> QED BY <1>2, <1>3, <1>4, <1>5

\* The transaction commits what was consented to, over what was shown.
LEMMA CommitIInv ==
  ASSUME IInv, Commit
  PROVE  /\ IInv'
         /\ reuses # 0 \/ profile.settings = run.over
         /\ CloudCandidates(profile'.settings) \subseteq granted
<1>1. /\ RunFields(run) /\ run.op = "save" /\ SettingsFields(run.settings)
      /\ reuses # 0 \/ SeenAt(run.over, run.revision, profile)
      /\ run.revision = profile.revision
      /\ CloudCandidates(run.settings) \subseteq granted
  BY DEF IInv, RunSound, Commit
<1>2. profile.revision \in Nat
  BY DEF IInv, ProfileSound
<1>3. /\ profile'.revision = profile.revision + 1 /\ profile'.settings = run.settings
      /\ run' = [run EXCEPT !.phase = "saved"] /\ UNCHANGED <<worker, panel, granted, reuses>>
  BY DEF Commit
<1>4. /\ RunFields(run') /\ run'.op = run.op /\ run'.settings = run.settings
      /\ run'.revision = run.revision /\ run'.over = run.over /\ run'.phase = "saved"
  BY <1>1, <1>3, PhaseChanged
<1>5. RunSound(run', profile', granted, reuses)
  BY <1>1, <1>2, <1>3, <1>4 DEF RunSound, SeenAt
<1>6. PanelSound(panel, profile', reuses)
  BY <1>2, <1>3 DEF IInv, PanelSound, SeenAt
<1>7. reuses # 0 \/ profile.settings = run.over
  BY <1>1 DEF SeenAt
<1> QED BY <1>1, <1>2, <1>3, <1>5, <1>6, <1>7 DEF IInv, ProfileSound

\* Others write the profile, or take a provider away.
LEMMA ElsewhereIInv ==
  ASSUME IInv, Elsewhere
  PROVE  IInv'
<1>1. CASE ChangeProviders
  <2>1. WorkerFields(worker') /\ worker'.consents \subseteq granted'
    <3>1. CASE \E p \in Configs : Apply("disconnect", p)
      BY <3>1, Applied DEF Elsewhere, Operations
    <3>2. CASE worker' = [worker EXCEPT !.consents = {}]
      BY <3>2 DEF Elsewhere, IInv, WorkerFields
    <3> QED BY <1>1, <3>1, <3>2 DEF ChangeProviders
  <2> QED BY <1>1, <2>1, Kept DEF ChangeProviders, Elsewhere, IInv, PanelSound
<1>2. CASE \E read \in 1..profile.revision : WriteElsewhere(read)
  <2>1. PICK read \in 1..profile.revision, s \in Left(profile.settings) :
          /\ profile' = [revision |-> read + 1, settings |-> s]
          /\ reuses' = reuses + (IF read = profile.revision THEN 0 ELSE 1)
          /\ UNCHANGED <<worker, panel, run, granted>>
    BY <1>2 DEF Elsewhere, WriteElsewhere
  <2>2. ProfileSound(profile')
    BY <2>1, LeftFields DEF IInv, ProfileSound
  <2>3. profile'.revision = read + 1 /\ profile.revision \in Nat /\ read \in Nat
    BY <2>1 DEF IInv, ProfileSound
  <2>4. ASSUME NEW t, NEW n, reuses # 0 \/ SeenAt(t, n, profile)
        PROVE  reuses' # 0 \/ SeenAt(t, n, profile')
    <3>1. CASE reuses # 0 \/ read # profile.revision
      <4>1. reuses \in Nat
        BY DEF IInv
      <4> QED BY <2>1, <3>1, <4>1
    <3>2. CASE reuses = 0 /\ read = profile.revision
      BY <2>3, <2>4, <3>2 DEF SeenAt
    <3> QED BY <3>1, <3>2
  <2>5. PanelSound(panel, profile', reuses') /\ RunSound(run, profile', granted, reuses')
    BY <2>4 DEF IInv, PanelSound, RunSound
  <2>6. reuses' \in Nat
    BY <2>1 DEF IInv
  <2> QED BY <2>1, <2>2, <2>5, <2>6 DEF IInv
<1> QED BY <1>1, <1>2 DEF Elsewhere

\* Only a commit and others write the profile.
LEMMA WritesProfile ==
  ASSUME Next, profile' # profile
  PROVE  Commit \/ (Elsewhere /\ run' = run)
BY DEF Next, Loaded, LoadFails, Load, Edits, AskProvider, AddModel, ReviewRemoval, ConfirmDisconnect,
   ConfirmRemoval, Previewed, Answered, Refreshed, Fails, Save, SaveSettings, Grant, Validate, Saved,
   SaveTransient, SendForm, FormsSaved, Elsewhere, ChangeProviders, Request, Start, UpdateGlobalRoute, UpdatePlatform,
   ReviewCloud, ContinueEditing, DiscardAndContinue, Type, SelectProvider, RequestSection,
   ReviewDisconnect, CloseReview, ReviewRoutes, Edit, Change

\* Every step keeps the invariant.
LEMMA NextIInv == IInv /\ [Next]_settingsVars => IInv'
<1>1. IInv /\ UNCHANGED settingsVars => IInv'
  BY DEF settingsVars, IInv, ProfileSound, PanelSound, RunSound
<1>2. IInv /\ Commit => IInv'
  BY CommitIInv
<1>3. IInv /\ Next /\ ~Commit => IInv'
  BY EditsIInv, RequestsIInv, AnswersIInv, SavesIInv, ElsewhereIInv DEF Next
<1> QED BY <1>1, <1>2, <1>3

\* What a save of the panel stores sends contents only to models whose use was consented
\* to, for any routes, fallbacks and providers, whatever becomes of these meanwhile and
\* whatever routes came from elsewhere.
THEOREM SavedRoutesWereConsentedThm == Spec => SavedRoutesWereConsented
<1>1. IInv /\ [Next]_settingsVars =>
        [run.phase = "committing" /\ profile' # profile /\ run' # run =>
           CloudCandidates(profile'.settings) \subseteq granted]_<<profile, run>>
  BY CommitIInv, WritesProfile DEF settingsVars
<1> QED BY <1>1, InitIInv, NextIInv, PTL DEF Spec, SavedRoutesWereConsented

\* A save never overwrites settings the panel did not show when it was started, unless an
\* import took a revision a second time since the panel read what it shows.
THEOREM SavesOverShownThm == Spec => SavesOverShown
<1>1. IInv /\ [Next]_settingsVars =>
        [run.phase = "committing" /\ profile'.settings # profile.settings /\ run' # run =>
           reuses # 0 \/ profile.settings = run.over]_<<profile, run>>
  BY CommitIInv, WritesProfile DEF settingsVars
<1> QED BY <1>1, InitIInv, NextIInv, PTL DEF Spec, SavesOverShown

-----------------------------------------------------------------------------
(* The providers in the worker.                                                *)

WellFormed(s) == s \in States /\ Agrees(s) /\ NoOrphan(s)

\* Nothing is left of p in s.
GoneIn(s, p) == s.providers[p].ref = None /\ \A k \in s.consents : k[1] # p

\* A change of p brings nothing of another provider back.
OthersStay(s, t, p) == \A q \in ProviderIds \ {p} : GoneIn(s, q) => GoneIn(t, q)

Disconnecting == {"disconnect", "remove"}
Mutations == Disconnecting \cup {"register", "model", "update", "consent", "credential", "test", "refresh"}
CallTypes ==
  [phase : {"wrapping", "testing", "paging", "saving", "dropping"}, op : Mutations, config : ProviderIds,
   draft : States, dropped : Origins \cup {None}, pages : Nat, overtaken : BOOLEAN]

\* What a call holds while s is in memory, gone the disconnected providers and drawn the
\* references: its fork is well formed, and unless another save overtook it, it is what is in
\* memory but for its provider.
CallLegal(r, s, gone, drawn) ==
  /\ r \in CallTypes /\ WellFormed(r.draft) /\ DOMAIN r.draft.credentials \subseteq drawn
  /\ r.phase \in {"testing", "paging"} => Known(r.draft, r.config) /\ r.op \notin Disconnecting
  /\ r.op \in Disconnecting => GoneIn(r.draft, r.config)
  /\ (~r.overtaken /\ r.phase # "dropping") =>
       OthersStay(s, r.draft, r.config) /\ (r.op \notin Disconnecting => r.config \notin gone)

\* The inductive invariant.
PInv ==
  /\ WellFormed(live) /\ WellFormed(stored) /\ stored.values = {}
  /\ DOMAIN live.credentials \cup DOMAIN stored.credentials \subseteq issued /\ issued \subseteq Refs
  /\ permitted \subseteq Origins /\ disconnected \subseteq ProviderIds
  /\ call \in [Calls -> CallTypes \cup {NoCall}]
  /\ \A c \in Calls : call[c] # NoCall => CallLegal(call[c], live, disconnected, issued)

\* What is known of a state by its fields.
LEMMA StateFields ==
  ASSUME NEW s
  PROVE  s \in States <=>
           /\ s = [providers |-> s.providers, models |-> s.models, consents |-> s.consents,
                   credentials |-> s.credentials, values |-> s.values]
           /\ s.providers \in [ProviderIds -> Providers \cup {Absent}]
           /\ s.models \in [ProviderIds -> ModelStatuses \cup {"absent"}]
           /\ s.consents \subseteq ProviderIds \X Origins
           /\ s.credentials \in [DOMAIN s.credentials -> Credentials] /\ DOMAIN s.credentials \subseteq Refs
           /\ s.values \subseteq Refs
<1> DEFINE Held == UNION {[S -> Credentials] : S \in SUBSET Refs}
<1>1. ASSUME NEW f PROVE f \in Held <=> f \in [DOMAIN f -> Credentials] /\ DOMAIN f \subseteq Refs
  <2>1. ASSUME f \in Held PROVE f \in [DOMAIN f -> Credentials] /\ DOMAIN f \subseteq Refs
    BY <2>1
  <2>2. ASSUME f \in [DOMAIN f -> Credentials], DOMAIN f \subseteq Refs PROVE f \in Held
    BY <2>2
  <2> QED BY <2>1, <2>2
<1>2. s.credentials \in Held <=> s.credentials \in [DOMAIN s.credentials -> Credentials] /\ DOMAIN s.credentials \subseteq Refs
  BY <1>1
<1>3. States = [providers : [ProviderIds -> Providers \cup {Absent}],
                models : [ProviderIds -> ModelStatuses \cup {"absent"}],
                consents : SUBSET (ProviderIds \X Origins), credentials : Held, values : SUBSET Refs]
  BY DEF States
<1> HIDE DEF Held
<1> QED BY <1>2, <1>3

\* What is known of a well-formed state and one of its providers.
LEMMA ProviderFields ==
  ASSUME ProviderAssumption, NEW s, WellFormed(s), NEW p \in ProviderIds
  PROVE  /\ s.providers[p] \in Providers \cup {Absent}
         /\ Known(s, p) => s.providers[p] \in Providers /\ s.providers[p].origin \in Origins
         /\ ~Known(s, p) => s.providers[p].ref = None /\ s.providers[p].origin = None
         /\ s.providers[p].ref \in Refs \cup {None}
         /\ s.providers[p].ref # None => s.providers[p].ref \in DOMAIN s.credentials
         /\ \A y \in DOMAIN s.credentials : s.credentials[y].config = p => s.providers[p].ref = y
         /\ \A y \in DOMAIN s.credentials :
              /\ s.credentials[y] \in Credentials /\ s.credentials[y].config \in ProviderIds
              /\ s.providers[s.credentials[y].config].origin = s.credentials[y].origin
         /\ \A k \in s.consents : k[1] \in ProviderIds /\ s.providers[k[1]].origin = k[2] /\ k[2] \in Origins
         /\ ~Known(s, p) => s.models[p] = "absent"
<1>1. /\ s.providers \in [ProviderIds -> Providers \cup {Absent}]
      /\ s.consents \subseteq ProviderIds \X Origins
      /\ s.credentials \in [DOMAIN s.credentials -> Credentials]
  BY StateFields DEF WellFormed
<1>2. Absent \notin Providers /\ Absent.ref = None /\ Absent.origin = None
  BY DEF Absent, Providers, ProviderStatuses, Failures
<1>3. s.providers[p] \in Providers \cup {Absent}
  BY <1>1
<1>4. s.providers[p] \in Providers => s.providers[p].origin \in Origins /\ s.providers[p].ref \in Refs \cup {None}
  BY DEF Providers
<1>5. \A y \in DOMAIN s.credentials : s.credentials[y] \in Credentials /\ s.credentials[y].config \in ProviderIds
  BY <1>1 DEF Credentials
<1>6. \A k \in s.consents : k[1] \in ProviderIds /\ k[2] \in Origins
  BY <1>1
<1> QED BY <1>2, <1>3, <1>4, <1>5, <1>6 DEF WellFormed, Agrees, NoOrphan, Known

\* What a provider had goes: its credential, its consents and, if it goes itself, its models.
LEMMA ForgetKeeps ==
  ASSUME ProviderAssumption, NEW s, WellFormed(s), NEW p \in ProviderIds,
         NEW q \in Providers \cup {Absent}, q.ref = None,
         NEW models, (models = s.models /\ q # Absent) \/ models = [s.models EXCEPT ![p] = "absent"],
         NEW t, t = [providers |-> [s.providers EXCEPT ![p] = q], models |-> models,
                     consents |-> {k \in s.consents : k[1] # p},
                     credentials |-> [y \in DOMAIN s.credentials \ {s.providers[p].ref} |-> s.credentials[y]],
                     values |-> s.values \ {s.providers[p].ref}]
  PROVE  /\ WellFormed(t) /\ GoneIn(t, p) /\ OthersStay(s, t, p)
         /\ DOMAIN t.credentials \subseteq DOMAIN s.credentials
<1>1. /\ s.providers \in [ProviderIds -> Providers \cup {Absent}]
      /\ s.models \in [ProviderIds -> ModelStatuses \cup {"absent"}]
      /\ s.consents \subseteq ProviderIds \X Origins /\ s.values \subseteq Refs
      /\ s.credentials \in [DOMAIN s.credentials -> Credentials] /\ DOMAIN s.credentials \subseteq Refs
  BY StateFields DEF WellFormed
<1>2. /\ t.providers = [s.providers EXCEPT ![p] = q] /\ t.models = models
      /\ t.consents = {k \in s.consents : k[1] # p} /\ t.values = s.values \ {s.providers[p].ref}
      /\ t.credentials = [y \in DOMAIN s.credentials \ {s.providers[p].ref} |-> s.credentials[y]]
      /\ t = [providers |-> t.providers, models |-> t.models, consents |-> t.consents,
              credentials |-> t.credentials, values |-> t.values]
  OBVIOUS
<1>3. /\ DOMAIN t.credentials = DOMAIN s.credentials \ {s.providers[p].ref}
      /\ \A y \in DOMAIN t.credentials : t.credentials[y] = s.credentials[y]
      /\ t.providers[p] = q /\ \A o \in ProviderIds \ {p} : t.providers[o] = s.providers[o]
  BY <1>1, <1>2
<1>4. t \in States
  <2>1. t.providers \in [ProviderIds -> Providers \cup {Absent}]
    BY <1>1, <1>2
  <2>2. t.models \in [ProviderIds -> ModelStatuses \cup {"absent"}]
    BY <1>1, <1>2
  <2>3. t.credentials \in [DOMAIN t.credentials -> Credentials] /\ DOMAIN t.credentials \subseteq Refs
    BY <1>1, <1>2, <1>3
  <2>4. t.consents \subseteq ProviderIds \X Origins /\ t.values \subseteq Refs
    BY <1>1, <1>2
  <2> QED BY <1>2, <2>1, <2>2, <2>3, <2>4, StateFields
<1>5. \A y \in DOMAIN t.credentials :
        /\ y \in DOMAIN s.credentials /\ s.credentials[y].config \in ProviderIds \ {p}
  BY <1>3, ProviderFields
<1>6. NoOrphan(t)
  <2>1. \A y \in DOMAIN t.credentials : t.providers[t.credentials[y].config].ref = y
    BY <1>3, <1>5 DEF WellFormed, NoOrphan
  <2>2. t.values \subseteq DOMAIN t.credentials
    BY <1>2, <1>3 DEF WellFormed, NoOrphan
  <2> QED BY <2>1, <2>2 DEF NoOrphan
<1>7. Agrees(t)
  <2>1. ASSUME NEW o \in ProviderIds, t.providers[o].ref # None
        PROVE  /\ t.providers[o].ref \in DOMAIN t.credentials
               /\ t.credentials[t.providers[o].ref].config = o
               /\ t.credentials[t.providers[o].ref].origin = t.providers[o].origin
    <3>1. o # p /\ t.providers[o] = s.providers[o]
      BY <1>3, <2>1
    <3> DEFINE x == s.providers[o].ref
    <3>2. x \in DOMAIN s.credentials /\ s.credentials[x].config = o /\ s.credentials[x].origin = s.providers[o].origin
      BY <2>1, <3>1 DEF WellFormed, Agrees
    <3>3. x # s.providers[p].ref
      BY <2>1, <3>1, <3>2 DEF WellFormed, Agrees
    <3> QED BY <1>3, <3>1, <3>2, <3>3
  <2>2. \A y \in DOMAIN t.credentials : t.providers[t.credentials[y].config].origin = t.credentials[y].origin
    BY <1>3, <1>5 DEF WellFormed, Agrees
  <2>3. \A k \in t.consents : t.providers[k[1]].origin = k[2]
    BY <1>1, <1>2, <1>3 DEF WellFormed, Agrees
  <2>4. \A o \in ProviderIds : t.models[o] # "absent" => Known(t, o)
    BY <1>1, <1>2, <1>3 DEF WellFormed, Agrees, Known
  <2> QED BY <2>1, <2>2, <2>3, <2>4 DEF Agrees
<1>8. GoneIn(t, p) /\ OthersStay(s, t, p)
  BY <1>2, <1>3 DEF GoneIn, OthersStay
<1> QED BY <1>3, <1>4, <1>6, <1>7, <1>8 DEF WellFormed

\* One field changes, in which nothing else has a part.
LEMMA FieldKeeps ==
  ASSUME ProviderAssumption, NEW s, WellFormed(s), NEW p \in ProviderIds, Known(s, p),
         NEW t,
         \/ \E status \in ProviderStatuses : t = RecordTest(s, p, status)
         \/ \E m \in ModelStatuses : t = [s EXCEPT !.models[p] = m]
         \/ t = GrantReceipt(s, p)
  PROVE  WellFormed(t) /\ OthersStay(s, t, p) /\ t.credentials = s.credentials
<1>1. /\ s = [providers |-> s.providers, models |-> s.models, consents |-> s.consents,
              credentials |-> s.credentials, values |-> s.values]
      /\ s.providers \in [ProviderIds -> Providers \cup {Absent}]
      /\ s.models \in [ProviderIds -> ModelStatuses \cup {"absent"}]
      /\ s.consents \subseteq ProviderIds \X Origins /\ s.values \subseteq Refs
      /\ s.credentials \in [DOMAIN s.credentials -> Credentials] /\ DOMAIN s.credentials \subseteq Refs
  BY StateFields DEF WellFormed
<1>2. s.providers[p] \in Providers /\ s.providers[p].origin \in Origins
  BY ProviderFields
<1>3. \A q : Known(s, q) <=> s.providers[q] # Absent
  BY DEF Known
<1>4. CASE \E status \in ProviderStatuses : t = RecordTest(s, p, status)
  <2>1. PICK status \in ProviderStatuses : t = RecordTest(s, p, status)
    BY <1>4
  <2> DEFINE tested == [s.providers[p] EXCEPT !.status = status]
  <2>2. /\ tested \in Providers /\ tested.ref = s.providers[p].ref /\ tested.origin = s.providers[p].origin
        /\ tested # Absent
    BY <1>2, <2>1 DEF Providers, Absent, ProviderStatuses, Failures
  <2>3. /\ t = [s EXCEPT !.providers = [s.providers EXCEPT ![p] = tested]]
    BY <1>1, <2>1 DEF RecordTest, Upsert
  <2> HIDE DEF tested
  <2>4. /\ t.providers = [s.providers EXCEPT ![p] = tested] /\ t.models = s.models /\ t.consents = s.consents
        /\ t.credentials = s.credentials /\ t.values = s.values
        /\ t = [providers |-> t.providers, models |-> t.models, consents |-> t.consents,
                credentials |-> t.credentials, values |-> t.values]
    BY <1>1, <2>3
  <2>5. t.providers \in [ProviderIds -> Providers \cup {Absent}]
    BY <1>1, <2>2, <2>4
  <2>6. t \in States
    BY <1>1, <2>4, <2>5, StateFields
  <2>7. \A o \in ProviderIds : /\ t.providers[o].ref = s.providers[o].ref
                               /\ t.providers[o].origin = s.providers[o].origin
                               /\ t.providers[o] = Absent => s.providers[o] = Absent
    BY <1>1, <2>2, <2>4
  <2>8. (\A y \in DOMAIN s.credentials : s.credentials[y].config \in ProviderIds)
          /\ \A k \in s.consents : k[1] \in ProviderIds
    BY <1>1 DEF Credentials
  <2>9. Agrees(t)
    BY <2>4, <2>7, <2>8 DEF WellFormed, Agrees, Known
  <2>10. NoOrphan(t) /\ OthersStay(s, t, p)
    BY <2>4, <2>7, <2>8 DEF WellFormed, NoOrphan, OthersStay, GoneIn
  <2> QED BY <2>4, <2>6, <2>9, <2>10 DEF WellFormed
<1>5. CASE \E m \in ModelStatuses : t = [s EXCEPT !.models[p] = m]
  <2>1. PICK m \in ModelStatuses : t = [s EXCEPT !.models[p] = m]
    BY <1>5
  <2>2. /\ t.providers = s.providers /\ t.models = [s.models EXCEPT ![p] = m] /\ t.consents = s.consents
        /\ t.credentials = s.credentials /\ t.values = s.values
        /\ t = [providers |-> t.providers, models |-> t.models, consents |-> t.consents,
                credentials |-> t.credentials, values |-> t.values]
    BY <1>1, <2>1
  <2>3. t.models \in [ProviderIds -> ModelStatuses \cup {"absent"}]
    BY <1>1, <2>2
  <2>4. t \in States
    BY <1>1, <2>2, <2>3, StateFields
  <2>5. \A o \in ProviderIds : t.models[o] # "absent" => Known(t, o)
    BY <1>1, <2>2 DEF WellFormed, Agrees, Known
  <2>6. Agrees(t) /\ NoOrphan(t)
    BY <2>2, <2>5 DEF WellFormed, Agrees, NoOrphan
  <2> QED BY <2>2, <2>4, <2>6 DEF WellFormed, OthersStay, GoneIn
<1>6. CASE t = GrantReceipt(s, p)
  <2> DEFINE key == <<p, s.providers[p].origin>>
  <2>1. key \in ProviderIds \X Origins /\ key[1] = p /\ key[2] = s.providers[p].origin
    BY <1>2
  <2>2. t = [s EXCEPT !.consents = s.consents \cup {key}]
    BY <1>6, <1>1 DEF GrantReceipt
  <2> HIDE DEF key
  <2>3. /\ t.providers = s.providers /\ t.models = s.models /\ t.consents = s.consents \cup {key}
        /\ t.credentials = s.credentials /\ t.values = s.values
        /\ t = [providers |-> t.providers, models |-> t.models, consents |-> t.consents,
                credentials |-> t.credentials, values |-> t.values]
    BY <1>1, <2>2
  <2>4. t \in States
    BY <1>1, <2>1, <2>3, StateFields
  <2>5. Agrees(t) /\ NoOrphan(t)
    BY <2>1, <2>3 DEF WellFormed, Agrees, NoOrphan, Known
  <2> QED BY <2>1, <2>3, <2>4, <2>5 DEF WellFormed, OthersStay, GoneIn
<1> QED BY <1>4, <1>5, <1>6

\* A provider comes to be that was not there, with nothing of one that was.
LEMMA RegisterKeeps ==
  ASSUME ProviderAssumption, NEW s, WellFormed(s), NEW p \in ProviderIds, ~Known(s, p),
         NEW q \in Providers, q.ref = None
  PROVE  LET t == Upsert(s, p, q) IN
         WellFormed(t) /\ OthersStay(s, t, p) /\ t.credentials = s.credentials
<1> DEFINE t == Upsert(s, p, q)
<1>1. /\ s = [providers |-> s.providers, models |-> s.models, consents |-> s.consents,
              credentials |-> s.credentials, values |-> s.values]
      /\ s.providers \in [ProviderIds -> Providers \cup {Absent}]
      /\ s.models \in [ProviderIds -> ModelStatuses \cup {"absent"}]
      /\ s.consents \subseteq ProviderIds \X Origins /\ s.values \subseteq Refs
      /\ s.credentials \in [DOMAIN s.credentials -> Credentials] /\ DOMAIN s.credentials \subseteq Refs
  BY StateFields DEF WellFormed
<1>2. /\ t.providers = [s.providers EXCEPT ![p] = q] /\ t.models = s.models /\ t.consents = s.consents
      /\ t.credentials = s.credentials /\ t.values = s.values
      /\ t = [providers |-> t.providers, models |-> t.models, consents |-> t.consents,
              credentials |-> t.credentials, values |-> t.values]
  BY <1>1 DEF Upsert
<1> HIDE DEF t
<1>3. t \in States
  <2>1. t.providers \in [ProviderIds -> Providers \cup {Absent}]
    BY <1>1, <1>2
  <2> QED BY <1>1, <1>2, <2>1, StateFields
<1>4. s.providers[p].ref = None /\ s.providers[p].origin = None
  BY ProviderFields
<1>5. \A y \in DOMAIN s.credentials :
        s.credentials[y].config \in ProviderIds \ {p} /\ s.credentials[y].origin \in Origins
  <2>1. \A y \in DOMAIN s.credentials :
          s.credentials[y].config \in ProviderIds /\ s.credentials[y].origin \in Origins
    BY <1>1 DEF Credentials
  <2> QED BY <1>4, <2>1 DEF WellFormed, Agrees, ProviderAssumption
<1>6. \A k \in s.consents : k[1] \in ProviderIds \ {p}
  <2>1. \A k \in s.consents : k[1] \in ProviderIds /\ k[2] \in Origins
    BY <1>1
  <2> QED BY <1>4, <2>1 DEF WellFormed, Agrees, ProviderAssumption
<1>7. t.providers[p] = q /\ \A o \in ProviderIds \ {p} : t.providers[o] = s.providers[o]
  BY <1>1, <1>2
<1>8. q # Absent
  BY DEF Providers, Absent, ProviderStatuses, Failures
<1>9. Agrees(t) /\ NoOrphan(t)
  BY <1>2, <1>5, <1>6, <1>7, <1>8 DEF WellFormed, Agrees, NoOrphan, Known
<1> QED BY <1>2, <1>3, <1>7, <1>9 DEF WellFormed, OthersStay, GoneIn, t

\* A fresh reference takes the place of the one that was there.
LEMMA ReplaceKeeps ==
  ASSUME ProviderAssumption, NEW s, WellFormed(s), NEW p \in ProviderIds, Known(s, p),
         NEW x \in Refs, x \notin DOMAIN s.credentials, NEW mode \in Modes
  PROVE  LET t == ReplaceCredential(s, p, x, mode) IN
         /\ WellFormed(t) /\ OthersStay(s, t, p) /\ DOMAIN t.credentials \subseteq DOMAIN s.credentials \cup {x}
<1> DEFINE t == ReplaceCredential(s, p, x, mode)
<1> DEFINE old == s.providers[p].ref
<1> DEFINE b == [config |-> p, origin |-> s.providers[p].origin, mode |-> mode]
<1> DEFINE q == [s.providers[p] EXCEPT !.ref = x, !.status = "locked"]
<1>1. /\ s = [providers |-> s.providers, models |-> s.models, consents |-> s.consents,
              credentials |-> s.credentials, values |-> s.values]
      /\ s.providers \in [ProviderIds -> Providers \cup {Absent}]
      /\ s.models \in [ProviderIds -> ModelStatuses \cup {"absent"}]
      /\ s.consents \subseteq ProviderIds \X Origins /\ s.values \subseteq Refs
      /\ s.credentials \in [DOMAIN s.credentials -> Credentials] /\ DOMAIN s.credentials \subseteq Refs
  BY StateFields DEF WellFormed
<1>2. s.providers[p] \in Providers /\ s.providers[p].origin \in Origins /\ x # None /\ old # x
  BY ProviderFields DEF ProviderAssumption
<1>3. q \in Providers /\ q.ref = x /\ q.origin = s.providers[p].origin /\ q # Absent
  BY <1>2 DEF Providers, Absent, ProviderStatuses, Failures
<1>4. b \in Credentials /\ b.config = p /\ b.origin = s.providers[p].origin
  BY <1>2 DEF Credentials
<1>5. /\ t.providers = [s.providers EXCEPT ![p] = q] /\ t.models = s.models
      /\ t.consents = {k \in s.consents : k[1] # p}
      /\ t.credentials = [y \in (DOMAIN s.credentials \cup {x}) \ {old} |->
                            IF y = x THEN b ELSE s.credentials[y]]
      /\ t.values \in {s.values \ {old}, (s.values \cup {x}) \ {old}}
      /\ t = [providers |-> t.providers, models |-> t.models, consents |-> t.consents,
              credentials |-> t.credentials, values |-> t.values]
  <2> DEFINE s1 == StoreCredential(s, p, x, mode)
  <2> DEFINE s2 == SetReference(s1, p, x)
  <2> DEFINE s3 == RemoveCredential(s2, old)
  <2>1. /\ s1.providers = s.providers /\ s1.models = s.models /\ s1.consents = s.consents
        /\ s1.credentials = [y \in DOMAIN s.credentials \cup {x} |-> IF y = x THEN b ELSE s.credentials[y]]
        /\ s1.values \in {s.values, s.values \cup {x}}
        /\ s1 = [providers |-> s1.providers, models |-> s1.models, consents |-> s1.consents,
                 credentials |-> s1.credentials, values |-> s1.values]
    <3> DEFINE held == [y \in DOMAIN s.credentials \cup {x} |-> IF y = x THEN b ELSE s.credentials[y]]
    <3> DEFINE values == IF mode = "session-only" THEN s.values \cup {x} ELSE s.values
    <3>1. s1 = [s EXCEPT !.credentials = held, !.values = values]
      BY Zenon DEF StoreCredential
    <3>2. values \in {s.values, s.values \cup {x}}
      OBVIOUS
    <3> HIDE DEF held, values
    <3>3. /\ s1.providers = s.providers /\ s1.models = s.models /\ s1.consents = s.consents
          /\ s1.credentials = held /\ s1.values = values
          /\ s1 = [providers |-> s1.providers, models |-> s1.models, consents |-> s1.consents,
                   credentials |-> s1.credentials, values |-> s1.values]
      BY <1>1, <3>1
    <3> QED BY <3>2, <3>3 DEF held
  <2> HIDE DEF s1
  <2>2. /\ s2.providers = [s.providers EXCEPT ![p] = q] /\ s2.models = s.models /\ s2.consents = s.consents
        /\ s2.credentials = s1.credentials /\ s2.values = s1.values
        /\ s2 = [providers |-> s2.providers, models |-> s2.models, consents |-> s2.consents,
                 credentials |-> s2.credentials, values |-> s2.values]
    BY <1>1, <2>1 DEF SetReference, Upsert
  <2> HIDE DEF s2
  <2>3. /\ s3.providers = s2.providers /\ s3.models = s.models /\ s3.consents = s.consents
        /\ s3.credentials = [y \in DOMAIN s2.credentials \ {old} |-> s2.credentials[y]]
        /\ s3.values = s2.values \ {old}
        /\ s3 = [providers |-> s3.providers, models |-> s3.models, consents |-> s3.consents,
                 credentials |-> s3.credentials, values |-> s3.values]
    <3> DEFINE rest == [y \in DOMAIN s2.credentials \ {old} |-> s2.credentials[y]]
    <3>1. s3 = [s2 EXCEPT !.credentials = rest, !.values = s2.values \ {old}]
      BY Zenon DEF RemoveCredential
    <3> HIDE DEF rest, s3
    <3>2. /\ s3.providers = s2.providers /\ s3.models = s2.models /\ s3.consents = s2.consents
          /\ s3.credentials = rest /\ s3.values = s2.values \ {old}
          /\ s3 = [providers |-> s3.providers, models |-> s3.models, consents |-> s3.consents,
                   credentials |-> s3.credentials, values |-> s3.values]
      BY <2>2, <3>1
    <3> QED BY <2>2, <3>2 DEF rest
  <2> HIDE DEF s3
  <2>4. t = [s3 EXCEPT !.consents = {k \in s3.consents : k[1] # p}]
    BY <2>3 DEF ReplaceCredential, RevokeConsents, s1, s2, s3
  <2> HIDE DEF t, q, b, old
  <2>5. /\ t.providers = s3.providers /\ t.models = s.models /\ t.consents = {k \in s.consents : k[1] # p}
        /\ t.credentials = s3.credentials /\ t.values = s3.values
        /\ t = [providers |-> t.providers, models |-> t.models, consents |-> t.consents,
                credentials |-> t.credentials, values |-> t.values]
    BY <2>3, <2>4
  <2>6. s3.credentials = [y \in (DOMAIN s.credentials \cup {x}) \ {old} |->
                            IF y = x THEN b ELSE s.credentials[y]]
    BY <2>1, <2>2, <2>3
  <2> QED BY <2>1, <2>2, <2>3, <2>5, <2>6
<1> HIDE DEF t, q, b
<1>6. /\ DOMAIN t.credentials = (DOMAIN s.credentials \ {old}) \cup {x} /\ t.credentials[x] = b
      /\ \A y \in DOMAIN s.credentials \ {old} : t.credentials[y] = s.credentials[y]
      /\ t.providers[p] = q /\ \A o \in ProviderIds \ {p} : t.providers[o] = s.providers[o]
  BY <1>1, <1>2, <1>5
<1>7. t \in States
  <2>1. t.providers \in [ProviderIds -> Providers \cup {Absent}]
    BY <1>1, <1>3, <1>5
  <2>2. \A y \in DOMAIN t.credentials : t.credentials[y] \in Credentials
    BY <1>1, <1>4, <1>6
  <2>3. t.credentials \in [DOMAIN t.credentials -> Credentials]
    BY <1>5, <2>2
  <2>4. DOMAIN t.credentials \subseteq Refs /\ t.values \subseteq Refs /\ t.consents \subseteq ProviderIds \X Origins
    BY <1>1, <1>5, <1>6
  <2> QED BY <1>1, <1>5, <2>1, <2>3, <2>4, StateFields
<1>8. \A y \in DOMAIN s.credentials \ {old} : s.credentials[y].config \in ProviderIds \ {p}
  BY ProviderFields
<1>9. NoOrphan(t)
  <2>1. \A y \in DOMAIN t.credentials : t.providers[t.credentials[y].config].ref = y
    BY <1>3, <1>4, <1>6, <1>8 DEF WellFormed, NoOrphan
  <2>2. t.values \subseteq DOMAIN t.credentials
    BY <1>2, <1>5, <1>6 DEF WellFormed, NoOrphan
  <2> QED BY <2>1, <2>2 DEF NoOrphan
<1>10. Agrees(t)
  <2>1. ASSUME NEW o \in ProviderIds, t.providers[o].ref # None
        PROVE  /\ t.providers[o].ref \in DOMAIN t.credentials
               /\ t.credentials[t.providers[o].ref].config = o
               /\ t.credentials[t.providers[o].ref].origin = t.providers[o].origin
    <3>1. CASE o = p
      BY <1>3, <1>4, <1>6, <3>1
    <3>2. CASE o # p
      <4>1. t.providers[o] = s.providers[o]
        BY <1>6, <3>2
      <4> DEFINE z == s.providers[o].ref
      <4>2. z \in DOMAIN s.credentials /\ s.credentials[z].config = o /\ s.credentials[z].origin = s.providers[o].origin
        BY <2>1, <4>1 DEF WellFormed, Agrees
      <4>3. z # old
        BY <2>1, <3>2, <4>1, <4>2 DEF WellFormed, Agrees
      <4> QED BY <1>6, <4>1, <4>2, <4>3
    <3> QED BY <3>1, <3>2
  <2>2. \A y \in DOMAIN t.credentials : t.providers[t.credentials[y].config].origin = t.credentials[y].origin
    BY <1>3, <1>4, <1>6, <1>8 DEF WellFormed, Agrees
  <2>3. \A k \in t.consents : t.providers[k[1]].origin = k[2]
    BY <1>1, <1>5, <1>6 DEF WellFormed, Agrees
  <2>4. \A o \in ProviderIds : t.models[o] # "absent" => Known(t, o)
    BY <1>3, <1>5, <1>6 DEF WellFormed, Agrees, Known
  <2> QED BY <2>1, <2>2, <2>3, <2>4 DEF Agrees
<1>11. OthersStay(s, t, p)
  BY <1>5, <1>6 DEF OthersStay, GoneIn
<1> QED BY <1>6, <1>7, <1>9, <1>10, <1>11 DEF WellFormed, t

\* The three ways a provider loses what it had.
LEMMA Forgets ==
  ASSUME ProviderAssumption, NEW s, WellFormed(s), NEW p \in ProviderIds, Known(s, p),
         NEW t,
         LET rest == RevokeConsents(RemoveCredential(s, s.providers[p].ref), p) IN
         \/ \E o \in Origins : t = Upsert(rest, p, [status |-> "unconfigured", origin |-> o, ref |-> None])
         \/ t = Unregister(RemoveModels(rest, p), p)
         \/ t = Revoke(rest, p)
  PROVE  /\ WellFormed(t) /\ GoneIn(t, p) /\ OthersStay(s, t, p)
         /\ DOMAIN t.credentials \subseteq DOMAIN s.credentials
<1> DEFINE old == s.providers[p].ref
<1> DEFINE left == [y \in DOMAIN s.credentials \ {old} |-> s.credentials[y]]
<1> DEFINE removed == RemoveCredential(s, old)
<1> DEFINE rest == RevokeConsents(removed, p)
<1>1. /\ s = [providers |-> s.providers, models |-> s.models, consents |-> s.consents,
              credentials |-> s.credentials, values |-> s.values]
      /\ s.providers \in [ProviderIds -> Providers \cup {Absent}]
      /\ s.models \in [ProviderIds -> ModelStatuses \cup {"absent"}]
  BY StateFields DEF WellFormed
<1>2. s.providers[p] \in Providers
  BY ProviderFields
<1>3. removed = [s EXCEPT !.credentials = left, !.values = s.values \ {old}]
  BY Zenon DEF RemoveCredential
<1> HIDE DEF left, removed
<1>4. /\ removed.providers = s.providers /\ removed.models = s.models /\ removed.consents = s.consents
      /\ removed.credentials = left /\ removed.values = s.values \ {old}
      /\ removed = [providers |-> removed.providers, models |-> removed.models, consents |-> removed.consents,
                    credentials |-> removed.credentials, values |-> removed.values]
  BY <1>1, <1>3
<1> DEFINE other == {k \in s.consents : k[1] # p}
<1>5. rest = [removed EXCEPT !.consents = other]
  BY <1>4 DEF RevokeConsents
<1> HIDE DEF other, rest
<1>6. rest = [providers |-> s.providers, models |-> s.models, consents |-> other,
              credentials |-> left, values |-> s.values \ {old}]
  BY <1>4, <1>5
<1>7. \E q \in Providers \cup {Absent} : \E models :
        /\ q.ref = None
        /\ (models = s.models /\ q # Absent) \/ models = [s.models EXCEPT ![p] = "absent"]
        /\ t = [providers |-> [s.providers EXCEPT ![p] = q], models |-> models, consents |-> other,
                credentials |-> left, values |-> s.values \ {old}]
  <2>1. CASE \E o \in Origins : t = Upsert(rest, p, [status |-> "unconfigured", origin |-> o, ref |-> None])
    <3>1. PICK o \in Origins : t = Upsert(rest, p, [status |-> "unconfigured", origin |-> o, ref |-> None])
      BY <2>1
    <3> DEFINE q == [status |-> "unconfigured", origin |-> o, ref |-> None]
    <3>2. q \in Providers /\ q.ref = None /\ q # Absent
      BY DEF Providers, ProviderStatuses, Absent
    <3> HIDE DEF q
    <3>3. t = [rest EXCEPT !.providers = [s.providers EXCEPT ![p] = q]]
      BY <1>6, <3>1 DEF Upsert, q
    <3>4. t = [providers |-> [s.providers EXCEPT ![p] = q], models |-> s.models, consents |-> other,
               credentials |-> left, values |-> s.values \ {old}]
      BY <1>6, <3>3
    <3> QED BY <3>2, <3>4
  <2>2. CASE t = Unregister(RemoveModels(rest, p), p)
    <3> DEFINE models == [s.models EXCEPT ![p] = "absent"]
    <3> DEFINE providers == [s.providers EXCEPT ![p] = Absent]
    <3> DEFINE unlisted == RemoveModels(rest, p)
    <3>1. unlisted = [rest EXCEPT !.models = models]
      BY <1>6 DEF RemoveModels
    <3>0. t = Unregister(unlisted, p)
      BY <2>2
    <3> HIDE DEF models, unlisted
    <3>2. unlisted = [providers |-> s.providers, models |-> models, consents |-> other,
                      credentials |-> left, values |-> s.values \ {old}]
      BY <1>6, <3>1
    <3>3. t = [unlisted EXCEPT !.providers = providers]
      BY <3>0, <3>2 DEF Unregister
    <3> HIDE DEF providers
    <3>4. t = [providers |-> providers, models |-> models, consents |-> other,
               credentials |-> left, values |-> s.values \ {old}]
      BY <3>2, <3>3
    <3>5. Absent \in Providers \cup {Absent} /\ Absent.ref = None
      BY DEF Absent
    <3> QED BY <3>4, <3>5 DEF providers, models
  <2>3. CASE t = Revoke(rest, p)
    <3> DEFINE q == [s.providers[p] EXCEPT !.ref = None, !.status = "revoked"]
    <3>1. q \in Providers /\ q.ref = None /\ q # Absent
      BY <1>2 DEF Providers, ProviderStatuses, Absent
    <3>2. t = [rest EXCEPT !.providers = [s.providers EXCEPT ![p] = q]]
      BY <1>6, <2>3 DEF Revoke, Upsert
    <3> HIDE DEF q
    <3>3. t = [providers |-> [s.providers EXCEPT ![p] = q], models |-> s.models, consents |-> other,
               credentials |-> left, values |-> s.values \ {old}]
      BY <1>6, <3>2
    <3> QED BY <3>1, <3>3
  <2> QED BY <2>1, <2>2, <2>3 DEF rest, removed
<1> QED BY <1>7, ForgetKeeps DEF other, left

\* Without its secrets a state is as well formed, and what was imported is.
LEMMA DurableKeeps ==
  ASSUME NEW s, WellFormed(s)
  PROVE  /\ WellFormed(Durable(s)) /\ Durable(s).values = {} /\ Durable(s).credentials = s.credentials
         /\ \A p \in ProviderIds : GoneIn(Durable(s), p) <=> GoneIn(s, p)
<1> DEFINE t == Durable(s)
<1>1. /\ s = [providers |-> s.providers, models |-> s.models, consents |-> s.consents,
              credentials |-> s.credentials, values |-> s.values]
      /\ s.providers \in [ProviderIds -> Providers \cup {Absent}]
      /\ s.models \in [ProviderIds -> ModelStatuses \cup {"absent"}]
      /\ s.consents \subseteq ProviderIds \X Origins /\ s.values \subseteq Refs
      /\ s.credentials \in [DOMAIN s.credentials -> Credentials] /\ DOMAIN s.credentials \subseteq Refs
  BY StateFields DEF WellFormed
<1>2. /\ t.providers = s.providers /\ t.models = s.models /\ t.consents = s.consents
      /\ t.credentials = s.credentials /\ t.values = {}
      /\ t = [providers |-> t.providers, models |-> t.models, consents |-> t.consents,
              credentials |-> t.credentials, values |-> t.values]
  <2>1. t = [s EXCEPT !.values = {}]
    BY DEF Durable
  <2>2. s = [providers |-> s.providers, models |-> s.models, consents |-> s.consents,
             credentials |-> s.credentials, values |-> s.values]
    BY <1>1
  <2> HIDE DEF t
  <2> QED BY <2>1, <2>2
<1> HIDE DEF t
<1>3. t \in States
  BY <1>1, <1>2, StateFields
<1>4. Agrees(t) /\ NoOrphan(t)
  BY <1>2 DEF WellFormed, Agrees, NoOrphan, Known
<1> QED BY <1>2, <1>3, <1>4 DEF WellFormed, GoneIn, t

\* A state of providers without a credential.
LEMMA NoCredentialKeeps ==
  ASSUME NEW providers \in [ProviderIds -> Providers \cup {Absent}],
         \A p \in ProviderIds : providers[p].ref = None,
         NEW consents \in SUBSET (ProviderIds \X Origins),
         \A k \in consents : providers[k[1]].origin = k[2]
  PROVE  LET t == [Empty EXCEPT !.providers = providers, !.consents = consents] IN
         /\ WellFormed(t) /\ t.values = {} /\ DOMAIN t.credentials = {}
         /\ t.consents = consents /\ t.providers = providers
<1> DEFINE t == [Empty EXCEPT !.providers = providers, !.consents = consents]
<1> DEFINE none == [y \in {} |-> None]
<1> DEFINE models == [p \in ProviderIds |-> "absent"]
<1>1. Empty = [providers |-> [p \in ProviderIds |-> Absent], models |-> models,
               consents |-> {}, credentials |-> none, values |-> {}]
  BY DEF Empty
<1>2. DOMAIN none = {} /\ none \in [DOMAIN none -> Credentials]
  OBVIOUS
<1>3. models \in [ProviderIds -> ModelStatuses \cup {"absent"}] /\ \A p \in ProviderIds : models[p] = "absent"
  OBVIOUS
<1> HIDE DEF none, models
<1> DEFINE nobody == [p \in ProviderIds |-> Absent]
<1>9. Empty = [providers |-> nobody, models |-> models, consents |-> {}, credentials |-> none, values |-> {}]
  BY <1>1
<1> HIDE DEF nobody
<1>4. t = [providers |-> providers, models |-> models, consents |-> consents,
           credentials |-> none, values |-> {}]
  <2>1. PICK e : e = Empty
    OBVIOUS
  <2>2. e = [providers |-> nobody, models |-> models, consents |-> {}, credentials |-> none, values |-> {}]
    BY <1>9, <2>1
  <2>3. t = [e EXCEPT !.providers = providers, !.consents = consents]
    BY <2>1
  <2> HIDE DEF t
  <2> QED BY <2>2, <2>3
<1> HIDE DEF t
<1>5. /\ t.providers = providers /\ t.models = models /\ t.consents = consents
      /\ t.credentials = none /\ t.values = {}
  BY <1>4
<1>6. t \in States
  BY <1>2, <1>3, <1>4, <1>5, StateFields
<1>7. Agrees(t) /\ NoOrphan(t)
  BY <1>2, <1>3, <1>5 DEF Agrees, NoOrphan, Known
<1> QED BY <1>2, <1>5, <1>6, <1>7 DEF WellFormed, t

\* A call begins on a fork of what is in memory.
LEMMA ForkKeeps ==
  ASSUME ProviderAssumption, PInv, NEW c \in Calls, NEW p \in ProviderIds, NEW op \in Mutations,
         NEW phase \in {"wrapping", "testing", "paging", "saving"}, NEW draft,
         NEW dropped \in Origins \cup {None}, Fork(c, p, op, phase, draft, dropped),
         issued \subseteq issued', issued' \subseteq Refs,
         WellFormed(draft), DOMAIN draft.credentials \subseteq issued', OthersStay(live, draft, p),
         phase \in {"testing", "paging"} => Known(draft, p) /\ op \notin Disconnecting,
         op \in Disconnecting => GoneIn(draft, p)
  PROVE  PInv'
<1> DEFINE r == [phase |-> phase, op |-> op, config |-> p, draft |-> draft, dropped |-> dropped,
                 pages |-> 0, overtaken |-> FALSE]
<1>1. /\ call' = [call EXCEPT ![c] = r] /\ UNCHANGED <<live, stored, permitted>>
      /\ disconnected' \subseteq disconnected /\ (op \notin Disconnecting => p \notin disconnected')
  BY DEF Fork, Disconnecting
<1>2. r \in CallTypes
  BY DEF CallTypes, WellFormed
<1>3. /\ r.phase = phase /\ r.op = op /\ r.config = p /\ r.draft = draft /\ r.overtaken = FALSE
  OBVIOUS
<1> HIDE DEF r
<1>4. CallLegal(r, live, disconnected', issued')
  BY <1>1, <1>2, <1>3 DEF CallLegal
<1>5. call \in [Calls -> CallTypes \cup {NoCall}]
  BY DEF PInv
<1>6. call' \in [Calls -> CallTypes \cup {NoCall}]
  BY <1>1, <1>2, <1>5
<1>7. ASSUME NEW d \in Calls, call'[d] # NoCall PROVE CallLegal(call'[d], live, disconnected', issued')
  <2>1. CASE d = c
    BY <1>1, <1>4, <1>5, <2>1
  <2>2. CASE d # c
    <3>1. call'[d] = call[d]
      BY <1>1, <1>5, <2>2
    <3>2. CallLegal(call[d], live, disconnected, issued)
      BY <1>7, <3>1 DEF PInv
    <3> QED BY <1>1, <3>1, <3>2 DEF CallLegal
  <2> QED BY <2>1, <2>2
<1> QED BY <1>1, <1>6, <1>7 DEF PInv

\* A call goes on alone, or ends.
LEMMA CallKeeps ==
  ASSUME PInv, NEW c \in Calls, NEW r, call' = [call EXCEPT ![c] = r],
         r = NoCall \/ CallLegal(r, live, disconnected, issued),
         permitted' \subseteq Origins, UNCHANGED <<live, stored, issued, disconnected>>
  PROVE  PInv'
<1>1. call \in [Calls -> CallTypes \cup {NoCall}] /\ r \in CallTypes \cup {NoCall}
  BY DEF PInv, CallLegal
<1>2. call' \in [Calls -> CallTypes \cup {NoCall}]
  BY <1>1
<1>3. \A d \in Calls : call'[d] # NoCall => CallLegal(call'[d], live, disconnected, issued)
  BY <1>1 DEF PInv
<1> QED BY <1>2, <1>3 DEF PInv

\* A call at some place of its mutation.
LEMMA CallAt ==
  ASSUME PInv, NEW c \in Calls, call[c].phase \in {"wrapping", "testing", "paging", "saving", "dropping"}
  PROVE  /\ call[c] # NoCall /\ CallLegal(call[c], live, disconnected, issued) /\ call[c] \in CallTypes
         /\ call[c].draft \in States /\ call[c].config \in ProviderIds
<1>1. call[c] # NoCall
  BY DEF NoCall
<1>2. CallLegal(call[c], live, disconnected, issued)
  BY <1>1 DEF PInv
<1> QED BY <1>1, <1>2 DEF CallLegal, CallTypes

\* A mutation begins.
LEMMA MutationKeeps ==
  ASSUME ProviderAssumption, PInv, NEW c \in Calls, NEW p \in ProviderIds,
         \/ \E o \in Origins : Register(c, p, o) \/ UpdateProvider(c, p, o)
         \/ RegisterModel(c, p) \/ RemoveProvider(c, p) \/ GrantConsent(c, p) \/ Disconnect(c, p)
         \/ \E mode \in Modes : SetCredential(c, p, mode)
         \/ TestConnection(c, p) \/ RefreshCatalog(c, p)
  PROVE  PInv'
<1>1. WellFormed(live) /\ DOMAIN live.credentials \subseteq issued /\ issued \subseteq Refs
  BY DEF PInv
<1>2. OthersStay(live, live, p)
  BY DEF OthersStay
<1>3. Known(live, p) => live.providers[p].origin \in Origins
  BY <1>1, ProviderFields
<1>4. CASE \E o \in Origins : Register(c, p, o)
  <2>1. PICK o \in Origins : Register(c, p, o)
    BY <1>4
  <2> DEFINE q == [status |-> "unconfigured", origin |-> o, ref |-> None]
  <2> DEFINE t == Upsert(live, p, q)
  <2>2. q \in Providers /\ q.ref = None
    BY DEF Providers, ProviderStatuses
  <2>3. ~Known(live, p) /\ Fork(c, p, "register", "saving", t, None) /\ UNCHANGED issued
    BY <2>1 DEF Register
  <2> HIDE DEF q
  <2>4. WellFormed(t) /\ OthersStay(live, t, p) /\ t.credentials = live.credentials
    BY <1>1, <2>2, <2>3, RegisterKeeps
  <2> HIDE DEF t
  <2>5. "register" \in Mutations \ Disconnecting
    BY DEF Mutations, Disconnecting
  <2> QED BY <1>1, <2>3, <2>4, <2>5, ForkKeeps
<1>5. CASE RegisterModel(c, p)
  <2> DEFINE t == [live EXCEPT !.models[p] = "user"]
  <2>1. Known(live, p) /\ Fork(c, p, "model", "saving", t, None) /\ UNCHANGED issued
    BY <1>5 DEF RegisterModel
  <2>2. \E m \in ModelStatuses : t = [live EXCEPT !.models[p] = m]
    BY DEF ModelStatuses
  <2> HIDE DEF t
  <2>3. WellFormed(t) /\ OthersStay(live, t, p) /\ t.credentials = live.credentials
    BY <1>1, <2>1, <2>2, FieldKeeps
  <2>4. "model" \in Mutations \ Disconnecting
    BY DEF Mutations, Disconnecting
  <2> QED BY <1>1, <2>1, <2>3, <2>4, ForkKeeps
<1>11. CASE GrantConsent(c, p)
  <2> DEFINE t == GrantReceipt(live, p)
  <2>1. Known(live, p) /\ Fork(c, p, "consent", "saving", t, None) /\ UNCHANGED issued
    BY <1>11 DEF GrantConsent
  <2>2. WellFormed(t) /\ OthersStay(live, t, p) /\ t.credentials = live.credentials
    BY <1>1, <2>1, FieldKeeps
  <2> HIDE DEF t
  <2>3. "consent" \in Mutations \ Disconnecting
    BY DEF Mutations, Disconnecting
  <2> QED BY <1>1, <2>1, <2>2, <2>3, ForkKeeps
<1> DEFINE old == live.providers[p]
<1> DEFINE rest == RevokeConsents(RemoveCredential(live, old.ref), p)
<1> DEFINE given == IF StillUsed(live, p, old.origin) THEN None ELSE old.origin
<1>6. CASE RemoveProvider(c, p)
  <2> DEFINE t == Unregister(RemoveModels(rest, p), p)
  <2>1. Known(live, p) /\ Fork(c, p, "remove", "saving", t, given) /\ UNCHANGED issued
    BY <1>6 DEF RemoveProvider
  <2>2. /\ WellFormed(t) /\ GoneIn(t, p) /\ OthersStay(live, t, p)
        /\ DOMAIN t.credentials \subseteq DOMAIN live.credentials
    BY <1>1, <2>1, Forgets
  <2> HIDE DEF t
  <2>3. "remove" \in Mutations /\ given \in Origins \cup {None}
    BY <1>3, <2>1 DEF Mutations, Disconnecting
  <2> HIDE DEF given, rest, old
  <2> QED BY <1>1, <2>1, <2>2, <2>3, ForkKeeps
<1>12. CASE Disconnect(c, p)
  <2> DEFINE t == Revoke(rest, p)
  <2>1. Known(live, p) /\ Fork(c, p, "disconnect", "saving", t, given) /\ UNCHANGED issued
    BY <1>12 DEF Disconnect
  <2>2. /\ WellFormed(t) /\ GoneIn(t, p) /\ OthersStay(live, t, p)
        /\ DOMAIN t.credentials \subseteq DOMAIN live.credentials
    BY <1>1, <2>1, Forgets
  <2> HIDE DEF t
  <2>3. "disconnect" \in Mutations /\ given \in Origins \cup {None}
    BY <1>3, <2>1 DEF Mutations, Disconnecting
  <2> HIDE DEF given, rest, old
  <2> QED BY <1>1, <2>1, <2>2, <2>3, ForkKeeps
<1>7. CASE \E o \in Origins : UpdateProvider(c, p, o)
  <2>1. PICK o \in Origins : UpdateProvider(c, p, o)
    BY <1>7
  <2> DEFINE rebound == Upsert(rest, p, [status |-> "unconfigured", origin |-> o, ref |-> None])
  <2> DEFINE t == IF o = old.origin THEN live ELSE rebound
  <2> DEFINE dropped == IF o = old.origin \/ StillUsed(live, p, old.origin) THEN None ELSE old.origin
  <2>2. Known(live, p) /\ Fork(c, p, "update", "saving", t, dropped) /\ UNCHANGED issued
    BY <2>1 DEF UpdateProvider
  <2>3. WellFormed(rebound) /\ OthersStay(live, rebound, p) /\ DOMAIN rebound.credentials \subseteq DOMAIN live.credentials
    BY <1>1, <2>2, Forgets
  <2> HIDE DEF rebound
  <2>4. WellFormed(t) /\ OthersStay(live, t, p) /\ DOMAIN t.credentials \subseteq DOMAIN live.credentials
    BY <1>1, <1>2, <2>3
  <2>5. "update" \in Mutations \ Disconnecting /\ dropped \in Origins \cup {None}
    BY <1>3, <2>2 DEF Mutations, Disconnecting
  <2> HIDE DEF t, dropped, given, rest, old
  <2> QED BY <1>1, <2>2, <2>4, <2>5, ForkKeeps
<1>8. CASE \E mode \in Modes : SetCredential(c, p, mode)
  <2>1. PICK mode \in Modes : SetCredential(c, p, mode)
    BY <1>8
  <2>2. PICK x \in Refs \ issued, phase \in {"wrapping", "saving"} :
          /\ Known(live, p) /\ issued' = issued \cup {x}
          /\ Fork(c, p, "credential", phase, ReplaceCredential(live, p, x, mode), None)
    BY <2>1 DEF SetCredential
  <2> DEFINE t == ReplaceCredential(live, p, x, mode)
  <2>3. WellFormed(t) /\ OthersStay(live, t, p) /\ DOMAIN t.credentials \subseteq DOMAIN live.credentials \cup {x}
    BY <1>1, <2>2, ReplaceKeeps
  <2>4. Fork(c, p, "credential", phase, t, None)
    BY <2>2
  <2> HIDE DEF t
  <2>5. "credential" \in Mutations \ Disconnecting
    BY DEF Mutations, Disconnecting
  <2> QED BY <1>1, <2>2, <2>3, <2>4, <2>5, ForkKeeps
<1>9. CASE TestConnection(c, p) \/ RefreshCatalog(c, p)
  <2>1. PICK op \in {"test", "refresh"}, phase \in {"testing", "paging"} :
          Known(live, p) /\ Fork(c, p, op, phase, live, None) /\ UNCHANGED issued
    BY <1>9 DEF TestConnection, RefreshCatalog
  <2>2. op \in Mutations \ Disconnecting
    BY <2>1 DEF Mutations, Disconnecting
  <2> QED BY <1>1, <1>2, <2>1, <2>2, ForkKeeps
<1> QED BY <1>4, <1>5, <1>6, <1>7, <1>8, <1>9, <1>11, <1>12

\* The awaits of a mutation change its fork alone.
LEMMA AwaitKeeps ==
  ASSUME ProviderAssumption, PInv, NEW c \in Calls,
         Wrapped(c) \/ Tested(c) \/ NextPage(c) \/ LastPage(c) \/ Throws(c) \/ DropPermission(c)
  PROVE  PInv'
<1>1. CASE Throws(c) \/ DropPermission(c)
  <2>1. /\ call' = [call EXCEPT ![c] = NoCall] /\ permitted' \subseteq Origins
        /\ UNCHANGED <<live, stored, issued, disconnected>>
    BY <1>1 DEF Throws, DropPermission, PInv
  <2> QED BY <2>1, CallKeeps
<1>2. CASE Wrapped(c) \/ NextPage(c)
  <2>1. /\ call[c] \in CallTypes /\ CallLegal(call[c], live, disconnected, issued)
        /\ call[c].phase \in {"wrapping", "paging"}
    BY <1>2, CallAt DEF Wrapped, NextPage
  <2>2. PICK r \in {[call[c] EXCEPT !.phase = "saving"], [call[c] EXCEPT !.pages = @ + 1]} :
          call' = [call EXCEPT ![c] = r]
    BY <1>2 DEF Wrapped, NextPage, PInv
  <2>3. /\ r \in CallTypes /\ r.op = call[c].op /\ r.config = call[c].config /\ r.draft = call[c].draft
        /\ r.overtaken = call[c].overtaken /\ r.phase \in {"saving", call[c].phase}
    BY <2>1, <2>2 DEF CallTypes
  <2>4. CallLegal(r, live, disconnected, issued)
    BY <2>1, <2>3 DEF CallLegal
  <2>5. permitted' \subseteq Origins /\ UNCHANGED <<live, stored, issued, disconnected>>
    BY <1>2 DEF Wrapped, NextPage, PInv
  <2> QED BY <2>2, <2>4, <2>5, CallKeeps
<1>3. CASE Tested(c) \/ LastPage(c)
  <2> DEFINE old == call[c].draft
  <2> DEFINE p == call[c].config
  <2>1. /\ call[c] \in CallTypes /\ CallLegal(call[c], live, disconnected, issued)
        /\ call[c].phase \in {"testing", "paging"} /\ old \in States /\ p \in ProviderIds
    BY <1>3, CallAt DEF Tested, LastPage
  <2>2. WellFormed(old) /\ Known(old, p) /\ call[c].op \notin Disconnecting
    BY <2>1 DEF CallLegal
  <2>3. PICK t :
          /\ call' = [call EXCEPT ![c] = [call[c] EXCEPT !.phase = "saving", !.draft = t]]
          /\ \/ \E status \in ProviderStatuses : t = RecordTest(old, p, status)
             \/ \E named \in BOOLEAN : t = Synchronized(old, p, named)
    <3>1. CASE Tested(c)
      <4>1. PICK status \in TestOutcomes(old, p) :
              call' = [call EXCEPT ![c].phase = "saving", ![c].draft = RecordTest(@, p, status)]
        BY <3>1 DEF Tested
      <4>2. status \in ProviderStatuses
        BY <4>1 DEF TestOutcomes, StatusForFailure, ProviderStatuses, Failures
      <4>3. call' = [call EXCEPT ![c] = [call[c] EXCEPT !.phase = "saving", !.draft = RecordTest(old, p, status)]]
        BY <2>1, <4>1 DEF PInv, CallTypes
      <4> QED BY <4>2, <4>3
    <3>2. CASE LastPage(c)
      <4>1. PICK named \in BOOLEAN :
              call' = [call EXCEPT ![c].phase = "saving", ![c].draft = Synchronized(@, p, named)]
        BY <3>2 DEF LastPage
      <4>2. call' = [call EXCEPT ![c] = [call[c] EXCEPT !.phase = "saving", !.draft = Synchronized(old, p, named)]]
        BY <2>1, <4>1 DEF PInv, CallTypes
      <4> QED BY <4>2
    <3> QED BY <1>3, <3>1, <3>2
  <2>4. WellFormed(t) /\ OthersStay(old, t, p) /\ t.credentials = old.credentials
    <3>1. CASE \E status \in ProviderStatuses : t = RecordTest(old, p, status)
      BY <2>1, <2>2, <3>1, FieldKeeps
    <3>2. CASE \E named \in BOOLEAN : t = Synchronized(old, p, named)
      <4>1. old.models[p] \in ModelStatuses \cup {"absent"}
        BY <2>1 DEF States
      <4>2. old.models \in [ProviderIds -> ModelStatuses \cup {"absent"}]
        BY <2>1 DEF States
      <4>3. PICK m \in ModelStatuses \cup {"absent"} :
              t = [old EXCEPT !.models[p] = m] /\ (m = "absent" => old.models[p] = "absent")
        BY <3>2, <4>1 DEF Synchronized, ModelStatuses
      <4>4. CASE m \in ModelStatuses
        BY <2>1, <2>2, <4>3, <4>4, FieldKeeps
      <4>5. CASE m = "absent"
        <5>1. [old.models EXCEPT ![p] = m] = old.models
          BY <2>1, <4>2, <4>3, <4>5
        <5>2. t = [old EXCEPT !.models = old.models]
          BY <4>3, <5>1
        <5>3. old = [providers |-> old.providers, models |-> old.models, consents |-> old.consents,
                     credentials |-> old.credentials, values |-> old.values]
          BY <2>1, StateFields
        <5>4. t = old
          BY <5>2, <5>3
        <5> QED BY <2>2, <5>4 DEF OthersStay
      <4> QED BY <4>4, <4>5
    <3> QED BY <2>3, <3>1, <3>2
  <2> DEFINE r == [call[c] EXCEPT !.phase = "saving", !.draft = t]
  <2>5. /\ r \in CallTypes /\ r.op = call[c].op /\ r.config = p /\ r.draft = t
        /\ r.overtaken = call[c].overtaken /\ r.phase = "saving"
    BY <2>1, <2>4 DEF CallTypes, WellFormed
  <2>6. call' = [call EXCEPT ![c] = r]
    BY <2>3
  <2> HIDE DEF r
  <2>7. CallLegal(r, live, disconnected, issued)
    BY <2>1, <2>2, <2>4, <2>5 DEF CallLegal, OthersStay
  <2>8. permitted' \subseteq Origins /\ UNCHANGED <<live, stored, issued, disconnected>>
    BY <1>3 DEF Tested, LastPage, PInv
  <2> QED BY <2>6, <2>7, <2>8, CallKeeps
<1> QED BY <1>1, <1>2, <1>3

\* The fork is saved and taken as what is in memory; the mutations under way are overtaken.
LEMMA SaveKeeps ==
  ASSUME ProviderAssumption, PInv, NEW c \in Calls, SaveFork(c)
  PROVE  PInv'
<1>1. /\ call[c] # NoCall /\ CallLegal(call[c], live, disconnected, issued) /\ call[c] \in CallTypes
      /\ call[c].config \in ProviderIds
  BY CallAt DEF SaveFork
<1> DEFINE draft == call[c].draft
<1>2. WellFormed(draft) /\ DOMAIN draft.credentials \subseteq issued
  BY <1>1 DEF CallLegal
<1>3. live' = draft /\ stored' = Durable(draft) /\ UNCHANGED <<permitted, issued>>
  BY DEF SaveFork
<1>4. WellFormed(stored') /\ stored'.values = {} /\ stored'.credentials = draft.credentials
  BY <1>2, <1>3, DurableKeeps
<1>5. call \in [Calls -> CallTypes \cup {NoCall}]
  BY DEF PInv
<1>6. ASSUME NEW d \in Calls
      PROVE  call'[d] = NoCall \/ CallLegal(call'[d], live', disconnected', issued')
  <2>1. CASE d = c
    <3>1. call'[c] = NoCall \/ call'[c] = [call[c] EXCEPT !.phase = "dropping"]
      BY DEF SaveFork
    <3> DEFINE r == [call[c] EXCEPT !.phase = "dropping"]
    <3>2. /\ r \in CallTypes /\ r.op = call[c].op /\ r.config = call[c].config /\ r.draft = draft
          /\ r.phase = "dropping"
      BY <1>1 DEF CallTypes
    <3> HIDE DEF r
    <3>3. CallLegal(r, live', disconnected', issued')
      BY <1>1, <1>3, <3>2 DEF CallLegal
    <3> QED BY <2>1, <3>1, <3>3 DEF r
  <2>2. CASE d # c /\ call[d] # NoCall
    <3> DEFINE r == [call[d] EXCEPT !.overtaken = TRUE]
    <3>1. call'[d] = r
      BY <2>2 DEF SaveFork
    <3>2. CallLegal(call[d], live, disconnected, issued) /\ call[d] \in CallTypes
      BY <2>2 DEF PInv, CallLegal
    <3>3. /\ r \in CallTypes /\ r.op = call[d].op /\ r.config = call[d].config /\ r.draft = call[d].draft
          /\ r.phase = call[d].phase /\ r.overtaken = TRUE
      BY <3>2 DEF CallTypes
    <3> HIDE DEF r
    <3>4. CallLegal(r, live', disconnected', issued')
      BY <1>3, <3>2, <3>3 DEF CallLegal
    <3> QED BY <3>1, <3>4
  <2>3. CASE d # c /\ call[d] = NoCall
    BY <2>3 DEF SaveFork
  <2> QED BY <2>1, <2>2, <2>3
<1>7. call' \in [Calls -> CallTypes \cup {NoCall}]
  <2>1. call' = [d \in Calls |-> call'[d]]
    BY DEF SaveFork
  <2>2. \A d \in Calls : call'[d] \in CallTypes \cup {NoCall}
    BY <1>6 DEF CallLegal
  <2> QED BY <2>1, <2>2
<1>8. disconnected' \subseteq ProviderIds /\ issued' \subseteq Refs /\ permitted' \subseteq Origins
  BY <1>1 DEF SaveFork, PInv
<1> QED BY <1>2, <1>3, <1>4, <1>6, <1>7, <1>8 DEF PInv

\* What an import writes.
LEMMA Imported ==
  ASSUME NEW S \in SUBSET ProviderIds, NEW o \in Origins, ImportReplace(S, o)
  PROVE  /\ WellFormed(stored') /\ stored'.values = {} /\ DOMAIN stored'.credentials = {}
         /\ \A p \in ProviderIds : GoneIn(stored', p)
         /\ UNCHANGED <<live, call, permitted, issued, disconnected>>
<1> DEFINE brought == [p \in ProviderIds |->
                         IF p \in S THEN [status |-> "locked", origin |-> o, ref |-> None] ELSE Absent]
<1> DEFINE t == [Empty EXCEPT !.providers = brought, !.consents = {}]
<1>1. brought \in [ProviderIds -> Providers \cup {Absent}] /\ \A p \in ProviderIds : brought[p].ref = None
  BY DEF Providers, ProviderStatuses, Failures, Absent
<1>2. stored' = [Empty EXCEPT !.providers = brought]
  BY DEF ImportReplace
<1> HIDE DEF brought
<1>3. WellFormed(t) /\ t.values = {} /\ DOMAIN t.credentials = {} /\ t.consents = {} /\ t.providers = brought
  BY <1>1, NoCredentialKeeps
<1>4. stored' = t
  <2>1. PICK e : e = Empty
    OBVIOUS
  <2> DEFINE nobody == [p \in ProviderIds |-> Absent]
  <2> DEFINE nothing == [p \in ProviderIds |-> "absent"]
  <2> DEFINE none == [x \in {} |-> None]
  <2>2. e = [providers |-> nobody, models |-> nothing, consents |-> {}, credentials |-> none, values |-> {}]
    BY <2>1 DEF Empty
  <2>3. t = [e EXCEPT !.providers = brought, !.consents = {}] /\ stored' = [e EXCEPT !.providers = brought]
    BY <1>2, <2>1
  <2> DEFINE record == [providers |-> brought, models |-> nothing, consents |-> {}, credentials |-> none, values |-> {}]
  <2> HIDE DEF nobody, nothing, none, t
  <2>4. t = record
    BY <2>2, <2>3
  <2>5. stored' = record
    BY <2>2, <2>3
  <2> QED BY <2>4, <2>5
<1> HIDE DEF t
<1>5. \A p \in ProviderIds : GoneIn(stored', p)
  BY <1>1, <1>3, <1>4 DEF GoneIn
<1> QED BY <1>3, <1>4, <1>5 DEF ImportReplace

\* The fork of every mutation stays what the invariant says.
LEMMA NextKeepsPInv ==
  ASSUME ProviderAssumption, PInv, [ManagementNext]_pVars
  PROVE  PInv'
<1>1. CASE \E c \in Calls : Mutation(c)
  BY <1>1, MutationKeeps, AwaitKeeps, SaveKeeps DEF Mutation
<1>2. CASE \E o \in Origins : AskPermission(o)
  <2>1. permitted' \subseteq Origins /\ UNCHANGED <<live, stored, call, issued, disconnected>>
    BY <1>2 DEF AskPermission, PInv
  <2> QED BY <2>1 DEF PInv
<1>3. CASE \E S \in SUBSET ProviderIds, o \in Origins : ImportReplace(S, o)
  <2>1. /\ WellFormed(stored') /\ stored'.values = {} /\ DOMAIN stored'.credentials = {}
        /\ UNCHANGED <<live, call, permitted, issued, disconnected>>
    BY <1>3, Imported
  <2> QED BY <2>1 DEF PInv
<1>4. CASE Restart
  <2>1. /\ live' = stored /\ call' = [c \in Calls |-> NoCall]
        /\ UNCHANGED <<stored, permitted, issued, disconnected>>
    BY <1>4 DEF Restart
  <2>2. call' \in [Calls -> CallTypes \cup {NoCall}] /\ \A c \in Calls : call'[c] = NoCall
    BY <2>1
  <2> QED BY <2>1, <2>2 DEF PInv
<1>5. CASE UNCHANGED pVars
  BY <1>5 DEF pVars, PInv
<1> QED BY <1>1, <1>2, <1>3, <1>4, <1>5 DEF ManagementNext

\* The worker starts with what the invariant says.
LEMMA InitPInv ==
  ASSUME ProviderAssumption, ManagementInit
  PROVE  PInv
<1>1. PICK S \in {{}} \cup {{p} : p \in ProviderIds}, o \in Origins : live = Registered(S, o)
  BY DEF ManagementInit
<1> DEFINE brought == [p \in ProviderIds |->
                   IF p \in S THEN [status |-> "unconfigured", origin |-> o, ref |-> None] ELSE Absent]
<1> DEFINE consents == S \X {o}
<1>2. S \subseteq ProviderIds
  OBVIOUS
<1>3. brought \in [ProviderIds -> Providers \cup {Absent}] /\ \A p \in ProviderIds : brought[p].ref = None
  BY DEF Providers, ProviderStatuses, Absent
<1>4. consents \in SUBSET (ProviderIds \X Origins)
  BY <1>2
<1>5. \A k \in consents : brought[k[1]].origin = k[2]
  BY <1>2
<1>6. live = [Empty EXCEPT !.providers = brought, !.consents = consents]
  BY <1>1 DEF Registered
<1> HIDE DEF brought, consents
<1>7. WellFormed(live) /\ live.values = {} /\ DOMAIN live.credentials = {}
  BY <1>3, <1>4, <1>5, <1>6, NoCredentialKeeps
<1> QED BY <1>7 DEF ManagementInit, PInv

\* The assumption is about constants.
LEMMA ProviderAssumptionStays ==
  ProviderAssumption => ProviderAssumption'
BY DEF ProviderAssumption

\* The invariant says what the types are.
LEMMA PInvTypes ==
  ASSUME PInv
  PROVE  ManagementTypeOK
<1>1. \A c \in Calls : call[c] # NoCall => WellFormed(call[c].draft)
  BY DEF PInv, CallLegal
<1>2. \A c \in Calls : call[c].phase \in {"idle", "wrapping", "testing", "paging", "saving", "dropping"}
  BY DEF PInv, CallLegal, CallTypes, NoCall
<1>3. \A s \in {live, stored} \cup {call[c].draft : c \in {d \in Calls : call[d] # NoCall}} : WellFormed(s)
  BY <1>1 DEF PInv
<1> QED BY <1>2, <1>3 DEF ManagementTypeOK, WellFormed, PInv

\* Every state the worker or the database holds, and every fork under way, is well formed: the
\* registries, the catalog, the consents and the vault agree, no credential is kept that no
\* provider refers to, and no secret of a session is in the database.
THEOREM ManagementTypeCorrect == ProviderAssumption /\ ManagementSpec => []ManagementTypeOK
<1>1. ProviderAssumption /\ ManagementInit => PInv
  BY InitPInv
<1>2. ProviderAssumption /\ PInv /\ [ManagementNext]_pVars => PInv'
  BY NextKeepsPInv
<1>3. PInv => ManagementTypeOK
  BY PInvTypes
<1> QED BY <1>1, <1>2, <1>3, ProviderAssumptionStays, PTL DEF ManagementSpec

\* What is gone is what the invariant's lemmas speak of.
LEMMA GoneBoth ==
  ASSUME NEW p \in ProviderIds
  PROVE  /\ Gone(p) <=> GoneIn(live, p) /\ GoneIn(stored, p)
         /\ Gone(p)' <=> GoneIn(live', p) /\ GoneIn(stored', p)
BY DEF Gone, GoneIn

\* Only an overtaken save brings back something of a provider that was disconnected.
LEMMA StepUndoesNothing ==
  ASSUME ProviderAssumption, PInv, [ManagementNext]_pVars, NEW p \in disconnected',
         \A c \in Calls : ~SavesOvertaken(c)
  PROVE  Gone(p)' \/ (p \in disconnected /\ ~Gone(p))
<1> DEFINE undone == p \in disconnected /\ ~Gone(p)
<1>1. p \in ProviderIds
  BY NextKeepsPInv DEF PInv
<1>2. CASE UNCHANGED <<live, stored>> /\ disconnected' \subseteq disconnected
  BY <1>1, <1>2, GoneBoth
<1>3. ASSUME NEW c \in Calls, SaveFork(c) PROVE Gone(p)' \/ undone
  <2> DEFINE draft == call[c].draft
  <2>1. /\ CallLegal(call[c], live, disconnected, issued) /\ call[c] \in CallTypes
        /\ call[c].phase = "saving" /\ live' = draft /\ stored' = Durable(draft)
    BY <1>3, CallAt DEF SaveFork
  <2>2. GoneIn(stored', p) <=> GoneIn(draft, p)
    BY <1>1, <2>1, DurableKeeps DEF CallLegal
  <2>3. CASE p = call[c].config /\ call[c].op \in Disconnecting
    BY <1>1, <2>1, <2>2, <2>3, GoneBoth DEF CallLegal
  <2>4. CASE ~(p = call[c].config /\ call[c].op \in Disconnecting)
    <3>1. p \in disconnected
      BY <1>3, <2>4 DEF SaveFork, Disconnecting
    <3>2. CASE call[c].overtaken
      <4>1. live' = live
        BY <2>1, <3>2 DEF SavesOvertaken
      <4> QED BY <1>1, <2>1, <2>2, <3>1, <4>1, GoneBoth
    <3>3. CASE ~call[c].overtaken
      <4>1. OthersStay(live, draft, call[c].config) /\ p # call[c].config
        BY <2>1, <2>4, <3>1, <3>3 DEF CallLegal
      <4>2. GoneIn(live, p) => GoneIn(draft, p)
        BY <1>1, <4>1 DEF OthersStay
      <4> QED BY <1>1, <2>1, <2>2, <3>1, <4>2, GoneBoth
    <3> QED BY <3>2, <3>3
  <2> QED BY <2>3, <2>4
<1>4. CASE \E c \in Calls : Mutation(c)
  <2>1. PICK c \in Calls : Mutation(c)
    BY <1>4
  <2>2. CASE SaveFork(c)
    BY <1>3, <2>2
  <2>3. CASE ~SaveFork(c)
    <3>1. UNCHANGED <<live, stored>> /\ disconnected' \subseteq disconnected
      BY <2>1, <2>3 DEF Mutation, Register, UpdateProvider, RegisterModel, RemoveProvider, GrantConsent,
         Disconnect, SetCredential, TestConnection, RefreshCatalog, Fork, Wrapped, Tested, NextPage,
         LastPage, Throws, DropPermission
    <3> QED BY <1>2, <3>1
  <2> QED BY <2>2, <2>3
<1>5. CASE \E o \in Origins : AskPermission(o)
  BY <1>2, <1>5 DEF AskPermission
<1>6. CASE \E S \in SUBSET ProviderIds, o \in Origins : ImportReplace(S, o)
  <2>1. GoneIn(stored', p) /\ UNCHANGED <<live, disconnected>>
    BY <1>1, <1>6, Imported
  <2> QED BY <1>1, <2>1, GoneBoth
<1>7. CASE Restart
  <2>1. live' = stored /\ UNCHANGED <<stored, disconnected>>
    BY <1>7 DEF Restart
  <2> QED BY <1>1, <2>1, GoneBoth
<1>8. CASE UNCHANGED pVars
  BY <1>2, <1>8 DEF pVars
<1> QED BY <1>4, <1>5, <1>6, <1>7, <1>8 DEF ManagementNext

\* Nothing is left of a provider that was disconnected or removed, in memory or in the database,
\* whatever the messages, the imports and the restarts of the worker, until it is used again; only
\* a save that another one overtook brings it back.
THEOREM UndoneByOvertakenOnlyThm == ProviderAssumption /\ ManagementSpec => UndoneByOvertakenOnly
<1> DEFINE Undone == \A p \in disconnected' : Gone(p)' \/ (p \in disconnected /\ ~Gone(p))
                      \/ \E c \in Calls : SavesOvertaken(c)
<1>1. ProviderAssumption /\ ManagementInit => PInv
  BY InitPInv
<1>2. ProviderAssumption /\ PInv /\ [ManagementNext]_pVars => PInv'
  BY NextKeepsPInv
<1>3. ProviderAssumption /\ PInv /\ [ManagementNext]_pVars => [Undone]_<<live, stored, call, disconnected>>
  BY StepUndoesNothing
<1> QED BY <1>1, <1>2, <1>3, ProviderAssumptionStays, PTL DEF ManagementSpec, UndoneByOvertakenOnly
=============================================================================
