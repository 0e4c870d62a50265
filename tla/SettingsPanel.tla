---------------------------- MODULE SettingsPanel ----------------------------
(* The settings panel over the service worker.  The panel edits a draft of the  *)
(* settings it was shown, asks the worker to change providers and models, and    *)
(* saves the draft at the revision of its last snapshot, after it had the cloud  *)
(* consents reviewed.  Others (a sync, an import, another panel) change the      *)
(* profile and the providers meanwhile.  One platform, one task and one model    *)
(* per provider: the panel and the worker treat each of them alike.             *)
EXTENDS Nothing, Naturals, FiniteSets

CONSTANTS
  Configs,       \* the provider configurations, each with one model
  Cloud,         \* those that run in the cloud
  MaxEdits,      \* bounds the changes of the draft
  Brought,       \* the routes that a profile from elsewhere may bring
  MaxOperations, \* bounds the requests the user starts
  MaxElsewhere   \* bounds what others change

VARIABLES
  profile,   \* the revision and the settings that are stored
  worker,    \* the providers, the catalog and the consents the worker holds
  panel,     \* what the panel shows and what the user typed
  run,       \* the operation the panel waits for
  granted,   \* the configurations whose cloud use was ever consented to
  reuses,    \* how often an import used a revision again since the panel read its snapshot
  edits, operations, elsewhere

settingsVars == <<profile, worker, panel, run, granted, reuses, edits, operations, elsewhere>>

Statuses == {"absent", "unconfigured", "usable", "revoked"}
Forms == {"edit", "credential", "create", "model"}
Sections == {"providers", "models", "other"}

Route(primary, fallback, crossing) ==
  [state |-> "route", primary |-> primary, fallback |-> fallback, crossing |-> crossing]
NoRoute(state) == [state |-> state, primary |-> None, fallback |-> None, crossing |-> FALSE]
Routes == {NoRoute("disabled"), NoRoute("inherit")}
  \cup {Route(p, f, x) : p \in Configs, f \in Configs \cup {None}, x \in BOOLEAN}
Settings == [on : BOOLEAN, global : Routes, override : Routes, locale : {"en", "pt"}]

Idle == [op |-> "idle", of |-> None, forms |-> {}, settings |-> NoRoute("disabled"), revision |-> 0,
         over |-> NoRoute("disabled"), next |-> None, phase |-> "idle"]

\* The worker's part of a request, and how it is answered.
Asked(op, p) == [Idle EXCEPT !.op = op, !.of = p, !.phase = "asked"]

-----------------------------------------------------------------------------
(* Routes (ui/settings/model.ts).                                             *)

EffectiveRoute(s) == IF s.override.state = "inherit" THEN s.global ELSE s.override

\* Another primary keeps the rest of the route, but is no fallback of itself.
ReplacePrimary(current, p) ==
  IF current.state # "route" THEN Route(p, None, FALSE)
  ELSE Route(p, IF current.fallback = p THEN None ELSE current.fallback, current.crossing)

\* A fallback is another model than the primary, or none.
ReplaceFallback(current) ==
  {[current EXCEPT !.fallback = f] : f \in (Configs \cup {None}) \ {current.primary}}

\* The routes a change of the user's makes of this one.
RouteEdits(current) ==
  {NoRoute("disabled")} \cup {ReplacePrimary(current, p) : p \in Configs}
  \cup (IF current.state # "route" THEN {}
        ELSE ReplaceFallback(current) \cup {[current EXCEPT !.crossing = ~@]})

\* The references of a route.
References(r) == {r.primary, r.fallback} \ {None}

\* The configurations whose consent the panel asks for: the primary of a route
\* of a platform that is enabled, and no fallback.
RequiredCloudConsents(s, w) ==
  LET r == EffectiveRoute(s)
  IN {p \in {r.primary} \cap Cloud : s.on /\ p \in w.models /\ w.status[p] # "absent"}

-----------------------------------------------------------------------------
(* Validation (application/settings/validation.ts, provider-impact.ts).       *)

\* The model is in the catalog and its provider is connected.
ValidateReference(w, p) == p \in w.models /\ w.status[p] \notin {"absent", "revoked", "unconfigured"}

\* A fallback is executable when the primary is a cloud model or the policy lets
\* the route cross to the cloud.
Candidates(r) ==
  {r.primary} \cup (IF r.primary \in Cloud \/ r.crossing THEN {r.fallback} \ {None} ELSE {})

\* The configurations a stored setting can send content to.
CloudCandidates(s) ==
  IF s.on /\ EffectiveRoute(s).state = "route" THEN Candidates(EffectiveRoute(s)) \cap Cloud ELSE {}

SlipCloudCandidates(s) ==
  IF s.on /\ EffectiveRoute(s).state = "route" THEN {EffectiveRoute(s).primary} \cap Cloud ELSE {}

SlipValidateCloudConsents(s, w, reviewed) ==
  SlipCloudCandidates(s) \subseteq reviewed \cap w.consents

\* Every executable cloud candidate needs a reviewed key with a consent.
ValidateCloudConsents(s, w, reviewed) == CloudCandidates(s) \subseteq reviewed \cap w.consents

ValidateSettingsDraft(s, w, reviewed) ==
  /\ \A p \in References(s.global) \cup References(s.override) : ValidateReference(w, p)
  /\ ValidateCloudConsents(s, w, reviewed)

\* A provider that a route names is not removed.
RemovalBlocked(s, p) == p \in References(s.global) \cup References(s.override)

-----------------------------------------------------------------------------
(* What the worker makes of a request (extension/service-worker/               *)
(* settings-runtime.ts); ProviderManagement has the mutations in detail.       *)

WithStatus(w, p, status) == [w EXCEPT !.status[p] = status]
NoConsent(w, p) == [w EXCEPT !.consents = @ \ {p}]

\* The states a provider operation can leave the worker in.
Effects(op, p, w) ==
  CASE op = "create" -> {WithStatus(w, p, "unconfigured")}
    [] op = "credential" -> {WithStatus(NoConsent(w, p), p, "usable")}
    [] op = "edit" -> {w, WithStatus(NoConsent(w, p), p, "unconfigured")}
    [] op = "disconnect" -> {WithStatus(NoConsent(w, p), p, "revoked")}
    [] op = "remove" -> {WithStatus([NoConsent(w, p) EXCEPT !.models = @ \ {p}], p, "absent")}
    [] op = "test" -> {WithStatus(w, p, "usable")}
    [] op = "model" -> {[w EXCEPT !.models = @ \cup {p}]}
    [] op = "catalog" -> IF w.status[p] = "usable" THEN {[w EXCEPT !.models = @ \cup {p}]} ELSE {}

\* A provider that is not there cannot be changed, one that is there not created.
MayApply(op, p, w) == (op = "create") <=> (w.status[p] = "absent")

Apply(op, p) == MayApply(op, p, worker) /\ worker' \in Effects(op, p, worker)

Snapshot == [revision |-> profile.revision, settings |-> profile.settings, worker |-> worker]

-----------------------------------------------------------------------------
(* The panel.                                                                 *)

Ready == panel.stage = "ready"
Pending == run # Idle
IsDirty == panel.draft # panel.shown.settings

\* The forms of the section that hold what was not sent.
Unsent ==
  panel.typed \cap (CASE panel.section = "providers" -> {"edit", "credential", "create"}
                      [] panel.section = "models" -> {"model"}
                      [] OTHER -> {})
TransientDirty == Unsent # {}

Start(next) ==
  /\ ~Pending /\ operations < MaxOperations /\ operations' = operations + 1 /\ run' = next
  /\ UNCHANGED <<profile, worker, granted, edits, elsewhere, reuses>>

\* A snapshot replaces what is shown; what was typed over the selected provider
\* falls back to it.
Show(next) == [panel EXCEPT !.shown = next, !.typed = @ \ {"edit"}]

\* The first provider is selected when none is.
FirstSelected(next) ==
  {p \in Configs : next.worker.status[p] # "absent"} \cup
    (IF \E p \in Configs : next.worker.status[p] # "absent" THEN {} ELSE {None})

Loaded ==
  /\ run.op = "load"
  /\ \E p \in IF panel.selected # None THEN {panel.selected} ELSE FirstSelected(Snapshot) :
       panel' = [Show(Snapshot) EXCEPT !.stage = "ready", !.draft = profile.settings, !.selected = p]
  /\ run' = Idle /\ reuses' = 0
  /\ UNCHANGED <<profile, worker, granted, edits, operations, elsewhere>>

LoadFails ==
  /\ run.op = "load" /\ run' = Idle
  /\ panel' = [panel EXCEPT !.stage = "failed"]
  /\ UNCHANGED <<profile, worker, granted, edits, operations, elsewhere, reuses>>

\* After an error, and after an operation of the sync section.
Load ==
  /\ panel.stage = "failed" \/ (Ready /\ panel.section = "other")
  /\ Start(Asked("load", None)) /\ UNCHANGED panel

\* A review is a modal dialog of the section of providers.
DialogOpen == panel.section = "providers" /\ (panel.impact # None \/ panel.disconnecting)

Change(next) ==
  /\ Ready /\ edits < MaxEdits /\ edits' = edits + 1
  /\ panel' = next /\ panel' # panel
  /\ UNCHANGED <<profile, worker, run, granted, operations, elsewhere, reuses>>

Edit(next) == ~DialogOpen /\ Change(next)

\* The draft: the global route, and the platform's own route and activation, and the
\* language of the interface.
UpdateGlobalRoute ==
  /\ panel.section = "models"
  /\ \E r \in RouteEdits(panel.draft.global) : Edit([panel EXCEPT !.draft.global = r])

UpdatePlatform ==
  /\ panel.section = "other"
  /\ \/ \E r \in RouteEdits(panel.draft.override) \cup {NoRoute("inherit")} :
          Edit([panel EXCEPT !.draft.override = r])
     \/ Edit([panel EXCEPT !.draft.on = ~@])
     \/ \E l \in {"en", "pt"} : Edit([panel EXCEPT !.draft.locale = l])

Type(form) ==
  /\ panel.section = (IF form = "model" THEN "models" ELSE "providers")
  /\ form \in {"edit", "credential"} => panel.selected # None
  /\ Edit([panel EXCEPT !.typed = @ \cup {form}])

ReviewCloud ==
  /\ RequiredCloudConsents(panel.draft, panel.shown.worker) # {}
  /\ Edit([panel EXCEPT !.reviewed = ~@])

\* What was typed for a provider goes when another is selected; an open review of
\* its disconnection stays.
SelectProvider(p) ==
  /\ panel.section = "providers" /\ panel.shown.worker.status[p] # "absent"
  /\ Edit([panel EXCEPT !.selected = p, !.impact = None, !.typed = @ \ {"credential", "edit"}])

RequestSection(target) ==
  /\ target # panel.section
  /\ IF IsDirty \/ TransientDirty THEN Edit([panel EXCEPT !.wanted = target])
     ELSE Edit([panel EXCEPT !.section = target])

ContinueEditing == /\ panel.wanted # None /\ ~Pending /\ Edit([panel EXCEPT !.wanted = None])

DiscardAndContinue ==
  /\ panel.wanted # None /\ ~Pending
  /\ Edit([panel EXCEPT !.draft = panel.shown.settings, !.reviewed = FALSE, !.typed = {},
                        !.section = panel.wanted, !.wanted = None])

\* A request about the selected provider.
Request(op) ==
  /\ Ready /\ panel.section = "providers"
  /\ op # "create" => panel.selected # None
  /\ op = "edit" => "edit" \in panel.typed
  /\ Start(Asked(op, IF op = "create" THEN None ELSE panel.selected)) /\ UNCHANGED panel

AskProvider(op) == ~DialogOpen /\ Request(op)

AddModel(p) ==
  /\ Ready /\ panel.section = "models" /\ panel.shown.worker.status[p] \notin {"absent", "revoked"}
  /\ Start(Asked("model", p)) /\ UNCHANGED panel

ReviewDisconnect ==
  /\ panel.section = "providers" /\ panel.selected # None /\ ~Pending
  /\ Edit([panel EXCEPT !.impact = None, !.disconnecting = TRUE])

ReviewRemoval ==
  /\ Ready /\ panel.section = "providers" /\ panel.selected # None /\ ~DialogOpen
  /\ Start(Asked("preview", panel.selected)) /\ panel' = [panel EXCEPT !.disconnecting = FALSE]

CloseReview == DialogOpen /\ Change([panel EXCEPT !.impact = None, !.disconnecting = FALSE])

\* The routes that keep the provider are shown, whatever is typed here.
ReviewRoutes ==
  /\ DialogOpen /\ panel.impact # None /\ panel.blocked
  /\ Change([panel EXCEPT !.impact = None, !.section = "models"])

\* The confirmation is about the provider that is selected now.
ConfirmDisconnect == panel.disconnecting /\ Request("disconnect")

ConfirmRemoval == panel.impact # None /\ ~panel.blocked /\ Request("remove")

\* The answers: what the worker did, and what the panel makes of it before it reads
\* the snapshot again.
Previewed ==
  /\ run.op = "preview" \/ (run.op = "remove" /\ RemovalBlocked(profile.settings, run.of))
  /\ run.phase = "asked" /\ run' = Idle
  /\ panel' = [panel EXCEPT !.impact = run.of, !.blocked = RemovalBlocked(profile.settings, run.of)]
  /\ UNCHANGED <<profile, worker, granted, edits, operations, elsewhere, reuses>>

Operations == {"create", "credential", "edit", "disconnect", "remove", "test", "catalog", "model"}

Answered ==
  /\ run.op \in Operations /\ run.phase = "asked"
  /\ run.op = "remove" => ~RemovalBlocked(profile.settings, run.of)
  /\ \E p \in IF run.op = "create" THEN Configs ELSE {run.of} :
       /\ Apply(run.op, p)
       /\ panel' = [panel EXCEPT
            !.selected = IF run.op = "create" THEN p ELSE @,
            !.disconnecting = IF run.op = "disconnect" THEN FALSE ELSE @,
            !.typed = @ \ ({run.op} \cap {"create", "credential", "model"})]
  /\ run' = [run EXCEPT !.phase = "reading"]
  /\ UNCHANGED <<profile, granted, edits, operations, elsewhere, reuses>>

Refreshed ==
  /\ run.op \in Operations /\ run.phase = "reading" /\ run' = Idle /\ reuses' = 0
  /\ IF run.op # "remove" THEN panel' = Show(Snapshot)
     ELSE \E p \in FirstSelected(Snapshot) :
            panel' = [Show(Snapshot) EXCEPT !.selected = p, !.impact = None]
  /\ UNCHANGED <<profile, worker, granted, edits, operations, elsewhere>>

\* A request or the refresh after it fails: the error is shown, and the panel stays
\* as it was.
Fails ==
  /\ Pending /\ run.op # "load" /\ run' = Idle
  /\ UNCHANGED <<profile, worker, panel, granted, edits, operations, elsewhere, reuses>>

-----------------------------------------------------------------------------
(* Saving.                                                                    *)

\* Nothing is sent while a consent the draft needs is neither there nor reviewed.
SaveSettings(next) ==
  LET required == RequiredCloudConsents(panel.draft, panel.shown.worker)
      missing == required \ panel.shown.worker.consents
  IN /\ Ready /\ ~DialogOpen /\ IsDirty /\ (missing # {} => panel.reviewed)
     /\ Start([op |-> "save", of |-> None, forms |-> missing, settings |-> panel.draft,
               revision |-> panel.shown.revision, over |-> panel.shown.settings,
               next |-> next, phase |-> "granting"])
     /\ UNCHANGED panel

\* The save button of the panel, and the one of the question before a section is left.
Save ==
  \/ /\ panel.wanted = None /\ panel.impact = None /\ ~panel.disconnecting
     /\ SaveSettings(None)
  \/ panel.wanted # None /\ SaveSettings(IF TransientDirty THEN None ELSE panel.wanted)

Grant ==
  /\ run.op = "save" /\ run.phase = "granting"
  /\ \E p \in run.forms :
       /\ worker.status[p] # "absent"
       /\ worker' = [worker EXCEPT !.consents = @ \cup {p}] /\ granted' = granted \cup {p}
       /\ run' = [run EXCEPT !.forms = @ \ {p}]
  /\ UNCHANGED <<profile, panel, edits, operations, elsewhere, reuses>>

\* The draft is validated against what the worker holds, before the transaction.
Validate ==
  /\ run.op = "save" /\ run.phase = "granting" /\ run.forms = {}
  /\ ValidateSettingsDraft(run.settings, worker,
                           RequiredCloudConsents(run.settings, panel.shown.worker))
  /\ run' = [run EXCEPT !.phase = "committing"]
  /\ UNCHANGED <<profile, worker, panel, granted, edits, operations, elsewhere, reuses>>

SlipCommit ==
  /\ run.op = "save" /\ run.phase = "committing"
  /\ profile' = [revision |-> profile.revision + 1, settings |-> run.settings]
  /\ run' = [run EXCEPT !.phase = "saved"]
  /\ UNCHANGED <<worker, panel, granted, edits, operations, elsewhere, reuses>>

\* The transaction commits at the revision the panel was shown.
Commit ==
  /\ run.op = "save" /\ run.phase = "committing" /\ profile.revision = run.revision
  /\ profile' = [revision |-> profile.revision + 1, settings |-> run.settings]
  /\ run' = [run EXCEPT !.phase = "saved"]
  /\ UNCHANGED <<worker, panel, granted, edits, operations, elsewhere, reuses>>

Fresh == [stage |-> "loading", shown |-> Snapshot, draft |-> profile.settings, selected |-> None,
          impact |-> None, blocked |-> FALSE, disconnecting |-> FALSE, reviewed |-> FALSE,
          section |-> "other", wanted |-> None, typed |-> {}]

\* Another language starts the surface again; otherwise the stored settings are the
\* next draft, whatever was typed meanwhile.
Saved ==
  /\ run.op = "save" /\ run.phase = "saved" /\ reuses' = 0
  /\ IF run.settings.locale # run.over.locale
     THEN panel' = Fresh /\ run' = Asked("load", None)
     ELSE /\ run' = Idle
          /\ panel' = [Show(Snapshot) EXCEPT
               !.draft = profile.settings, !.reviewed = FALSE, !.wanted = None,
               !.section = IF run.next = None THEN @ ELSE run.next]
  /\ UNCHANGED <<profile, worker, granted, edits, operations, elsewhere>>

\* The forms of the section are sent one after the other before it is left.
SaveTransient ==
  /\ Ready /\ ~DialogOpen /\ panel.wanted # None /\ ~IsDirty
  /\ Start([Idle EXCEPT !.op = "forms", !.of = panel.selected, !.next = panel.wanted, !.phase = "asked",
                        !.forms = Unsent])
  /\ UNCHANGED panel

FirstForm(forms) ==
  CASE "edit" \in forms -> "edit" [] "credential" \in forms -> "credential"
    [] "create" \in forms -> "create" [] OTHER -> "model"

SendForm ==
  /\ run.op = "forms" /\ run.forms # {}
  /\ LET form == FirstForm(run.forms)
     IN \E p \in IF form = "create" THEN Configs ELSE {run.of} \ {None} :
          /\ Apply(form, p)
          /\ run' = [run EXCEPT !.forms = @ \ {form}]
          /\ panel' = [panel EXCEPT !.selected = IF form = "create" THEN p ELSE @]
  /\ UNCHANGED <<profile, granted, edits, operations, elsewhere, reuses>>

FormsSaved ==
  /\ run.op = "forms" /\ run.forms = {} /\ run' = Idle /\ reuses' = 0
  /\ panel' = [Show(Snapshot) EXCEPT !.typed = {}, !.wanted = None, !.section = run.next]
  /\ UNCHANGED <<profile, worker, granted, edits, operations, elsewhere>>

-----------------------------------------------------------------------------
\* The settings a profile from elsewhere may leave: a synchronization and an import
\* take the routes, the activation and the language as they come, and ask no consent
\* for them; so does another panel, which asks.
Left(s) ==
  {[s EXCEPT !.global = r] : r \in Brought} \cup {[s EXCEPT !.override = r] : r \in Brought}
  \cup {[s EXCEPT !.on = ~@]} \cup {[s EXCEPT !.locale = l] : l \in {"en", "pt"}}

\* Others write the profile without the panel knowing.  All but an import compare the
\* revision they read in the transaction; an import that read an earlier one takes the
\* revision after that, whatever is stored by now.
WriteElsewhere(read) ==
  /\ \E s \in Left(profile.settings) : profile' = [revision |-> read + 1, settings |-> s]
  /\ reuses' = reuses + (IF read = profile.revision THEN 0 ELSE 1)
  /\ UNCHANGED worker

\* Others change a provider; a worker that starts after an import has no consents.
ChangeProviders ==
  /\ (\E p \in Configs : Apply("disconnect", p)) \/ worker' = [worker EXCEPT !.consents = {}]
  /\ UNCHANGED <<profile, reuses>>

Elsewhere ==
  /\ elsewhere < MaxElsewhere /\ elsewhere' = elsewhere + 1
  /\ ChangeProviders \/ \E read \in 1..profile.revision : WriteElsewhere(read)
  /\ UNCHANGED <<panel, run, granted, edits, operations>>

Init ==
  /\ profile = [revision |-> 1, settings |->
       [on |-> TRUE, global |-> NoRoute("disabled"), override |-> NoRoute("inherit"), locale |-> "en"]]
  /\ worker = [status |-> [p \in Configs |-> "usable"], models |-> Configs, consents |-> {}]
  /\ panel = Fresh /\ run = Asked("load", None) /\ granted = {} /\ reuses = 0
  /\ edits = 0 /\ operations = 0 /\ elsewhere = 0

Edits ==
  \/ UpdateGlobalRoute \/ UpdatePlatform \/ ReviewCloud \/ ContinueEditing \/ DiscardAndContinue
  \/ \E form \in Forms : Type(form)
  \/ \E p \in Configs : SelectProvider(p)
  \/ \E target \in Sections : RequestSection(target)
  \/ ReviewDisconnect \/ CloseReview \/ ReviewRoutes

Next ==
  \/ Loaded \/ LoadFails \/ Load \/ Edits
  \/ \E op \in {"create", "credential", "edit", "test", "catalog"} : AskProvider(op)
  \/ \E p \in Configs : AddModel(p)
  \/ ReviewRemoval \/ ConfirmDisconnect \/ ConfirmRemoval
  \/ Previewed \/ Answered \/ Refreshed \/ Fails
  \/ Save \/ Grant \/ Validate \/ Commit \/ Saved \/ SaveTransient \/ SendForm \/ FormsSaved
  \/ Elsewhere

Spec == Init /\ [][Next]_settingsVars

-----------------------------------------------------------------------------
\* The panel and the worker hold well-formed settings and providers.
TypeOK ==
  /\ profile.settings \in Settings /\ panel.draft \in Settings /\ panel.shown.settings \in Settings
  /\ worker.status \in [Configs -> Statuses] /\ worker.models \cup worker.consents \subseteq Configs
  /\ panel.selected \in Configs \cup {None} /\ panel.section \in Sections
  /\ panel.wanted \in Sections \cup {None} /\ panel.typed \subseteq Forms

\* What a save of this panel stores sends content to no cloud model whose use was never
\* consented to, whether it is the primary of the route or a fallback that can be executed,
\* whatever the worker was asked meanwhile, and also when the route came from elsewhere
\* and the user only changed another setting (validation.ts:180, SettingsPanel.tsx:632).
SavedRoutesWereConsented ==
  [][run.phase = "committing" /\ profile' # profile /\ run' # run =>
       CloudCandidates(profile'.settings) \subseteq granted]_<<profile, run>>

\* A save commits over the very settings the panel showed when it was started: whatever a
\* synchronization, an import or another panel stored since then is refused, not
\* overwritten, unless an import took a revision a second time since the panel read what
\* it shows (SettingsPanel.tsx:665, service.ts:171, import-export/service.ts:145).
SavesOverShown ==
  [][run.phase = "committing" /\ profile'.settings # profile.settings /\ run' # run =>
       reuses # 0 \/ profile.settings = run.over]_<<profile, run>>

=============================================================================
