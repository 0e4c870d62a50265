---------------------------- MODULE RuleWorkbench ----------------------------
(* The workbench previews a rule on two invented items before it saves it, and   *)
(* offers to undo what it saved (ui/rules/model.ts, RuleWorkbench.tsx,           *)
(* useRuleProfile.ts).  Others change the profile at any time.                   *)
EXTENDS RuleEngine

CONSTANTS Drafts,        \* the bodies the workbench can write: exact rules
          Plain,         \* the invented items of a preview: a title and no more
          MaxElsewhere,  \* bound on the changes others make
          MaxOperations  \* bound on the operations of the workbench

VARIABLES profile,   \* the stored revision and rules
          panel,     \* the workbench
          elsewhere, \* changes made by others so far
          reused     \* whether, since the panel read what it shows, an import stored a
                     \* revision that had been stored before

workbenchVars == <<profile, panel, elsewhere, reused>>

-----------------------------------------------------------------------------
\* A command to save a rule or to remove one, at a revision; prior is what it replaced.
Intents == [kind : {"save", "remove"}, id : Ids, body : Bodies \cup {None},
            prior : Bodies \cup {None}, expected : Nat, committed : BOOLEAN]

\* The workbench writes rules, no command is none, and what is done is bounded.
WorkbenchAssumption ==
  Drafts \subseteq Bodies /\ None \notin Intents /\ MaxElsewhere \in Nat /\ MaxOperations \in Nat

\* intent is the command under way, or that of the preview which is kept to be
\* sent again; held are those of the removals.  Whether one was committed is what
\* the operation journal knows of it.
Listing(seen, saved, held) ==
  [screen |-> "list", seen |-> seen, draft |-> None, told |-> None, refused |-> FALSE,
   saved |-> saved, intent |-> None, held |-> held, pc |-> "ready"]

\* previewExactRule: what the invented items are told to become.
Told(rules, draft) ==
  [item \in Plain |-> [before |-> Face(rules, item),
                       after |-> Face(With(rules, draft.id, draft.body), item)]]

Showing(screen) == panel.pc = "ready" /\ panel.screen = screen
Workbench == UNCHANGED <<profile, elsewhere, reused>>

\* A new rule, with an id nobody has, or an exact one of the list.
Start(id) ==
  /\ Showing("list")
  /\ LET body == panel.seen.rules[id]
     IN  /\ IF body = None THEN profile.rules[id] = None ELSE body.kind = "exact"
         /\ panel' = [Listing(panel.seen, None, panel.held) EXCEPT !.screen = "editor",
                                                       !.draft = [id |-> id, body |-> body]]
  /\ Workbench

\* Whatever the rule was, the workbench writes one for titles on its own platform.
SubmitRule(body) ==
  /\ Showing("editor")
  /\ LET draft == [panel.draft EXCEPT !.body = body]
     IN  panel' = [panel EXCEPT !.screen = "preview", !.draft = draft, !.refused = FALSE,
                                !.intent = None, !.told = Told(panel.seen.rules, draft)]
  /\ Workbench

BackToEditor == /\ Showing("preview")
                /\ panel' = [panel EXCEPT !.screen = "editor", !.told = None]
                /\ Workbench

CancelRule == /\ Showing("editor")
              /\ panel' = Listing(panel.seen, None, panel.held)
              /\ Workbench

Intent(kind, id, body) ==
  [kind |-> kind, id |-> id, body |-> body, prior |-> None,
   expected |-> panel.seen.revision, committed |-> FALSE]

\* An intent that was not answered for certain is taken up again.
Send(kept, new) ==
  panel' = [panel EXCEPT !.pc = "sent",
              !.intent = IF kept = {} THEN new ELSE CHOOSE intent \in kept : TRUE]

SavePreview == /\ Showing("preview") /\ profile.revision - elsewhere < MaxOperations
               /\ Send({panel.intent} \ {None}, Intent("save", panel.draft.id, panel.draft.body))
               /\ Workbench

UndoSavedRule == /\ Showing("list") /\ panel.saved # None
                 /\ profile.revision - elsewhere < MaxOperations
                 /\ Send({intent \in panel.held : intent.id = panel.saved.id},
                         Intent("remove", panel.saved.id, None))
                 /\ Workbench

\* A slip: the revision is compared with nothing.
SlipMayCommit(intent) == intent.kind = "save" \/ profile.rules[intent.id] # None

\* The profile is still the one the panel showed when the intent was made.
MayCommit(intent) ==
  /\ intent.expected = profile.revision
  /\ intent.kind = "save" \/ profile.rules[intent.id] # None

\* The transaction: the rule is stored or removed; a committed operation is
\* answered from its record; anything else is refused.
Transact ==
  LET intent == panel.intent
  IN  /\ panel.pc = "sent"
      /\ \/ /\ ~intent.committed /\ MayCommit(intent)
            /\ profile' = [revision |-> profile.revision + 1,
                           rules |-> With(profile.rules, intent.id, intent.body)]
            /\ panel' = [panel EXCEPT !.pc = "committed", !.intent.committed = TRUE,
                                      !.intent.prior = profile.rules[intent.id]]
         \/ /\ intent.committed
            /\ panel' = [panel EXCEPT !.pc = "committed"]
            /\ UNCHANGED profile
         \/ /\ ~intent.committed /\ ~MayCommit(intent)
            /\ panel' = [panel EXCEPT !.pc = "refused"]
            /\ UNCHANGED profile
      /\ UNCHANGED <<elsewhere, reused>>

\* The answer is lost, or the database could not be opened.
Lose == /\ panel.pc \in {"sent", "committed"}
        /\ panel' = [panel EXCEPT !.pc = "lost"]
        /\ Workbench

Others == {intent \in panel.held : intent.id # panel.intent.id}

\* refresh shows the profile.  The screen moves on after a commit; a preview stays
\* as it was after a refusal, and what was not answered is kept.
Refresh ==
  LET p == panel
      listing == p.screen = "list"
      ended == IF listing THEN Others ELSE p.held
      kept == [p EXCEPT !.seen = profile, !.pc = "ready"]
  IN  /\ \/ /\ p.pc = "committed"
            /\ panel' = Listing(profile,
                 IF listing THEN None ELSE [id |-> p.intent.id, prior |-> p.intent.prior], ended)
         \/ /\ p.pc = "refused"
            /\ panel' = IF listing THEN Listing(profile, None, ended)
                        ELSE [kept EXCEPT !.refused = TRUE, !.intent = None]
         \/ /\ p.pc = "lost"
            /\ panel' = IF listing THEN Listing(profile, p.saved, ended \cup {p.intent})
                        ELSE kept
      /\ reused' = (reused /\ p.pc = "lost" /\ ~listing)
      /\ UNCHANGED <<profile, elsewhere>>

\* It fails, after a commit or a loss: the profile shown and the intent are kept.
\* A removal that is known to be committed is shown as failed.
RefreshFails ==
  LET p == panel
  IN  /\ p.pc \in {"committed", "lost"}
      /\ panel' = IF p.screen = "list"
                  THEN Listing(p.seen, IF p.pc = "lost" THEN p.saved ELSE None,
                               Others \cup {p.intent})
                  ELSE [p EXCEPT !.pc = "ready"]
      /\ Workbench

-----------------------------------------------------------------------------
\* Another panel, a synchronization or an import changes a rule.  The revision is the
\* next one of the profile that was read; only an import stores what it made of it
\* without asking whether another one was stored since.
ChangeElsewhere(id, body, read) ==
  /\ elsewhere < MaxElsewhere /\ elsewhere' = elsewhere + 1
  /\ body # profile.rules[id]
  /\ panel.draft # None /\ panel.draft.id = id => profile.rules[id] # None
  /\ profile' = [revision |-> read + 1, rules |-> With(profile.rules, id, body)]
  /\ reused' = (reused \/ read < profile.revision)
  /\ UNCHANGED panel

WorkbenchInit ==
  /\ profile = [revision |-> 0, rules |-> [id \in Ids |-> None]]
  /\ panel = Listing(profile, None, {})
  /\ elsewhere = 0 /\ reused = FALSE

WorkbenchNext ==
  \/ \E id \in Ids :
       \/ Start(id)
       \/ \E body \in Bodies \cup {None}, read \in 0 .. profile.revision :
            ChangeElsewhere(id, body, read)
  \/ \E body \in Drafts : SubmitRule(body)
  \/ BackToEditor \/ CancelRule \/ SavePreview \/ UndoSavedRule
  \/ Transact \/ Lose \/ Refresh \/ RefreshFails

WorkbenchSpec == WorkbenchInit /\ [][WorkbenchNext]_workbenchVars

-----------------------------------------------------------------------------
\* Every variable keeps its type.
WorkbenchTypeOK ==
  /\ profile \in [revision : 0 .. MaxElsewhere + MaxOperations, rules : Rules]
  /\ panel.seen.rules \in Rules /\ panel.screen \in {"list", "editor", "preview"}
  /\ panel.pc \in {"ready", "sent", "committed", "refused", "lost"}
  /\ elsewhere \in 0 .. MaxElsewhere

\* What a preview told of its two items is what the rule does to them when it is
\* stored, whatever others changed in between and however its answers were lost,
\* unless an earlier save of the same preview was refused (transactProfile
\* compares the revision the panel showed) or an import stored, since the panel read
\* what it shows, a revision that had been stored before.
PreviewHolds ==
  [][panel.pc = "sent" /\ panel.intent.kind = "save" /\ profile' # profile
       /\ panel' # panel /\ ~panel.refused /\ ~reused =>
       \A item \in Plain :
         /\ panel.told[item].before = Face(profile.rules, item)
         /\ panel.told[item].after = Face(profile'.rules, item)]_workbenchVars

\* docs/07-feedback-system.md:125: undo applies the inverse effects of the
\* operation it undoes: the rule is what it was before it was saved.
UndoInverts ==
  [][panel.pc = "sent" /\ panel.intent.kind = "remove" /\ profile' # profile
       /\ panel' # panel =>
       profile'.rules[panel.intent.id] = panel.saved.prior]_workbenchVars
=============================================================================
