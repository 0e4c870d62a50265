---------------------------- MODULE ProfileStore ----------------------------
(* The local profile and the side panels that edit it: transactProfile with    *)
(* its expected revision and operation journal, the panel's load, save, remove *)
(* and refresh, the portable import with its snapshot, and the reset.          *)
(* Every await of a panel is a step; a transaction of the database is atomic.  *)
EXTENDS Integers, FiniteSets

CONSTANTS
  Windows,        \* side panels: one per browser window, over one database
  Rules,          \* rule ids
  MaxOperations,  \* bound on the operation ids issued
  MaxRecords,     \* operation records the journal keeps
  MaxImports, MaxResets, MaxFaults,  \* bounds on what they count
  None

ASSUME BoundsAssumption ==
  /\ MaxOperations \in Nat /\ MaxRecords \in Nat \ {0}
  /\ MaxImports \in Nat /\ MaxResets \in Nat /\ MaxFaults \in Nat

VARIABLES
  profile,     \* the active profile, None before the first load and after a reset
  journal,     \* the operations whose committed records are kept
  snapshot,    \* the profile the latest import or restoration replaced, or None
  window,      \* window -> its state
  issued,      \* operation ids issued so far; ids are in the order of their intents
  budget,      \* what is left of imports, resets and faults
  applied,     \* history: operation -> how often its mutation was applied
  latest,      \* history: rule -> the operation that saved it last, None: removed
  replacedBy   \* history: what wrote a profile without regard to the active one

vars == <<profile, journal, snapshot, window, issued, budget, applied, latest, replacedBy>>

-----------------------------------------------------------------------------
Operations == 1 .. MaxOperations

\* A rule's content is the operation that saved it; 0 is what a file brings.
Contents == Operations \cup {0, None}
Profiles == [revision : Nat, rules : [Rules -> Contents]]

NewProfile == [revision |-> 0, rules |-> [r \in Rules |-> None]]

\* The command of an intent.  Its expected revision is that of the profile the
\* window showed, kept here whole.
Commands ==
  [op : Operations, kind : {"save", "remove"}, rule : Rules, basis : Profiles]

\* What an import would store, and the revision it was previewed at.
Previews == [revision : Nat, rules : [Rules -> Contents]]

\* The operation of an import and the profile it has read and is to replace.
Imports == [op : Operations, read : Profiles]

ASSUME NoneAssumption == None \notin Profiles \cup Commands \cup Imports

PCs == {"closed", "load", "create", "ready", "commit", "refresh", "error",
        "previewed", "importing"}

Answers == {"none", "committed", "failed", "uncertain"}

\* held are the commands whose intents are retained.
Windowed ==
  [pc : PCs, seen : Profiles \cup {None}, command : Commands \cup {None},
   answer : Answers, held : SUBSET Commands, preview : Previews \cup {None},
   imported : Imports \cup {None}]

Closed ==
  [pc |-> "closed", seen |-> None, command |-> None, answer |-> "none",
   held |-> {}, preview |-> None, imported |-> None]

At(w, pc) == window[w].pc = pc
Becomes(w, state) == window' = [window EXCEPT ![w] = state]

\* The panel shows seen; what it held of the drafts goes with an error panel.
Showing(w, pc, seen, held) ==
  [pc |-> pc, seen |-> seen, command |-> None, answer |-> "none", held |-> held,
   preview |-> None, imported |-> None]

Removals(held) == {c \in held : c.kind = "remove"}

Spend(what) == budget[what] > 0 /\ budget' = [budget EXCEPT ![what] = @ - 1]

\* Only the window changes.
Unstored == UNCHANGED <<profile, journal, snapshot, applied, latest, replacedBy>>

-----------------------------------------------------------------------------
(* Opening a panel *)

Open(w) ==
  /\ At(w, "closed") \/ At(w, "error")
  /\ Becomes(w, [window[w] EXCEPT !.pc = "load"])
  /\ Unstored /\ UNCHANGED <<issued, budget>>

\* The browser closes the panel, whatever it was doing.
Close(w) ==
  /\ ~At(w, "closed")
  /\ Becomes(w, Closed)
  /\ Unstored /\ UNCHANGED <<issued, budget>>

\* load reads the profile; where there is none it goes on to create one.
Load(w) ==
  /\ At(w, "load")
  /\ Becomes(w, IF profile = None
                  THEN Showing(w, "create", None, Removals(window[w].held))
                  ELSE Showing(w, "ready", profile, Removals(window[w].held)))
  /\ Unstored /\ UNCHANGED <<issued, budget>>

LoadFails(w) ==
  /\ At(w, "load") \/ At(w, "create")
  /\ Spend("faults")
  /\ Becomes(w, Showing(w, "error", None, Removals(window[w].held)))
  /\ Unstored /\ UNCHANGED issued

\* saveProfile writes the new profile over whatever is there by now.
Create(w) ==
  /\ At(w, "create")
  /\ profile' = NewProfile
  /\ replacedBy' = IF profile = None THEN replacedBy ELSE replacedBy \cup {"create"}
  /\ Becomes(w, Showing(w, "ready", NewProfile, window[w].held))
  /\ UNCHANGED <<journal, snapshot, issued, budget, applied, latest>>

-----------------------------------------------------------------------------
(* Saving and removing a rule *)

Issue(w, c, held) ==
  Becomes(w, [window[w] EXCEPT !.pc = "commit", !.command = c, !.held = held])

\* A new draft: a new operation at the revision the panel shows.
BeginSave(w, r) ==
  /\ At(w, "ready") /\ issued < MaxOperations
  /\ issued' = issued + 1
  /\ Issue(w, [op |-> issued + 1, kind |-> "save", rule |-> r, basis |-> window[w].seen],
           Removals(window[w].held))
  /\ Unstored /\ UNCHANGED budget

\* The draft of a retained intent is saved again, under its operation id.
RetrySave(w) ==
  /\ At(w, "ready")
  /\ \E c \in window[w].held \ Removals(window[w].held) : Issue(w, c, window[w].held)
  /\ Unstored /\ UNCHANGED <<issued, budget>>

\* The intent of a removal is kept by rule id and taken up again.
BeginRemove(w, r) ==
  /\ At(w, "ready") /\ window[w].seen.rules[r] # None
  /\ LET retained == {c \in Removals(window[w].held) : c.rule = r}
     IN \/ /\ retained # {}
           /\ \E c \in retained : Issue(w, c, window[w].held)
           /\ UNCHANGED issued
        \/ /\ retained = {} /\ issued < MaxOperations
           /\ issued' = issued + 1
           /\ Issue(w, [op |-> issued + 1, kind |-> "remove", rule |-> r,
                        basis |-> window[w].seen], window[w].held)
  /\ Unstored /\ UNCHANGED budget

Answered(w, answer) ==
  Becomes(w, [window[w] EXCEPT !.pc = "refresh", !.answer = answer])

\* The newest records are kept: they are ordered by the time of the intent.
Kept(records) ==
  {op \in records : Cardinality({o \in records : o > op}) < MaxRecords}

\* A slip: the revision is looked at by nobody.
MayApplyAnyway(c) ==
  /\ c.op \notin journal /\ profile # None
  /\ c.kind = "remove" => profile.rules[c.rule] # None

MayApply(c) ==
  /\ c.op \notin journal /\ profile # None
  /\ profile.revision = c.basis.revision
  /\ c.kind = "remove" => profile.rules[c.rule] # None

\* The operation is committed with its record.
Apply(w) ==
  /\ At(w, "commit")
  /\ LET c == window[w].command
         content == IF c.kind = "save" THEN c.op ELSE None
     IN /\ MayApply(c)
        /\ profile' = [revision |-> profile.revision + 1,
                       rules |-> [profile.rules EXCEPT ![c.rule] = content]]
        /\ journal' = Kept(journal \cup {c.op})
        /\ applied' = [applied EXCEPT ![c.op] = @ + 1]
        /\ latest' = [latest EXCEPT ![c.rule] = content]
  /\ Answered(w, "committed")
  /\ UNCHANGED <<snapshot, issued, budget, replacedBy>>

\* A committed operation is answered from its record; another is refused when
\* the profile is gone, at another revision or without the rule.
Answer(w) ==
  /\ At(w, "commit") /\ ~MayApply(window[w].command)
  /\ Answered(w, IF window[w].command.op \in journal THEN "committed" ELSE "failed")
  /\ Unstored /\ UNCHANGED <<issued, budget>>

\* The transaction aborts, or the database cannot be opened.
StorageFails(w) ==
  /\ At(w, "commit")
  /\ Spend("faults")
  /\ \E answer \in {"failed", "uncertain"} : Answered(w, answer)
  /\ Unstored /\ UNCHANGED issued

\* The intents that remain once the panel was refreshed or was not.
Retained(w, reconciled) ==
  IF window[w].answer = "failed" \/ (window[w].answer = "committed" /\ reconciled)
    THEN window[w].held \ {window[w].command}
    ELSE window[w].held \cup {window[w].command}

\* refresh shows the profile, or the error panel when there is none.
Refresh(w) ==
  /\ At(w, "refresh")
  /\ Becomes(w, IF profile = None
                  THEN Showing(w, "error", None, Removals(Retained(w, FALSE)))
                  ELSE Showing(w, "ready", profile, Retained(w, TRUE)))
  /\ Unstored /\ UNCHANGED <<issued, budget>>

RefreshFails(w) ==
  /\ At(w, "refresh")
  /\ Spend("faults")
  /\ Becomes(w, Showing(w, "ready", window[w].seen, Retained(w, FALSE)))
  /\ Unstored /\ UNCHANGED issued

-----------------------------------------------------------------------------
(* Importing, restoring and resetting *)

\* The file is read and compared with the stored profile: all of it replaces the
\* profile, or a merge keeps some of the rules.
Preview(w) ==
  /\ At(w, "ready") /\ profile # None
  /\ \E kept \in SUBSET Rules :
       Becomes(w, [window[w] EXCEPT
         !.pc = "previewed",
         !.preview = [revision |-> profile.revision,
                      rules |-> [r \in Rules |-> IF r \in kept THEN profile.rules[r] ELSE 0]]])
  /\ budget["imports"] > 0
  /\ Unstored /\ UNCHANGED <<issued, budget>>

\* The user applies the preview.  The profile is read once more and its revision
\* compared; a stale preview is dropped.
ImportRead(w) ==
  /\ At(w, "previewed") /\ issued < MaxOperations
  /\ issued' = issued + 1
  /\ Becomes(w, IF profile # None /\ profile.revision = window[w].preview.revision
                  THEN [window[w] EXCEPT !.pc = "importing",
                                         !.imported = [op |-> issued + 1, read |-> profile]]
                  ELSE [window[w] EXCEPT !.pc = "ready", !.preview = None])
  /\ Unstored /\ UNCHANGED budget

\* A slip: what was read is kept, not what is replaced.
ReplacedRead(w) == window[w].imported.read

\* What the import puts in the snapshot.
Replaced(w) == profile

\* replacePortableConfiguration: one transaction, which looks at no revision.  What it writes
\* to the sync records is SyncCas!Import.
ImportCommit(w) ==
  /\ At(w, "importing") /\ profile # None
  /\ Spend("imports")
  /\ snapshot' = Replaced(w)
  /\ profile' = [revision |-> window[w].imported.read.revision + 1,
                 rules |-> window[w].preview.rules]
  /\ journal' = Kept(journal \cup {window[w].imported.op})
  /\ replacedBy' = replacedBy \cup {"import"}
  /\ Becomes(w, [window[w] EXCEPT !.pc = "load"])
  /\ UNCHANGED <<issued, applied, latest>>

\* The profile is gone and the preview dropped, or the database cannot be opened
\* and the preview stays.
ImportFails(w) ==
  /\ At(w, "importing")
  /\ \/ /\ profile = None
        /\ Becomes(w, Showing(w, "ready", window[w].seen, window[w].held))
        /\ UNCHANGED budget
     \/ /\ Spend("faults")
        /\ Becomes(w, [window[w] EXCEPT !.pc = "previewed", !.imported = None])
  /\ Unstored /\ UNCHANGED issued

\* restorePortableImportSnapshot swaps the snapshot and the profile, and what SyncCas!UndoImport
\* has of the sync records.
Restore(w) ==
  /\ At(w, "ready") /\ snapshot # None /\ profile # None
  /\ issued < MaxOperations
  /\ issued' = issued + 1
  /\ journal' = Kept(journal \cup {issued + 1})
  /\ profile' = [snapshot EXCEPT !.revision = profile.revision + 1]
  /\ snapshot' = profile
  /\ Becomes(w, [window[w] EXCEPT !.pc = "load"])
  /\ UNCHANGED <<budget, applied, latest, replacedBy>>

\* The database is deleted and the panel loads again.
Reset(w) ==
  /\ At(w, "ready")
  /\ Spend("resets")
  /\ profile' = None /\ journal' = {} /\ snapshot' = None
  /\ applied' = [op \in Operations |-> 0]
  /\ latest' = [r \in Rules |-> None]
  /\ replacedBy' = replacedBy \cup {"reset"}
  /\ Becomes(w, [window[w] EXCEPT !.pc = "load"])
  /\ UNCHANGED issued

-----------------------------------------------------------------------------
Init ==
  /\ profile = None /\ journal = {} /\ snapshot = None
  /\ window = [w \in Windows |-> Closed]
  /\ issued = 0
  /\ budget = [imports |-> MaxImports, resets |-> MaxResets, faults |-> MaxFaults]
  /\ applied = [op \in Operations |-> 0]
  /\ latest = [r \in Rules |-> None]
  /\ replacedBy = {}

Editing(w) ==
  \/ RetrySave(w) \/ Apply(w) \/ Answer(w) \/ StorageFails(w)
  \/ Refresh(w) \/ RefreshFails(w)
  \/ \E r \in Rules : BeginSave(w, r) \/ BeginRemove(w, r)

Importing(w) ==
  Preview(w) \/ ImportRead(w) \/ ImportCommit(w) \/ ImportFails(w) \/ Restore(w) \/ Reset(w)

Next ==
  \E w \in Windows :
    \/ Open(w) \/ Close(w) \/ Load(w) \/ LoadFails(w) \/ Create(w)
    \/ Editing(w)
    \/ Importing(w)

Spec == Init /\ [][Next]_vars

-----------------------------------------------------------------------------
(* Properties *)

\* Every variable keeps its type.
TypeOK ==
  /\ profile \in Profiles \cup {None}
  /\ snapshot \in Profiles \cup {None}
  /\ journal \subseteq Operations /\ Cardinality(journal) <= MaxRecords
  /\ window \in [Windows -> Windowed]
  /\ issued \in 0 .. MaxOperations
  /\ budget \in [{"imports", "resets", "faults"} -> Nat]
  /\ applied \in [Operations -> Nat]
  /\ latest \in [Rules -> Contents]
  /\ replacedBy \subseteq {"create", "import", "reset"}

\* As long as only edits and restorations wrote the profile, an edit changes
\* exactly the profile its panel showed, whatever the other panels committed,
\* however often it is retried and whether or not refreshes failed
\* (transactProfile compares the revision only).
EditsWhatWasSeen ==
  [][\A w \in Windows :
       (At(w, "commit") /\ profile' # profile /\ window'[w].answer = "committed"
          /\ window[w] # window'[w] /\ replacedBy = {})
         => profile = window[w].command.basis]_vars

\* ... and no operation is applied twice, although its record may be trimmed
\* from the journal while its intent is retained.
AppliedOnce == replacedBy = {} => \A op \in Operations : applied[op] <= 1

\* One import loses nothing: what a panel saved last of a rule is in the profile
\* or in the snapshot, even when it was committed after the preview was read and
\* before the import was stored, and after any restorations and edits.
Recoverable(r) ==
  \/ profile # None /\ profile.rules[r] = latest[r]
  \/ snapshot # None /\ snapshot.rules[r] = latest[r]

NothingUnrecoverable ==
  (replacedBy \subseteq {"import"} /\ budget["imports"] + 1 >= MaxImports /\ profile # None)
    => \A r \in Rules : Recoverable(r)

\* What the documentation says of revisions (docs/data-contracts.md:105): they
\* are monotonic.  A new content has a higher revision, unless a reset intervened.
RevisionGrows ==
  [][profile # None /\ profile' # None /\ profile' # profile
       => profile'.revision > profile.revision]_vars
=============================================================================
