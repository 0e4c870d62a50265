-------------------------- MODULE LocalData_proofs --------------------------
(* Proofs about the profile store: an edit changes what its panel showed and   *)
(* is applied once, and what an import replaces can be recovered, for any      *)
(* number of panels, rules and operations; and about the feeds: a tombstone    *)
(* stays, and a batch in flight is carried on.                                 *)
EXTENDS ProfileStore, RssFeeds, TLAPS

\* The part of TypeOK the proofs use, and what a window holds at its places.
WindowOK(s) ==
  /\ s \in Windowed
  /\ s.pc = "ready" => s.seen # None
  /\ s.pc \in {"commit", "refresh"} => s.seen # None /\ s.command # None
  /\ s.pc \in {"previewed", "importing"} => s.seen # None /\ s.preview # None
  /\ s.pc = "importing" => s.imported # None

TypeInv ==
  /\ profile \in Profiles \cup {None}
  /\ snapshot \in Profiles \cup {None}
  /\ issued \in 0 .. MaxOperations
  /\ applied \in [Operations -> Nat]
  /\ DOMAIN window = Windows /\ window = [w \in Windows |-> window[w]]
  /\ \A w \in Windows : WindowOK(window[w])

\* The commands a window has issued and may apply yet.
Pending(s) ==
  {c \in Commands : c \in s.held \/ (s.command # None /\ c = s.command)}

\* p was the profile at its revision, as far as the profile q tells.
Known(p, q) ==
  /\ q \in Profiles
  /\ p.revision <= q.revision
  /\ p.revision = q.revision => p = q

\* As long as nothing else wrote the profile, every panel shows, and every
\* command is based on, what was the profile at its revision.
SeenInv ==
  \A w \in Windows :
    /\ window[w].seen # None => Known(window[w].seen, profile)
    /\ \A c \in Pending(window[w]) : Known(c.basis, profile)

\* What was applied was issued, and its commands are behind the profile.
OnceInv ==
  /\ \A op \in Operations : applied[op] <= 1 /\ (applied[op] = 1 => op <= issued)
  /\ \A w \in Windows : \A c \in Pending(window[w]) :
       c.op <= issued /\ (applied[c.op] = 1 => c.basis.revision < profile.revision)

Inv == TypeInv /\ (replacedBy = {} => SeenInv /\ OnceInv)

-----------------------------------------------------------------------------
(* Fields *)

LEMMA ClosedOK == WindowOK(Closed)
BY NoneAssumption DEF WindowOK, Windowed, Closed, PCs, Answers

\* The state a panel is in when it has loaded, refreshed or failed to.
LEMMA ShowingOK ==
  ASSUME NEW w, NEW pc \in {"load", "create", "ready", "error"},
         NEW seen \in Profiles \cup {None}, NEW held \in SUBSET Commands,
         pc = "ready" => seen # None
  PROVE  /\ WindowOK(Showing(w, pc, seen, held))
         /\ Showing(w, pc, seen, held).seen = seen
         /\ Showing(w, pc, seen, held).held = held
         /\ Showing(w, pc, seen, held).command = None
         /\ Showing(w, pc, seen, held).answer = "none"
BY DEF WindowOK, Windowed, Showing, PCs, Answers

LEMMA NewProfileType == NewProfile \in Profiles
BY DEF NewProfile, Profiles, Contents

\* What a step of a window leaves of it: it shows what it showed, nothing or
\* the profile, and a command it has not had is a new one, of the profile it
\* shows.
Follows(s, t, shown, before, after) ==
  /\ WindowOK(t)
  /\ t.seen = None \/ t.seen = s.seen \/ (t.seen = shown /\ shown \in Profiles)
  /\ \A c \in Pending(t) :
       \/ c \in Pending(s)
       \/ /\ s.seen # None /\ c.basis = s.seen
          /\ c.op = before + 1 /\ after = before + 1

\* The profile stays, is created, moves on, or is written without regard.
Moves ==
  \/ profile' = profile
  \/ replacedBy' # {}
  \/ profile = None /\ profile' = NewProfile
  \/ profile' \in Profiles /\ profile \in Profiles /\ profile'.revision = profile.revision + 1

Stored == <<profile, journal, snapshot, applied, latest, replacedBy>>

\* What every step of a window w does.
Stepped(w) ==
  /\ TypeInv'
  /\ Follows(window[w], window'[w], profile', issued, issued')
  /\ \A v \in Windows : v # w => window'[v] = window[v]
  /\ Moves
  /\ replacedBy \subseteq replacedBy'

LEMMA BecomesOne ==
  ASSUME TypeInv, NEW w \in Windows, NEW t, Becomes(w, t)
  PROVE  /\ window'[w] = t
         /\ \A v \in Windows : v # w => window'[v] = window[v]
         /\ DOMAIN window' = Windows /\ window' = [v \in Windows |-> window'[v]]
BY DEF TypeInv, Becomes

\* A step that stores nothing.
LEMMA UnstoredStep ==
  ASSUME TypeInv, NEW w \in Windows, NEW t, Becomes(w, t), Unstored,
         issued' \in 0 .. MaxOperations,
         Follows(window[w], t, profile, issued, issued')
  PROVE  Stepped(w)
<1>1. profile' = profile /\ snapshot' = snapshot /\ applied' = applied /\ replacedBy' = replacedBy
  BY DEF Unstored
<1>2. /\ window'[w] = t
      /\ \A v \in Windows : v # w => window'[v] = window[v]
      /\ DOMAIN window' = Windows /\ window' = [v \in Windows |-> window'[v]]
  BY BecomesOne
<1>3. \A v \in Windows : WindowOK(window'[v])
  BY <1>2 DEF TypeInv, Follows
<1>4. TypeInv'
  BY <1>1, <1>2, <1>3 DEF TypeInv
<1>. QED
  BY <1>1, <1>2, <1>4 DEF Stepped, Moves

\* A step that stores a profile.
LEMMA StoredStep ==
  ASSUME TypeInv, NEW w \in Windows, NEW t, Becomes(w, t), Moves,
         profile' \in Profiles \cup {None}, snapshot' \in Profiles \cup {None},
         issued' \in 0 .. MaxOperations, applied' \in [Operations -> Nat],
         replacedBy \subseteq replacedBy',
         Follows(window[w], t, profile', issued, issued')
  PROVE  Stepped(w)
<1>2. /\ window'[w] = t
      /\ \A v \in Windows : v # w => window'[v] = window[v]
      /\ DOMAIN window' = Windows /\ window' = [v \in Windows |-> window'[v]]
  BY BecomesOne
<1>3. \A v \in Windows : WindowOK(window'[v])
  BY <1>2 DEF TypeInv, Follows
<1>4. TypeInv'
  BY <1>2, <1>3 DEF TypeInv
<1>. QED
  BY <1>2, <1>4 DEF Stepped

\* A panel that shows what it read, or an error, has no new command.
LEMMA ShowingFollows ==
  ASSUME NEW w, NEW s, WindowOK(s), NEW pc \in {"load", "create", "ready", "error"},
         NEW seen \in Profiles \cup {None}, NEW held \in SUBSET Commands,
         NEW before, NEW after,
         pc = "ready" => seen # None,
         held \subseteq s.held \/ (s.command # None /\ held \subseteq s.held \cup {s.command})
  PROVE  /\ Follows(s, Showing(w, pc, seen, held), seen, before, after)
         /\ seen = s.seen \/ seen = None =>
              \A p : Follows(s, Showing(w, pc, seen, held), p, before, after)
<1>. DEFINE t == Showing(w, pc, seen, held)
<1>1. /\ WindowOK(t) /\ t.seen = seen /\ t.held = held /\ t.command = None
  BY ShowingOK
<1>. HIDE DEF t
<1>2. \A c \in Pending(t) : c \in Pending(s)
  BY <1>1 DEF Pending
<1>. QED
  BY <1>1, <1>2 DEF Follows, t

LEMMA WindowTypes ==
  ASSUME TypeInv, NEW w \in Windows
  PROVE  /\ WindowOK(window[w])
         /\ window[w].held \in SUBSET Commands
         /\ window[w].seen \in Profiles \cup {None}
         /\ window[w].command \in Commands \cup {None}
         /\ window[w].pc \in PCs
         /\ Removals(window[w].held) \in SUBSET Commands
         /\ Removals(window[w].held) \subseteq window[w].held
BY DEF TypeInv, WindowOK, Windowed, Removals

LEMMA OpenStep ==
  ASSUME TypeInv, NEW w \in Windows, Open(w)
  PROVE  Stepped(w)
<1>. DEFINE t == [window[w] EXCEPT !.pc = "load"]
<1>1. WindowOK(window[w]) /\ window[w] \in Windowed
  BY WindowTypes DEF WindowOK
<1>2. /\ WindowOK(t) /\ t.seen = window[w].seen /\ t.held = window[w].held
      /\ t.command = window[w].command
  BY <1>1 DEF WindowOK, Windowed, PCs
<1>3. Follows(window[w], t, profile, issued, issued')
  BY <1>2 DEF Follows, Pending
<1>. QED
  BY <1>3, UnstoredStep DEF Open, TypeInv

LEMMA CloseStep ==
  ASSUME TypeInv, NEW w \in Windows, Close(w)
  PROVE  Stepped(w)
<1>1. Follows(window[w], Closed, profile, issued, issued')
  BY ClosedOK DEF Follows, Pending, Closed
<1>. QED
  BY <1>1, UnstoredStep DEF Close, TypeInv

LEMMA LoadStep ==
  ASSUME TypeInv, NEW w \in Windows, Load(w)
  PROVE  Stepped(w)
<1>1. /\ Unstored /\ issued' = issued /\ issued' \in 0 .. MaxOperations
      /\ profile \in Profiles \cup {None}
  BY DEF Load, TypeInv
<1>2. CASE profile = None
  <2>. DEFINE t == Showing(w, "create", None, Removals(window[w].held))
  <2>1. Follows(window[w], t, profile, issued, issued')
    BY <1>2, WindowTypes, ShowingFollows
  <2>2. Becomes(w, t)
    BY <1>2 DEF Load
  <2>. QED
    BY <1>1, <2>1, <2>2, UnstoredStep
<1>3. CASE profile # None
  <2>. DEFINE t == Showing(w, "ready", profile, Removals(window[w].held))
  <2>1. Follows(window[w], t, profile, issued, issued')
    BY <1>1, <1>3, WindowTypes, ShowingFollows
  <2>2. Becomes(w, t)
    BY <1>3 DEF Load
  <2>. QED
    BY <1>1, <2>1, <2>2, UnstoredStep
<1>. QED
  BY <1>2, <1>3

LEMMA LoadFailsStep ==
  ASSUME TypeInv, NEW w \in Windows, LoadFails(w)
  PROVE  Stepped(w)
<1>. DEFINE t == Showing(w, "error", None, Removals(window[w].held))
<1>1. Follows(window[w], t, profile, issued, issued')
  BY WindowTypes, ShowingFollows
<1>. QED
  BY <1>1, UnstoredStep DEF LoadFails, TypeInv

LEMMA CreateStep ==
  ASSUME TypeInv, NEW w \in Windows, Create(w)
  PROVE  Stepped(w)
<1>. DEFINE t == Showing(w, "ready", NewProfile, window[w].held)
<1>1. Follows(window[w], t, NewProfile, issued, issued')
  BY WindowTypes, ShowingFollows, NewProfileType, NoneAssumption
<1>2. Moves
  BY DEF Create, Moves
<1>. QED
  BY <1>1, <1>2, StoredStep, NewProfileType DEF Create, TypeInv

\* A command is issued: it is new, or one the window holds.
LEMMA IssueFollows ==
  ASSUME NEW s, WindowOK(s), s.pc = "ready", NEW c \in Commands,
         NEW held \in SUBSET s.held, NEW before, NEW after, NEW p,
         c \in s.held \/ (c.basis = s.seen /\ c.op = before + 1 /\ after = before + 1)
  PROVE  Follows(s, [s EXCEPT !.pc = "commit", !.command = c, !.held = held], p, before, after)
<1>. DEFINE t == [s EXCEPT !.pc = "commit", !.command = c, !.held = held]
<1>1. /\ s \in Windowed /\ s.seen # None /\ c # None
  BY NoneAssumption DEF WindowOK
<1>2. /\ WindowOK(t) /\ t.seen = s.seen /\ t.held = held /\ t.command = c
  BY <1>1 DEF WindowOK, Windowed, PCs
<1>. HIDE DEF t
<1>3. \A d \in Pending(t) : d \in Pending(s) \/ d = c
  BY <1>2 DEF Pending
<1>4. c \in s.held => c \in Pending(s)
  BY DEF Pending
<1>. QED
  BY <1>1, <1>2, <1>3, <1>4 DEF Follows, t

LEMMA BeginSaveStep ==
  ASSUME TypeInv, NEW w \in Windows, NEW r \in Rules, BeginSave(w, r)
  PROVE  Stepped(w)
<1>. DEFINE c == [op |-> issued + 1, kind |-> "save", rule |-> r, basis |-> window[w].seen]
            held == Removals(window[w].held)
            t == [window[w] EXCEPT !.pc = "commit", !.command = c, !.held = held]
<1>1. /\ window[w].pc = "ready" /\ issued' = issued + 1 /\ issued' \in 1 .. MaxOperations
      /\ Becomes(w, t) /\ Unstored
  BY BoundsAssumption DEF BeginSave, Issue, At, TypeInv
<1>2. window[w].seen \in Profiles
  BY <1>1, WindowTypes DEF WindowOK
<1>3. c \in Commands
  BY <1>1, <1>2 DEF Commands, Operations
<1>4. Follows(window[w], t, profile, issued, issued')
  <2>1. c.basis = window[w].seen /\ c.op = issued + 1
    OBVIOUS
  <2>. HIDE DEF c
  <2>. QED
    BY <1>1, <1>3, <2>1, IssueFollows, WindowTypes
<1>. QED
  BY <1>1, <1>4, UnstoredStep

LEMMA RetrySaveStep ==
  ASSUME TypeInv, NEW w \in Windows, RetrySave(w)
  PROVE  Stepped(w)
<1>1. PICK c \in window[w].held \ Removals(window[w].held) : Issue(w, c, window[w].held)
  BY DEF RetrySave
<1>. DEFINE t == [window[w] EXCEPT !.pc = "commit", !.command = c, !.held = window[w].held]
<1>2. window[w].pc = "ready" /\ c \in Commands /\ Becomes(w, t)
  BY <1>1, WindowTypes DEF RetrySave, Issue, At
<1>3. Follows(window[w], t, profile, issued, issued')
  BY <1>1, <1>2, IssueFollows, WindowTypes
<1>. QED
  BY <1>2, <1>3, UnstoredStep DEF RetrySave, TypeInv

LEMMA BeginRemoveStep ==
  ASSUME TypeInv, NEW w \in Windows, NEW r \in Rules, BeginRemove(w, r)
  PROVE  Stepped(w)
<1>1. window[w].pc = "ready" /\ Unstored
  BY DEF BeginRemove, At
<1>. DEFINE retained == {c \in Removals(window[w].held) : c.rule = r}
            n == [op |-> issued + 1, kind |-> "remove", rule |-> r, basis |-> window[w].seen]
<1>2. CASE (\E c \in retained : Issue(w, c, window[w].held)) /\ UNCHANGED issued
  <2>1. PICK c \in retained : Issue(w, c, window[w].held)
    BY <1>2
  <2>. DEFINE t == [window[w] EXCEPT !.pc = "commit", !.command = c, !.held = window[w].held]
  <2>2. c \in window[w].held /\ c \in Commands /\ Becomes(w, t)
    BY <2>1, WindowTypes DEF Issue
  <2>3. Follows(window[w], t, profile, issued, issued')
    BY <1>1, <2>2, IssueFollows, WindowTypes
  <2>. QED
    BY <1>1, <1>2, <2>2, <2>3, UnstoredStep DEF TypeInv
<1>3. CASE issued < MaxOperations /\ issued' = issued + 1 /\ Issue(w, n, window[w].held)
  <2>. DEFINE t == [window[w] EXCEPT !.pc = "commit", !.command = n, !.held = window[w].held]
  <2>1. issued' \in 1 .. MaxOperations /\ Becomes(w, t)
    BY <1>3, BoundsAssumption DEF TypeInv, Issue
  <2>2. window[w].seen \in Profiles
    BY <1>1, WindowTypes DEF WindowOK
  <2>3. n \in Commands
    BY <1>3, <2>1, <2>2 DEF Commands, Operations
  <2>4. Follows(window[w], t, profile, issued, issued')
    <3>1. n.basis = window[w].seen /\ n.op = issued + 1
      OBVIOUS
    <3>. HIDE DEF n
    <3>. QED
      BY <1>1, <1>3, <2>3, <3>1, IssueFollows, WindowTypes
  <2>. QED
    BY <1>1, <2>1, <2>4, UnstoredStep
<1>. QED
  BY <1>2, <1>3 DEF BeginRemove

\* A command is answered: nothing is new.
LEMMA AnsweredFollows ==
  ASSUME NEW s, WindowOK(s), s.pc = "commit", NEW answer \in Answers,
         NEW before, NEW after, NEW p
  PROVE  /\ Follows(s, [s EXCEPT !.pc = "refresh", !.answer = answer], p, before, after)
         /\ [s EXCEPT !.pc = "refresh", !.answer = answer].answer = answer
<1>. DEFINE t == [s EXCEPT !.pc = "refresh", !.answer = answer]
<1>1. s \in Windowed
  BY DEF WindowOK
<1>2. /\ WindowOK(t) /\ t.seen = s.seen /\ t.held = s.held /\ t.command = s.command
      /\ t.answer = answer
  BY <1>1 DEF WindowOK, Windowed, PCs
<1>. HIDE DEF t
<1>3. Pending(t) = Pending(s)
  BY <1>2 DEF Pending
<1>. QED
  BY <1>2, <1>3 DEF Follows, t

LEMMA AnswerStep ==
  ASSUME TypeInv, NEW w \in Windows, Answer(w) \/ StorageFails(w)
  PROVE  Stepped(w)
<1>1. /\ window[w].pc = "commit" /\ Unstored /\ issued' = issued
      /\ \E answer \in Answers : Answered(w, answer)
  BY DEF Answer, StorageFails, At, Answers
<1>2. PICK answer \in Answers : Answered(w, answer)
  BY <1>1
<1>. DEFINE t == [window[w] EXCEPT !.pc = "refresh", !.answer = answer]
<1>3. Becomes(w, t)
  BY <1>2 DEF Answered
<1>4. Follows(window[w], t, profile, issued, issued')
  BY <1>1, AnsweredFollows, WindowTypes
<1>. QED
  BY <1>1, <1>3, <1>4, UnstoredStep DEF TypeInv

\* An edit: the profile was at the revision of the command, and moves on.
LEMMA ApplyEffect ==
  ASSUME TypeInv, NEW w \in Windows, Apply(w)
  PROVE  /\ window[w].pc = "commit" /\ window[w].command \in Commands
         /\ window[w].command \in Pending(window[w])
         /\ profile \in Profiles /\ profile' \in Profiles
         /\ profile.revision = window[w].command.basis.revision
         /\ profile'.revision = profile.revision + 1
         /\ applied' = [applied EXCEPT ![window[w].command.op] = @ + 1]
         /\ UNCHANGED <<snapshot, issued, replacedBy>>
         /\ Answered(w, "committed")
<1>. DEFINE c == window[w].command
            content == IF c.kind = "save" THEN c.op ELSE None
<1>1. /\ window[w].pc = "commit" /\ MayApply(c) /\ Answered(w, "committed")
      /\ profile' = [revision |-> profile.revision + 1,
                     rules |-> [profile.rules EXCEPT ![c.rule] = content]]
      /\ applied' = [applied EXCEPT ![c.op] = @ + 1]
      /\ UNCHANGED <<snapshot, issued, replacedBy>>
  BY DEF Apply, At
<1>2. c \in Commands /\ c # None
  BY <1>1, WindowTypes DEF WindowOK
<1>3. c \in Pending(window[w])
  BY <1>2 DEF Pending
<1>4. profile \in Profiles /\ profile.revision = c.basis.revision
  BY <1>1 DEF MayApply, TypeInv
<1>5. content \in Contents
  BY <1>2 DEF Contents, Commands
<1>6. profile' \in Profiles /\ profile'.revision = profile.revision + 1
  <2>1. [profile.rules EXCEPT ![c.rule] = content] \in [Rules -> Contents]
    BY <1>4, <1>5 DEF Profiles
  <2>2. profile.revision + 1 \in Nat
    BY <1>4 DEF Profiles
  <2>. HIDE DEF content, c
  <2>. QED
    BY <1>1, <2>1, <2>2 DEF Profiles
<1>. QED
  BY <1>1, <1>2, <1>3, <1>4, <1>6

LEMMA ApplyStep ==
  ASSUME TypeInv, NEW w \in Windows, Apply(w)
  PROVE  Stepped(w)
<1>. DEFINE t == [window[w] EXCEPT !.pc = "refresh", !.answer = "committed"]
<1>1. Becomes(w, t)
  BY ApplyEffect DEF Answered
<1>2. Follows(window[w], t, profile', issued, issued')
  BY ApplyEffect, AnsweredFollows, WindowTypes DEF Answers
<1>3. Moves
  BY ApplyEffect DEF Moves
<1>4. applied' \in [Operations -> Nat]
  <2>1. window[w].command.op \in Operations
    BY ApplyEffect DEF Commands
  <2>. QED
    BY <2>1, ApplyEffect DEF TypeInv
<1>5. /\ snapshot' \in Profiles \cup {None} /\ issued' \in 0 .. MaxOperations
      /\ replacedBy' = replacedBy /\ profile' \in Profiles \cup {None}
  BY ApplyEffect DEF TypeInv
<1>. QED
  BY <1>1, <1>2, <1>3, <1>4, <1>5, StoredStep

LEMMA RetainedTypes ==
  ASSUME TypeInv, NEW w \in Windows, window[w].pc = "refresh", NEW b \in BOOLEAN
  PROVE  /\ Retained(w, b) \in SUBSET Commands
         /\ Retained(w, b) \subseteq window[w].held \cup {window[w].command}
         /\ window[w].command # None /\ window[w].seen # None
         /\ Removals(Retained(w, b)) \in SUBSET Commands
         /\ Removals(Retained(w, b)) \subseteq window[w].held \cup {window[w].command}
<1>1. /\ window[w].held \in SUBSET Commands
      /\ window[w].command \in Commands /\ window[w].command # None /\ window[w].seen # None
  BY WindowTypes DEF WindowOK
<1>2. \A held : Removals(held) \subseteq held
  BY DEF Removals
<1>. QED
  BY <1>1, <1>2 DEF Retained

LEMMA RefreshStep ==
  ASSUME TypeInv, NEW w \in Windows, Refresh(w)
  PROVE  Stepped(w)
<1>1. /\ window[w].pc = "refresh" /\ Unstored /\ issued' \in 0 .. MaxOperations
      /\ profile \in Profiles \cup {None}
  BY DEF Refresh, TypeInv, At
<1>2. CASE profile = None
  <2>. DEFINE t == Showing(w, "error", None, Removals(Retained(w, FALSE)))
  <2>1. Follows(window[w], t, profile, issued, issued')
    BY <1>1, RetainedTypes, WindowTypes, ShowingFollows
  <2>2. Becomes(w, t)
    BY <1>2 DEF Refresh
  <2>. QED
    BY <1>1, <2>1, <2>2, UnstoredStep
<1>3. CASE profile # None
  <2>. DEFINE t == Showing(w, "ready", profile, Retained(w, TRUE))
  <2>1. Follows(window[w], t, profile, issued, issued')
    BY <1>1, <1>3, RetainedTypes, WindowTypes, ShowingFollows
  <2>2. Becomes(w, t)
    BY <1>3 DEF Refresh
  <2>. QED
    BY <1>1, <2>1, <2>2, UnstoredStep
<1>. QED
  BY <1>2, <1>3

LEMMA RefreshFailsStep ==
  ASSUME TypeInv, NEW w \in Windows, RefreshFails(w)
  PROVE  Stepped(w)
<1>1. /\ window[w].pc = "refresh" /\ Unstored /\ issued' \in 0 .. MaxOperations
  BY DEF RefreshFails, TypeInv, At
<1>. DEFINE t == Showing(w, "ready", window[w].seen, Retained(w, FALSE))
<1>2. Follows(window[w], t, profile, issued, issued')
  BY <1>1, RetainedTypes, WindowTypes, ShowingFollows
<1>3. Becomes(w, t)
  BY DEF RefreshFails
<1>. QED
  BY <1>1, <1>2, <1>3, UnstoredStep

\* A window that keeps its profile and commands.
LEMMA KeepingFollows ==
  ASSUME NEW s, NEW t, WindowOK(t), t.seen = s.seen, t.held = s.held,
         t.command = s.command, NEW p, NEW before, NEW after
  PROVE  Follows(s, t, p, before, after)
BY DEF Follows, Pending

LEMMA PreviewStep ==
  ASSUME TypeInv, NEW w \in Windows, Preview(w)
  PROVE  Stepped(w)
<1>1. window[w].pc = "ready" /\ Unstored /\ issued' \in 0 .. MaxOperations
  BY DEF Preview, At, TypeInv
<1>2. profile \in Profiles
  BY DEF Preview, TypeInv
<1>3. PICK kept \in SUBSET Rules :
        Becomes(w, [window[w] EXCEPT
          !.pc = "previewed",
          !.preview = [revision |-> profile.revision,
                       rules |-> [r \in Rules |-> IF r \in kept THEN profile.rules[r] ELSE 0]]])
  BY DEF Preview
<1>. DEFINE p == [revision |-> profile.revision,
                  rules |-> [r \in Rules |-> IF r \in kept THEN profile.rules[r] ELSE 0]]
            t == [window[w] EXCEPT !.pc = "previewed", !.preview = p]
<1>4. p \in Previews /\ p \in Profiles
  BY <1>2 DEF Previews, Profiles, Contents
<1>5. WindowOK(t) /\ t.seen = window[w].seen /\ t.held = window[w].held /\ t.command = window[w].command
  <2>1. WindowOK(window[w]) /\ window[w] \in Windowed /\ p # None
    BY <1>4, WindowTypes, NoneAssumption DEF WindowOK
  <2>. HIDE DEF p
  <2>. QED
    BY <2>1, <1>1, <1>4 DEF WindowOK, Windowed, PCs
<1>6. Follows(window[w], t, profile, issued, issued')
  <2>. HIDE DEF t
  <2>. QED
    BY <1>5, KeepingFollows
<1>. QED
  BY <1>1, <1>3, <1>6, UnstoredStep

LEMMA ImportReadStep ==
  ASSUME TypeInv, NEW w \in Windows, ImportRead(w)
  PROVE  Stepped(w)
<1>1. /\ window[w].pc = "previewed" /\ Unstored
      /\ issued' = issued + 1 /\ issued' \in 1 .. MaxOperations
  BY BoundsAssumption DEF ImportRead, At, TypeInv
<1>2. WindowOK(window[w]) /\ window[w] \in Windowed
  BY WindowTypes DEF WindowOK
<1>3. CASE profile # None /\ profile.revision = window[w].preview.revision
  <2>. DEFINE i == [op |-> issued + 1, read |-> profile]
              t == [window[w] EXCEPT !.pc = "importing", !.imported = i]
  <2>1. Becomes(w, t)
    BY <1>3 DEF ImportRead
  <2>2. i \in Imports
    BY <1>1, <1>3 DEF Imports, Operations, TypeInv
  <2>3. WindowOK(t) /\ t.seen = window[w].seen /\ t.held = window[w].held /\ t.command = window[w].command
    <3>1. i # None
      BY <2>2, NoneAssumption
    <3>. HIDE DEF i
    <3>. QED
      BY <1>1, <1>2, <2>2, <3>1 DEF WindowOK, Windowed, PCs
  <2>4. Follows(window[w], t, profile, issued, issued')
    <3>. HIDE DEF t
    <3>. QED
      BY <2>3, KeepingFollows
  <2>. QED
    BY <1>1, <2>1, <2>4, UnstoredStep
<1>4. CASE ~(profile # None /\ profile.revision = window[w].preview.revision)
  <2>. DEFINE t == [window[w] EXCEPT !.pc = "ready", !.preview = None]
  <2>1. Becomes(w, t)
    BY <1>4 DEF ImportRead
  <2>2. WindowOK(t) /\ t.seen = window[w].seen /\ t.held = window[w].held /\ t.command = window[w].command
    BY <1>1, <1>2 DEF WindowOK, Windowed, PCs
  <2>3. Follows(window[w], t, profile, issued, issued')
    <3>. HIDE DEF t
    <3>. QED
      BY <2>2, KeepingFollows
  <2>. QED
    BY <1>1, <2>1, <2>3, UnstoredStep
<1>. QED
  BY <1>3, <1>4

\* A window that loads again keeps its profile and commands.
LEMMA ReloadFollows ==
  ASSUME NEW s, WindowOK(s), NEW p, NEW before, NEW after
  PROVE  Follows(s, [s EXCEPT !.pc = "load"], p, before, after)
<1>. DEFINE t == [s EXCEPT !.pc = "load"]
<1>1. WindowOK(t) /\ t.seen = s.seen /\ t.held = s.held /\ t.command = s.command
  BY DEF WindowOK, Windowed, PCs
<1>. HIDE DEF t
<1>2. Follows(s, t, p, before, after)
  BY <1>1, KeepingFollows
<1>. QED
  BY <1>2 DEF t

LEMMA ImportedType ==
  ASSUME TypeInv, NEW w \in Windows, ImportCommit(w)
  PROVE  profile' \in Profiles
<1>. DEFINE i == window[w].imported
            b == window[w].preview
<1>1. /\ window[w].pc = "importing"
      /\ profile' = [revision |-> i.read.revision + 1, rules |-> b.rules]
  BY DEF ImportCommit, At
<1>2. i \in Imports /\ b \in Previews
  BY <1>1, WindowTypes DEF WindowOK, Windowed
<1>3. i.read.revision + 1 \in Nat /\ b.rules \in [Rules -> Contents]
  BY <1>2 DEF Imports, Previews, Profiles
<1>. HIDE DEF i, b
<1>. QED
  BY <1>1, <1>3 DEF Profiles

LEMMA ImportCommitStep ==
  ASSUME TypeInv, NEW w \in Windows, ImportCommit(w)
  PROVE  Stepped(w)
<1>. DEFINE t == [window[w] EXCEPT !.pc = "load"]
<1>1. /\ snapshot' = profile /\ profile' \in Profiles
      /\ replacedBy' = replacedBy \cup {"import"} /\ Becomes(w, t)
      /\ UNCHANGED <<issued, applied>>
  BY ImportedType DEF ImportCommit, Replaced
<1>2. Follows(window[w], t, profile', issued, issued')
  BY ReloadFollows, WindowTypes
<1>3. Moves
  BY <1>1 DEF Moves
<1>. QED
  BY <1>1, <1>2, <1>3, StoredStep DEF TypeInv

LEMMA ImportFailsStep ==
  ASSUME TypeInv, NEW w \in Windows, ImportFails(w)
  PROVE  Stepped(w)
<1>1. /\ window[w].pc = "importing" /\ Unstored /\ issued' \in 0 .. MaxOperations
  BY DEF ImportFails, At, TypeInv
<1>2. WindowOK(window[w]) /\ window[w] \in Windowed
  BY WindowTypes DEF WindowOK
<1>3. CASE Becomes(w, Showing(w, "ready", window[w].seen, window[w].held))
  <2>1. Follows(window[w], Showing(w, "ready", window[w].seen, window[w].held), profile, issued, issued')
    BY <1>1, <1>2, WindowTypes, ShowingFollows DEF WindowOK
  <2>. QED
    BY <1>1, <1>3, <2>1, UnstoredStep
<1>4. CASE Becomes(w, [window[w] EXCEPT !.pc = "previewed", !.imported = None])
  <2>. DEFINE t == [window[w] EXCEPT !.pc = "previewed", !.imported = None]
  <2>1. WindowOK(t) /\ t.seen = window[w].seen /\ t.held = window[w].held /\ t.command = window[w].command
    BY <1>1, <1>2 DEF WindowOK, Windowed, PCs
  <2>2. Follows(window[w], t, profile, issued, issued')
    <3>. HIDE DEF t
    <3>. QED
      BY <2>1, KeepingFollows
  <2>. QED
    BY <1>1, <1>4, <2>2, UnstoredStep
<1>. QED
  BY <1>3, <1>4 DEF ImportFails

LEMMA RestoreStep ==
  ASSUME TypeInv, NEW w \in Windows, Restore(w)
  PROVE  Stepped(w)
<1>. DEFINE t == [window[w] EXCEPT !.pc = "load"]
<1>1. /\ snapshot \in Profiles /\ profile \in Profiles /\ snapshot' = profile
      /\ profile' = [snapshot EXCEPT !.revision = profile.revision + 1]
      /\ issued' \in 0 .. MaxOperations /\ UNCHANGED <<applied, replacedBy>>
      /\ Becomes(w, t)
  BY BoundsAssumption DEF Restore, TypeInv
<1>2. profile' \in Profiles /\ profile'.revision = profile.revision + 1
  BY <1>1 DEF Profiles
<1>3. Follows(window[w], t, profile', issued, issued')
  BY ReloadFollows, WindowTypes
<1>4. Moves
  BY <1>1, <1>2 DEF Moves
<1>. QED
  BY <1>1, <1>2, <1>3, <1>4, StoredStep DEF TypeInv

LEMMA ResetStep ==
  ASSUME TypeInv, NEW w \in Windows, Reset(w)
  PROVE  Stepped(w)
<1>. DEFINE t == [window[w] EXCEPT !.pc = "load"]
<1>1. /\ profile' = None /\ snapshot' = None /\ applied' = [op \in Operations |-> 0]
      /\ replacedBy' = replacedBy \cup {"reset"} /\ issued' = issued /\ Becomes(w, t)
  BY DEF Reset
<1>2. Follows(window[w], t, profile', issued, issued')
  BY ReloadFollows, WindowTypes
<1>3. Moves
  BY <1>1 DEF Moves
<1>. QED
  BY <1>1, <1>2, <1>3, StoredStep DEF TypeInv

-----------------------------------------------------------------------------
(* The invariant *)

LEMMA EveryStep ==
  ASSUME TypeInv, Next
  PROVE  \E w \in Windows : Stepped(w)
<1>1. PICK w \in Windows :
        Open(w) \/ Close(w) \/ Load(w) \/ LoadFails(w) \/ Create(w) \/ Editing(w) \/ Importing(w)
  BY DEF Next
<1>2. CASE Open(w) \/ Close(w) \/ Load(w) \/ LoadFails(w) \/ Create(w)
  BY <1>2, OpenStep, CloseStep, LoadStep, LoadFailsStep, CreateStep
<1>3. CASE Editing(w)
  BY <1>3, RetrySaveStep, ApplyStep, AnswerStep, RefreshStep, RefreshFailsStep,
     BeginSaveStep, BeginRemoveStep DEF Editing
<1>4. CASE Importing(w)
  BY <1>4, PreviewStep, ImportReadStep, ImportCommitStep, ImportFailsStep, RestoreStep,
     ResetStep DEF Importing
<1>. QED
  BY <1>1, <1>2, <1>3, <1>4

\* What was known of a profile stays known when the profile moves.
LEMMA KnownStays ==
  ASSUME TypeInv, TypeInv', Moves, replacedBy' = {}, NEW p \in Profiles, Known(p, profile)
  PROVE  Known(p, profile')
<1>1. profile \in Profiles /\ p.revision \in Nat /\ profile.revision \in Nat /\ profile # None
  BY NoneAssumption DEF Known, Profiles
<1>. QED
  BY <1>1 DEF Moves, Known

LEMMA KnownSelf ==
  ASSUME NEW p \in Profiles
  PROVE  Known(p, p)
BY DEF Known, Profiles

LEMMA PendingTypes ==
  ASSUME NEW s, NEW c \in Pending(s)
  PROVE  c \in Commands /\ c.op \in Operations /\ c.basis \in Profiles
BY DEF Pending, Commands

LEMMA SeenStep ==
  ASSUME TypeInv, replacedBy = {} => SeenInv, NEW w \in Windows, Stepped(w), replacedBy' = {}
  PROVE  SeenInv'
<1>1. /\ TypeInv' /\ Moves /\ SeenInv
      /\ Follows(window[w], window'[w], profile', issued, issued')
      /\ \A v \in Windows : v # w => window'[v] = window[v]
  BY DEF Stepped
<1>2. \A p \in Profiles : Known(p, profile) => Known(p, profile')
  BY <1>1, KnownStays
<1>3. SUFFICES ASSUME NEW v \in Windows
      PROVE  /\ window'[v].seen # None => Known(window'[v].seen, profile')
             /\ \A c \in Pending(window'[v]) : Known(c.basis, profile')
  BY DEF SeenInv, Pending
<1>5. /\ window[v].seen # None => window[v].seen \in Profiles /\ Known(window[v].seen, profile')
      /\ \A c \in Pending(window[v]) : Known(c.basis, profile')
  <2>1. window[v].seen # None => window[v].seen \in Profiles /\ Known(window[v].seen, profile)
    BY <1>1, WindowTypes DEF SeenInv
  <2>2. ASSUME NEW c \in Pending(window[v])
        PROVE  Known(c.basis, profile) /\ c.basis \in Profiles
    BY <1>1, PendingTypes DEF SeenInv
  <2>. QED
    BY <1>2, <2>1, <2>2
<1>6. profile' \in Profiles => Known(profile', profile')
  BY KnownSelf
<1>7. CASE v # w
  BY <1>1, <1>5, <1>7
<1>8. CASE v = w
  BY <1>1, <1>5, <1>6, <1>8 DEF Follows
<1>. QED
  BY <1>7, <1>8

\* What a step does to the count of an operation: nothing, or it applies the
\* command of a window.
Counts ==
  /\ issued' \in {issued, issued + 1}
  /\ \/ applied' = applied
     \/ replacedBy' # {}
     \/ \E w \in Windows : Apply(w)

LEMMA EveryCount ==
  ASSUME TypeInv, Next
  PROVE  Counts
<1>1. PICK w \in Windows :
        Open(w) \/ Close(w) \/ Load(w) \/ LoadFails(w) \/ Create(w) \/ Editing(w) \/ Importing(w)
  BY DEF Next
<1>2. CASE Open(w) \/ Close(w) \/ Load(w) \/ LoadFails(w) \/ Create(w)
  BY <1>2 DEF Open, Close, Load, LoadFails, Create, Unstored, Counts
<1>3. CASE Editing(w)
  BY <1>3 DEF Editing, RetrySave, Apply, Answer, StorageFails, Refresh, RefreshFails, BeginSave,
     BeginRemove, Unstored, Counts
<1>4. CASE Importing(w)
  BY <1>4 DEF Importing, Preview, ImportRead, ImportCommit, ImportFails, Restore, Reset,
     Unstored, Counts
<1>. QED
  BY <1>1, <1>2, <1>3, <1>4

LEMMA OnceStep ==
  ASSUME Inv, NEW w \in Windows, Stepped(w), Counts, replacedBy' = {}
  PROVE  OnceInv'
<1>1. /\ TypeInv /\ TypeInv' /\ Moves /\ SeenInv /\ OnceInv
      /\ Follows(window[w], window'[w], profile', issued, issued')
      /\ \A v \in Windows : v # w => window'[v] = window[v]
  BY DEF Stepped, Inv
<1>2. /\ applied \in [Operations -> Nat] /\ applied' \in [Operations -> Nat]
      /\ issued \in Nat /\ issued' \in Nat /\ issued <= issued'
  BY <1>1 DEF TypeInv, Counts
<1>3. \A op \in Operations : op \in Nat
  BY DEF Operations
<1>4. /\ \A op \in Operations : applied[op] <= 1 /\ (applied[op] = 1 => op <= issued)
      /\ \A v \in Windows : \A c \in Pending(window[v]) :
           /\ c \in Commands /\ c.op \in Operations /\ c.basis \in Profiles
           /\ Known(c.basis, profile) /\ c.op <= issued
           /\ applied[c.op] = 1 => c.basis.revision < profile.revision
  BY <1>1, PendingTypes DEF OnceInv, SeenInv
<1>. DEFINE Behind(c) ==
              c.op <= issued' /\ (applied'[c.op] = 1 => c.basis.revision < profile'.revision)
\* Once c.basis is known, an edit leaves it behind, and nothing else counts.
<1>5. ASSUME NEW c \in Commands, Known(c.basis, profile),
             applied[c.op] = 1 => c.basis.revision < profile.revision
      PROVE  applied'[c.op] = 1 => c.basis.revision < profile'.revision
  <2>1. /\ profile \in Profiles /\ profile.revision \in Nat /\ c.basis.revision \in Nat
        /\ c.basis.revision <= profile.revision /\ profile # None
    BY <1>5, NoneAssumption DEF Known, Profiles, Commands
  <2>2. CASE applied' = applied
    BY <1>5, <2>1, <2>2, <1>1 DEF Moves
  <2>3. CASE \E u \in Windows : Apply(u)
    BY <1>1, <2>1, <2>3, ApplyEffect
  <2>. QED
    BY <2>2, <2>3 DEF Counts
<1>6. ASSUME NEW v \in Windows, NEW c \in Pending(window[v])
      PROVE  Behind(c)
  <2>1. c.op <= issued'
    BY <1>2, <1>3, <1>4
  <2>. QED
    BY <1>4, <1>5, <2>1
<1>7. ASSUME NEW c \in Pending(window'[w]), window[w].seen # None, c.basis = window[w].seen,
             c.op = issued + 1, issued' = issued + 1
      PROVE  Behind(c)
  <2>1. Known(c.basis, profile)
    BY <1>1, <1>7 DEF SeenInv
  <2>2. c \in Commands /\ applied[c.op] # 1
    BY <1>2, <1>3, <1>4, <1>7, PendingTypes
  <2>3. c.op <= issued'
    BY <1>2, <1>7
  <2>. QED
    BY <1>5, <2>1, <2>2, <2>3
<1>8. ASSUME NEW v \in Windows, NEW c \in Pending(window'[v])
      PROVE  Behind(c)
  <2>1. CASE v # w
    BY <1>1, <1>6, <2>1
  <2>2. CASE v = w
    <3>1. c \in Pending(window'[w])
      BY <2>2
    <3>2. \/ c \in Pending(window[w])
          \/ window[w].seen # None /\ c.basis = window[w].seen /\ c.op = issued + 1 /\ issued' = issued + 1
      BY <1>1, <3>1 DEF Follows
    <3>. QED
      BY <1>6, <1>7, <3>1, <3>2
  <2>. QED
    BY <2>1, <2>2
<1>9. ASSUME NEW op \in Operations
      PROVE  applied'[op] <= 1 /\ (applied'[op] = 1 => op <= issued')
  <2>1. CASE applied' = applied
    BY <1>2, <1>3, <1>4, <2>1
  <2>2. CASE \E u \in Windows : Apply(u)
    <3>1. PICK u \in Windows : Apply(u)
      BY <2>2
    <3>. DEFINE c == window[u].command
    <3>2. /\ c \in Pending(window[u]) /\ profile.revision = c.basis.revision
          /\ applied' = [applied EXCEPT ![c.op] = @ + 1] /\ profile \in Profiles
      BY <1>1, <3>1, ApplyEffect
    <3>. HIDE DEF c
    <3>3. c.op \in Operations /\ c.op <= issued /\ applied[c.op] # 1
      BY <1>4, <3>2 DEF Profiles
    <3>4. applied[c.op] = 0
      BY <1>2, <1>4, <3>3
    <3>5. applied'[op] = IF op = c.op THEN 1 ELSE applied[op]
      BY <1>2, <3>2, <3>4
    <3>. QED
      BY <1>2, <1>3, <1>4, <3>3, <3>5
  <2>. QED
    BY <2>1, <2>2 DEF Counts
<1>. QED
  BY <1>8, <1>9 DEF OnceInv, Pending

LEMMA InitInv == Init => Inv
<1>. SUFFICES ASSUME Init PROVE Inv
  OBVIOUS
<1>1. /\ profile = None /\ snapshot = None /\ issued = 0
      /\ window = [w \in Windows |-> Closed]
      /\ applied = [op \in Operations |-> 0]
  BY DEF Init
<1>2. TypeInv
  BY <1>1, ClosedOK, BoundsAssumption DEF TypeInv
<1>3. \A w \in Windows : window[w].seen = None /\ Pending(window[w]) = {}
  BY <1>1 DEF Closed, Pending
<1>4. SeenInv
  BY <1>3 DEF SeenInv
<1>5. OnceInv
  BY <1>1, <1>3 DEF OnceInv
<1>. QED
  BY <1>2, <1>4, <1>5 DEF Inv

LEMMA InvStep == Inv /\ [Next]_vars => Inv'
<1>. SUFFICES ASSUME Inv, [Next]_vars PROVE Inv'
  OBVIOUS
<1>1. CASE Next
  <2>1. PICK w \in Windows : Stepped(w)
    BY <1>1, EveryStep DEF Inv
  <2>2. TypeInv' /\ Counts
    BY <1>1, <2>1, EveryCount DEF Inv, Stepped
  <2>3. ASSUME replacedBy' = {} PROVE SeenInv' /\ OnceInv'
    BY <2>1, <2>2, <2>3, SeenStep, OnceStep DEF Inv
  <2>. QED
    BY <2>2, <2>3 DEF Inv
<1>2. CASE UNCHANGED vars
  BY <1>2 DEF vars, Inv, TypeInv, SeenInv, OnceInv, Pending
<1>. QED
  BY <1>1, <1>2

THEOREM InvThm == Spec => []Inv
BY InitInv, InvStep, PTL DEF Spec

\* As long as only edits and restorations wrote the profile, no operation is
\* applied twice, however often it is retried and whatever the journal forgets
\* (transactProfile).
THEOREM AppliedOnceThm == Spec => []AppliedOnce
<1>1. Inv => AppliedOnce
  BY DEF Inv, OnceInv, AppliedOnce
<1>. QED
  BY <1>1, InvThm, PTL

\* As long as only edits and restorations wrote the profile, a committed command
\* changes exactly the profile its panel showed (transactProfile compares the
\* revision only).
THEOREM EditsWhatWasSeenThm == Spec => EditsWhatWasSeen
<1>. DEFINE Edits ==
       \A w \in Windows :
         (At(w, "commit") /\ profile' # profile /\ window'[w].answer = "committed"
            /\ window[w] # window'[w] /\ replacedBy = {})
           => profile = window[w].command.basis
<1>1. Inv /\ [Next]_vars => [Edits]_vars
  <2>. SUFFICES ASSUME Inv, Next, NEW w \in Windows, At(w, "commit"), profile' # profile,
                       window[w] # window'[w], replacedBy = {}
                PROVE  profile = window[w].command.basis
    OBVIOUS
  <2>1. TypeInv /\ SeenInv
    BY DEF Inv
  <2>2. PICK v \in Windows :
          Open(v) \/ Close(v) \/ Load(v) \/ LoadFails(v) \/ Create(v) \/ Editing(v) \/ Importing(v)
    BY DEF Next
  <2>3. Apply(v) \/ Create(v) \/ ImportCommit(v) \/ Restore(v) \/ Reset(v)
    BY <2>2 DEF Open, Close, Load, LoadFails, Editing, RetrySave, Answer, StorageFails, Refresh,
       RefreshFails, BeginSave, BeginRemove, Importing, Preview, ImportRead, ImportFails, Unstored
  <2>4. v = w
    <3>1. \A t : Becomes(v, t) => \A u \in Windows : u # v => window'[u] = window[u]
      BY <2>1, BecomesOne
    <3>. QED
      BY <2>3, <3>1 DEF Apply, Answered, Create, ImportCommit, Restore, Reset
  <2>5. Apply(w)
    BY <2>3, <2>4 DEF Create, ImportCommit, Restore, Reset, At
  <2>6. /\ window[w].command \in Pending(window[w])
        /\ profile.revision = window[w].command.basis.revision
    BY <2>1, <2>5, ApplyEffect
  <2>. QED
    BY <2>1, <2>6 DEF SeenInv, Known
<1>2. Spec => [][Edits]_vars
  BY <1>1, InvThm, PTL DEF Spec
<1>. QED
  BY <1>2 DEF EditsWhatWasSeen

-----------------------------------------------------------------------------
(* What an import replaces can be had back. *)

\* Nothing was imported and the profile holds what was saved last, or one import
\* was and the profile and the snapshot hold it between them.
LossInv ==
  /\ budget \in [{"imports", "resets", "faults"} -> Nat] /\ budget["imports"] <= MaxImports
  /\ latest \in [Rules -> Contents]
  /\ replacedBy \subseteq {"import"} =>
       /\ profile = None => budget["imports"] = MaxImports /\ \A r \in Rules : latest[r] = None
       /\ budget["imports"] = MaxImports =>
            snapshot = None /\ (profile # None => \A r \in Rules : profile.rules[r] = latest[r])
       /\ (profile # None /\ budget["imports"] + 1 = MaxImports) => \A r \in Rules : Recoverable(r)

\* A step that stores nothing, or spends a fault.
LEMMA LossKept ==
  ASSUME LossInv, Unstored, UNCHANGED budget \/ Spend("faults")
  PROVE  LossInv'
<1>1. /\ profile' = profile /\ snapshot' = snapshot /\ latest' = latest
      /\ replacedBy' = replacedBy
  BY DEF Unstored
<1>2. /\ budget' \in [{"imports", "resets", "faults"} -> Nat]
      /\ budget'["imports"] = budget["imports"]
  BY DEF LossInv, Spend
<1>. QED
  BY <1>1, <1>2 DEF LossInv, Recoverable

\* The steps that store something.
LEMMA ApplyLoss ==
  ASSUME TypeInv, LossInv, NEW w \in Windows, Apply(w)
  PROVE  LossInv'
<1>. DEFINE c == window[w].command
            content == IF c.kind = "save" THEN c.op ELSE None
<1>1. c \in Commands
  BY WindowTypes DEF Apply, At, WindowOK
<1>2. /\ profile \in Profiles /\ c.rule \in Rules /\ content \in Contents
      /\ profile' = [revision |-> profile.revision + 1,
                     rules |-> [profile.rules EXCEPT ![c.rule] = content]]
      /\ latest' = [latest EXCEPT ![c.rule] = content]
      /\ snapshot' = snapshot /\ budget' = budget /\ replacedBy' = replacedBy
  BY <1>1 DEF Apply, MayApply, TypeInv, Commands, Contents
<1>. HIDE DEF c, content
<1>3. /\ profile.rules \in [Rules -> Contents] /\ profile # None /\ profile' # None
      /\ profile' \in Profiles
  BY <1>2, NoneAssumption DEF Profiles
<1>4. ASSUME NEW r \in Rules
      PROVE  /\ r = c.rule => profile'.rules[r] = content /\ latest'[r] = content
             /\ r # c.rule => profile'.rules[r] = profile.rules[r] /\ latest'[r] = latest[r]
  BY <1>2, <1>3 DEF LossInv
<1>5. latest' \in [Rules -> Contents]
  BY <1>2 DEF LossInv
<1>. QED
  BY <1>2, <1>3, <1>4, <1>5 DEF LossInv, Recoverable

LEMMA CreateLoss ==
  ASSUME LossInv, NEW w \in Windows, Create(w)
  PROVE  LossInv'
<1>1. /\ profile' = NewProfile /\ NewProfile # None
      /\ \A r \in Rules : NewProfile.rules[r] = None
      /\ UNCHANGED <<snapshot, latest, budget>>
      /\ profile = None => replacedBy' = replacedBy
      /\ profile # None => "create" \in replacedBy'
  BY NewProfileType, NoneAssumption DEF Create, NewProfile
<1>. QED
  BY <1>1, BoundsAssumption DEF LossInv

LEMMA ImportLoss ==
  ASSUME TypeInv, LossInv, NEW w \in Windows, ImportCommit(w)
  PROVE  LossInv'
<1>1. /\ profile # None /\ snapshot' = profile /\ latest' = latest
      /\ replacedBy \subseteq replacedBy'
      /\ budget' = [budget EXCEPT !["imports"] = @ - 1] /\ budget["imports"] > 0
      /\ profile' # None
  BY ImportedType, NoneAssumption DEF ImportCommit, Replaced, Spend
<1>2. /\ budget' \in [{"imports", "resets", "faults"} -> Nat]
      /\ budget'["imports"] = budget["imports"] - 1
  BY <1>1 DEF LossInv
<1>. QED
  BY <1>1, <1>2, BoundsAssumption DEF LossInv, Recoverable

LEMMA RestoreLoss ==
  ASSUME TypeInv, LossInv, NEW w \in Windows, Restore(w)
  PROVE  LossInv'
<1>1. /\ snapshot \in Profiles /\ snapshot # None /\ profile # None /\ snapshot' = profile
      /\ profile' = [snapshot EXCEPT !.revision = profile.revision + 1]
      /\ latest' = latest /\ budget' = budget /\ replacedBy' = replacedBy
  BY DEF Restore, TypeInv
<1>2. /\ profile \in Profiles /\ profile' = [snapshot EXCEPT !.revision = profile.revision + 1]
      /\ profile' \in Profiles /\ profile'.rules = snapshot.rules
  BY <1>1 DEF Profiles, TypeInv
<1>3. profile' # None
  BY <1>2, NoneAssumption
<1>. QED
  BY <1>1, <1>2, <1>3 DEF LossInv, Recoverable

LEMMA ResetLoss ==
  ASSUME LossInv, NEW w \in Windows, Reset(w)
  PROVE  LossInv'
<1>1. /\ "reset" \in replacedBy' /\ latest' \in [Rules -> Contents]
  BY DEF Reset, Contents
<1>2. /\ budget' \in [{"imports", "resets", "faults"} -> Nat]
      /\ budget'["imports"] = budget["imports"]
  BY DEF LossInv, Reset, Spend
<1>. QED
  BY <1>1, <1>2 DEF LossInv

LEMMA LossStep == Inv /\ LossInv /\ [Next]_vars => LossInv'
<1>. SUFFICES ASSUME Inv, LossInv, [Next]_vars PROVE LossInv'
  OBVIOUS
<1>1. CASE UNCHANGED vars
  BY <1>1 DEF vars, LossInv, Recoverable
<1>2. CASE Next
  <2>1. TypeInv
    BY DEF Inv
  <2>2. PICK w \in Windows :
          Open(w) \/ Close(w) \/ Load(w) \/ LoadFails(w) \/ Create(w) \/ Editing(w) \/ Importing(w)
    BY <1>2 DEF Next
  <2>3. CASE Apply(w) \/ Create(w) \/ ImportCommit(w) \/ Restore(w) \/ Reset(w)
    BY <2>1, <2>3, ApplyLoss, CreateLoss, ImportLoss, RestoreLoss, ResetLoss
  <2>4. CASE Unstored /\ (UNCHANGED budget \/ Spend("faults"))
    BY <2>4, LossKept
  <2>. QED
    BY <2>2, <2>3, <2>4 DEF Open, Close, Load, LoadFails, Editing, RetrySave, Answer,
       StorageFails, Refresh, RefreshFails, BeginSave, BeginRemove, Importing, Preview,
       ImportRead, ImportFails
<1>. QED
  BY <1>1, <1>2

\* One import loses nothing: what was saved last of a rule is in the profile or in the
\* snapshot, whatever was committed between the import's reading and its transaction,
\* restored or edited since (replacePortableConfiguration, restorePortableImportSnapshot).
THEOREM NothingUnrecoverableThm == Spec => []NothingUnrecoverable
<1>1. Init => LossInv
  BY BoundsAssumption DEF Init, LossInv, Contents
<1>2. Inv /\ LossInv => NothingUnrecoverable
  <2>. SUFFICES ASSUME LossInv, replacedBy \subseteq {"import"},
                       budget["imports"] + 1 >= MaxImports, profile # None, NEW r \in Rules
                PROVE  Recoverable(r)
    BY DEF NothingUnrecoverable
  <2>1. budget["imports"] \in Nat /\ budget["imports"] <= MaxImports
    BY DEF LossInv
  <2>2. budget["imports"] = MaxImports \/ budget["imports"] + 1 = MaxImports
    BY <2>1, BoundsAssumption
  <2>. QED
    BY <2>2 DEF LossInv, Recoverable
<1>. QED
  BY <1>1, <1>2, InvThm, LossStep, PTL DEF Spec

-----------------------------------------------------------------------------
(* The feeds.                                                                  *)

SlotTypes == [pc : {"free", "begin", "mark", "store"}, feed : Feeds, ofBatch : BOOLEAN]

\* The types, and that a batch in flight is carried by runs and by nothing else.
FeedsInv ==
  /\ FeedsTypeOK /\ BatchHasRun
  /\ \A s \in Slots : slot[s].pc = "free" => ~slot[s].ofBatch

\* What is at rest has no run, no batch and no slot.
LEMMA Resting ==
  /\ (CHOOSE f \in Feeds : TRUE) \in Feeds
  /\ FreeSlot \in SlotTypes /\ FreeSlot.pc = "free" /\ FreeSlot.ofBatch = FALSE
  /\ Quiet \in [pc : {"idle", "commit", "clear", "notify"}, kind : {"pause", "remove"},
                feed : Feeds, basis : 0 .. MaxRevision]
  /\ NoBatch \in [pc : {"idle", "due", "running"}, feeds : SUBSET Feeds]
  /\ NoBatch.pc = "idle" /\ NoBatch.feeds = {}
<1>1. (CHOOSE f \in Feeds : TRUE) \in Feeds
  BY FeedAssumption
<1> DEFINE any == CHOOSE f \in Feeds : TRUE
<1>2. FreeSlot = [pc |-> "free", feed |-> any, ofBatch |-> FALSE]
  BY DEF FreeSlot
<1>3. Quiet = [pc |-> "idle", kind |-> "pause", feed |-> any, basis |-> 0]
  BY DEF Quiet
<1> HIDE DEF any
<1>4. any \in Feeds
  BY <1>1 DEF any
<1> QED BY <1>1, <1>2, <1>3, <1>4, FeedAssumption DEF SlotTypes, NoBatch

\* The panel goes on, or is idle again.
LEMMA PanelTypes ==
  ASSUME FeedsInv, NEW p \in Panels, PanelNext(p)
  PROVE  FeedsTypeOK' /\ UNCHANGED <<batch, slot>>
<1> USE FeedAssumption, Resting DEF FeedsInv, FeedsTypeOK, Statuses
<1>1. CASE \E f \in Feeds, kind \in {"pause", "remove"} : Choose(p, f, kind)
  BY <1>1 DEF Choose, UnchangedProfile, UnchangedWorker
<1>2. CASE Commit(p)
  <2>1. UNCHANGED <<status, batch, slot, cancelled, asked, faults>> /\ revision' \in 0 .. MaxRevision
    BY <1>2 DEF Commit, UnchangedWorker
  <2>2. subscription' \in [Feeds -> {"active", "paused", "none"}]
    BY <1>2 DEF Commit, Toggled
  <2>3. panel' = [panel EXCEPT ![p] = Quiet] \/ panel' = [panel EXCEPT ![p].pc = "clear"]
    BY <1>2 DEF Commit, Stop
  <2> QED BY <2>1, <2>2, <2>3
<1>3. CASE CommitRefused(p)
  BY <1>3 DEF CommitRefused, Stop, UnchangedProfile, UnchangedWorker
<1>4. CASE Clear(p)
  BY <1>4 DEF Clear, Tombstone, UnchangedProfile, UnchangedWorker
<1>5. CASE Cancel(p)
  BY <1>5 DEF Cancel, Stop, UnchangedProfile
<1>6. CASE PanelFails(p)
  BY <1>6 DEF PanelFails, Stop, Fault, UnchangedProfile, UnchangedWorker
<1> QED BY <1>1, <1>2, <1>3, <1>4, <1>5, <1>6 DEF PanelNext

\* A run that is over leaves its slot, and the batch if it was its last.
LEMMA FinishKeeps ==
  ASSUME FeedsInv, NEW s \in Slots, Finish(s)
  PROVE  /\ batch' \in [pc : {"idle", "due", "running"}, feeds : SUBSET Feeds]
         /\ slot' \in [Slots -> SlotTypes] /\ BatchHasRun'
         /\ \A t \in Slots : slot'[t].pc = "free" => ~slot'[t].ofBatch
         /\ slot'[s] = FreeSlot /\ \A t \in Slots \ {s} : slot'[t] = slot[t]
         /\ batch' \in {batch, NoBatch}
<1>1. slot \in [Slots -> SlotTypes] /\ batch \in [pc : {"idle", "due", "running"}, feeds : SUBSET Feeds]
  BY DEF FeedsInv, FeedsTypeOK, SlotTypes
<1>2. slot' = [slot EXCEPT ![s] = FreeSlot]
  BY DEF Finish
<1>3. /\ slot' \in [Slots -> SlotTypes] /\ slot'[s] = FreeSlot /\ \A t \in Slots \ {s} : slot'[t] = slot[t]
  BY <1>1, <1>2, Resting
<1>4. \A t \in Slots : slot'[t].pc = "free" => ~slot'[t].ofBatch
  BY <1>3, Resting DEF FeedsInv
<1>5. batch' \in {batch, NoBatch}
  BY DEF Finish
<1>6. BatchHasRun'
  <2>1. SUFFICES ASSUME batch'.pc = "running" PROVE \E t \in Slots : slot'[t].ofBatch
    BY DEF BatchHasRun
  <2>2. batch' = batch /\ ~(slot[s].ofBatch /\ \A t \in Slots \ {s} : ~slot[t].ofBatch)
    BY <2>1, Resting DEF Finish
  <2>3. PICK t \in Slots : slot[t].ofBatch
    BY <2>1, <2>2 DEF FeedsInv, BatchHasRun
  <2>4. \E u \in Slots \ {s} : slot[u].ofBatch
    BY <2>2, <2>3
  <2> QED BY <1>3, <2>4
<1> QED BY <1>1, <1>3, <1>4, <1>5, <1>6, Resting

\* A run goes on, or is over.
LEMMA RunKeeps ==
  ASSUME FeedsInv, NEW s \in Slots, Run(s)
  PROVE  FeedsInv'
<1>1. slot \in [Slots -> SlotTypes] /\ slot[s] \in SlotTypes /\ slot[s].feed \in Feeds
  BY DEF FeedsInv, FeedsTypeOK, SlotTypes
<1>2. UNCHANGED <<panel, subscription, revision, asked, cancelled, faults>>
  BY DEF Run, Begin, Mark, Store, UnchangedPanel
<1>3. status' \in [Feeds -> Statuses]
  BY <1>1 DEF Run, Begin, Mark, Store, FeedsInv, FeedsTypeOK, Statuses
<1>4. Finish(s) \/ (\E pc \in {"mark", "store"} : slot' = [slot EXCEPT ![s].pc = pc] /\ UNCHANGED batch
                                                  /\ slot[s].pc # "free")
  BY DEF Run, Begin, Mark, Store
<1>5. CASE Finish(s)
  BY <1>2, <1>3, <1>5, FinishKeeps DEF FeedsInv, FeedsTypeOK, SlotTypes
<1>6. CASE ~Finish(s)
  <2>1. PICK pc \in {"mark", "store"} : slot' = [slot EXCEPT ![s].pc = pc] /\ UNCHANGED batch
    BY <1>4, <1>6
  <2>2. slot' \in [Slots -> SlotTypes]
    BY <1>1, <2>1 DEF SlotTypes
  <2>3. \A t \in Slots : slot'[t].ofBatch = slot[t].ofBatch /\ (slot'[t].pc = "free" => slot[t].pc = "free")
    BY <1>1, <2>1 DEF SlotTypes
  <2> QED BY <1>2, <1>3, <2>1, <2>2, <2>3 DEF FeedsInv, FeedsTypeOK, BatchHasRun, SlotTypes
<1> QED BY <1>5, <1>6

\* The runs of a batch are as many as its feeds, each of one feed that is due.
LEMMA DueRuns ==
  ASSUME FeedsInv, RunDue
  PROVE  \E due \in SUBSET batch.feeds :
           /\ batch' = IF due = {} THEN NoBatch ELSE [pc |-> "running", feeds |-> due]
           /\ slot' \in [Slots -> SlotTypes]
           /\ \A s \in Slots : slot'[s] # slot[s] =>
                slot[s].pc = "free" /\ slot'[s].pc = "begin" /\ slot'[s].ofBatch /\ slot'[s].feed \in due
           /\ due # {} => \E s \in Slots : slot'[s].ofBatch
<1>0. PICK due \in SUBSET batch.feeds : \E place \in [due -> Free] :
        /\ slot' = [s \in Slots |->
             IF \E f \in due : place[f] = s
               THEN [pc |-> "begin", feed |-> CHOOSE f \in due : place[f] = s, ofBatch |-> TRUE]
               ELSE slot[s]]
        /\ batch' = IF due = {} THEN NoBatch ELSE [pc |-> "running", feeds |-> due]
  BY DEF RunDue
<1>1. PICK place \in [due -> Free] :
        /\ slot' = [s \in Slots |->
             IF \E f \in due : place[f] = s
               THEN [pc |-> "begin", feed |-> CHOOSE f \in due : place[f] = s, ofBatch |-> TRUE]
               ELSE slot[s]]
        /\ batch' = IF due = {} THEN NoBatch ELSE [pc |-> "running", feeds |-> due]
  BY <1>0
<1>2. slot \in [Slots -> SlotTypes] /\ due \subseteq Feeds
  BY <1>1 DEF FeedsInv, FeedsTypeOK, SlotTypes
<1>3. ASSUME NEW s \in Slots, \E f \in due : place[f] = s
      PROVE  /\ slot'[s] \in SlotTypes /\ slot[s].pc = "free" /\ slot'[s].pc = "begin"
             /\ slot'[s].ofBatch = TRUE /\ slot'[s].feed \in due
  <2> DEFINE chosen == CHOOSE f \in due : place[f] = s
  <2>1. chosen \in due
    BY <1>3
  <2>2. slot'[s] = [pc |-> "begin", feed |-> chosen, ofBatch |-> TRUE]
    BY <1>1, <1>3
  <2> HIDE DEF chosen
  <2>3. s \in Free
    BY <1>1, <1>3
  <2> QED BY <1>2, <2>1, <2>2, <2>3 DEF SlotTypes, Free
<1>4. ASSUME NEW s \in Slots, ~\E f \in due : place[f] = s
      PROVE  slot'[s] = slot[s]
  BY <1>1, <1>4
<1>5. slot' \in [Slots -> SlotTypes]
  <2>1. \E g : slot' = [s \in Slots |-> g[s]] /\ \A s \in Slots : slot'[s] \in SlotTypes
    <3>1. slot' = [s \in Slots |-> slot'[s]]
      BY <1>1
    <3> QED BY <1>2, <1>3, <1>4, <3>1
  <2> QED BY <2>1
<1>6. due # {} => \E s \in Slots : slot'[s].ofBatch
  <2>1. ASSUME NEW f \in due PROVE place[f] \in Slots /\ slot'[place[f]].ofBatch
    BY <1>1, <1>3 DEF Free
  <2> QED BY <2>1
<1> QED BY <1>1, <1>3, <1>4, <1>5, <1>6

\* Every step of the feeds keeps the invariant.
LEMMA NextKeepsFeeds ==
  ASSUME FeedsInv, [FeedsNext]_feedVars
  PROVE  FeedsInv'
<1> DEFINE Batches == [pc : {"idle", "due", "running"}, feeds : SUBSET Feeds]
<1>1. /\ slot \in [Slots -> SlotTypes] /\ batch \in Batches
      /\ \A s \in Slots : slot[s].pc = "free" => ~slot[s].ofBatch
  BY DEF FeedsInv, FeedsTypeOK, SlotTypes
<1>2. CASE \E p \in Panels : PanelNext(p)
  BY <1>2, PanelTypes DEF FeedsInv, BatchHasRun
<1>3. CASE Elsewhere
  BY <1>3, FeedAssumption DEF Elsewhere, UnchangedWorker, FeedsInv, FeedsTypeOK, BatchHasRun
<1>4. CASE WakeUp
  <2>1. batch' = [pc |-> "due", feeds |-> Active] /\ UNCHANGED <<slot, panel, subscription, revision, asked, status, cancelled, faults>>
    BY <1>4 DEF WakeUp, UnchangedPanel
  <2>2. batch' \in Batches /\ batch'.pc = "due"
    BY <2>1 DEF Active
  <2> QED BY <2>1, <2>2 DEF FeedsInv, FeedsTypeOK, BatchHasRun
<1>5. CASE RunDue
  <2>1. UNCHANGED <<panel, subscription, revision, asked, status, cancelled, faults>>
    BY <1>5 DEF RunDue, UnchangedPanel
  <2>2. PICK due \in SUBSET batch.feeds :
           /\ batch' = IF due = {} THEN NoBatch ELSE [pc |-> "running", feeds |-> due]
           /\ slot' \in [Slots -> SlotTypes]
           /\ \A s \in Slots : slot'[s] # slot[s] =>
                slot[s].pc = "free" /\ slot'[s].pc = "begin" /\ slot'[s].ofBatch /\ slot'[s].feed \in due
           /\ due # {} => \E s \in Slots : slot'[s].ofBatch
    BY <1>5, DueRuns
  <2>3. batch' \in Batches /\ BatchHasRun'
    BY <1>1, <2>2, Resting DEF BatchHasRun
  <2>4. \A s \in Slots : slot'[s].pc = "free" => ~slot'[s].ofBatch
    BY <1>1, <2>2
  <2> QED BY <2>1, <2>2, <2>3, <2>4 DEF FeedsInv, FeedsTypeOK, SlotTypes
<1>6. CASE WorkerStops
  <2>1. /\ batch' = NoBatch /\ cancelled' = {} /\ slot' = [s \in Slots |-> FreeSlot]
        /\ faults' \in 0 .. MaxFeedFaults /\ UNCHANGED <<panel, subscription, revision, asked, status>>
    BY <1>6, FeedAssumption DEF WorkerStops, Fault, UnchangedPanel, FeedsInv, FeedsTypeOK
  <2>2. slot' \in [Slots -> SlotTypes] /\ \A s \in Slots : ~slot'[s].ofBatch
    BY <2>1, Resting
  <2> QED BY <2>1, <2>2, Resting DEF FeedsInv, FeedsTypeOK, BatchHasRun, SlotTypes
<1>7. CASE \E f \in Feeds, s \in Slots : Revalidate(f, s)
  <2>1. PICK f \in Feeds, s \in Free : Revalidate(f, s)
    BY <1>7 DEF Revalidate
  <2> DEFINE asking == [pc |-> "begin", feed |-> f, ofBatch |-> FALSE]
  <2>2. /\ slot' = [slot EXCEPT ![s] = asking] /\ asked' \in 0 .. MaxAsked
        /\ UNCHANGED <<panel, subscription, revision, status, batch, cancelled, faults>>
    BY <2>1, FeedAssumption DEF Revalidate, FeedsInv, FeedsTypeOK
  <2>3. asking \in SlotTypes /\ asking.pc = "begin" /\ asking.ofBatch = FALSE
    BY DEF SlotTypes
  <2> HIDE DEF asking
  <2>4. slot' \in [Slots -> SlotTypes] /\ \A t \in Slots : slot'[t] = IF t = s THEN asking ELSE slot[t]
    BY <1>1, <2>1, <2>2, <2>3 DEF Free
  <2>5. \A t \in Slots : slot'[t].ofBatch = slot[t].ofBatch
    BY <1>1, <2>1, <2>3, <2>4 DEF Free, SlotTypes
  <2>6. \A t \in Slots : slot'[t].pc = "free" => ~slot'[t].ofBatch
    BY <1>1, <2>3, <2>4
  <2> QED BY <2>2, <2>4, <2>5, <2>6 DEF FeedsInv, FeedsTypeOK, BatchHasRun, SlotTypes
<1>8. CASE \E s \in Slots : Run(s)
  BY <1>8, RunKeeps
<1>9. CASE \E s \in Slots : WriteFails(s)
  <2>1. PICK s \in Slots : WriteFails(s)
    BY <1>9
  <2>2. /\ faults' \in 0 .. MaxFeedFaults
        /\ UNCHANGED <<panel, subscription, revision, asked, status, cancelled>>
    BY <2>1, FeedAssumption DEF WriteFails, Fault, UnchangedPanel, FeedsInv, FeedsTypeOK
  <2>3. CASE slot[s].ofBatch
    <3>1. /\ slot' = [t \in Slots |-> IF t = s THEN FreeSlot ELSE [slot[t] EXCEPT !.ofBatch = FALSE]]
          /\ batch' = NoBatch
      BY <2>1, <2>3 DEF WriteFails
    <3>2. \A t \in Slots : [slot[t] EXCEPT !.ofBatch = FALSE] \in SlotTypes /\ [slot[t] EXCEPT !.ofBatch = FALSE].ofBatch = FALSE
      BY <1>1 DEF SlotTypes
    <3>3. slot' \in [Slots -> SlotTypes] /\ \A t \in Slots : ~slot'[t].ofBatch
      BY <3>1, <3>2, Resting
    <3> QED BY <2>2, <3>1, <3>3, Resting DEF FeedsInv, FeedsTypeOK, BatchHasRun, SlotTypes
  <2>4. CASE ~slot[s].ofBatch
    <3>1. slot' = [slot EXCEPT ![s] = FreeSlot] /\ UNCHANGED batch
      BY <2>1, <2>4 DEF WriteFails
    <3>2. slot' \in [Slots -> SlotTypes] /\ \A t \in Slots : slot'[t] = IF t = s THEN FreeSlot ELSE slot[t]
      BY <1>1, <3>1, Resting
    <3>3. \A t \in Slots : slot[t].ofBatch => t # s
      BY <2>4
    <3> QED BY <1>1, <2>2, <3>1, <3>2, <3>3, Resting DEF FeedsInv, FeedsTypeOK, BatchHasRun, SlotTypes
  <2> QED BY <2>3, <2>4
<1>10. CASE UNCHANGED feedVars
  BY <1>10 DEF feedVars, FeedsInv, FeedsTypeOK, BatchHasRun
<1> QED BY <1>2, <1>3, <1>4, <1>5, <1>6, <1>7, <1>8, <1>9, <1>10 DEF FeedsNext

\* The worker begins with nothing in flight.
LEMMA InitFeeds ==
  ASSUME FeedsInit
  PROVE  FeedsInv
<1>1. panel \in [Panels -> [pc : {"idle", "commit", "clear", "notify"}, kind : {"pause", "remove"},
                            feed : Feeds, basis : 0 .. MaxRevision]]
  BY Resting DEF FeedsInit
<1>2. slot \in [Slots -> SlotTypes] /\ \A s \in Slots : slot[s] = FreeSlot
  BY Resting DEF FeedsInit
<1> QED BY <1>1, <1>2, Resting, FeedAssumption
        DEF FeedsInit, FeedsInv, FeedsTypeOK, BatchHasRun, Statuses, SlotTypes

\* The subscriptions, the stored states, the panels and the runs stay well formed, for any
\* number of feeds, panels and runs.
THEOREM FeedsTypeCorrect == FeedsSpec => []FeedsTypeOK
<1>1. FeedsInv => FeedsTypeOK
  BY DEF FeedsInv
<1> QED BY <1>1, InitFeeds, NextKeepsFeeds, PTL DEF FeedsSpec

\* A batch in flight has a run in progress, whatever fails: runDue is never answered with a
\* batch that nothing carries on.
THEOREM BatchHasRunThm == FeedsSpec => []BatchHasRun
<1>1. FeedsInv => BatchHasRun
  BY DEF FeedsInv
<1> QED BY <1>1, InitFeeds, NextKeepsFeeds, PTL DEF FeedsSpec

\* A feed at rest stays so through a step, unless the profile has it back.
LEMMA RestStays ==
  ASSUME FeedsInv, [FeedsNext]_feedVars, NEW f \in Feeds, AtRest(f)
  PROVE  AtRest(f)' \/ subscription'[f] # "none"
<1> DEFINE held == \E s \in Slots : slot[s].pc # "free" /\ slot[s].feed = f
<1> DEFINE under == \E s \in Slots : slot[s].pc \in {"mark", "store"} /\ slot[s].feed = f
<1>1. /\ subscription[f] = "none" /\ status[f] = "removed"
      /\ (~held /\ f \notin batch.feeds) \/ (f \in cancelled /\ ~under)
  BY DEF AtRest, RunsOf, Issued
<1>2. AtRest(f)' <=>
        /\ subscription'[f] = "none" /\ status'[f] = "removed"
        /\ \/ ~held' /\ f \notin batch'.feeds
           \/ f \in cancelled' /\ ~under'
  BY DEF AtRest, RunsOf, Issued
<1>3. /\ slot \in [Slots -> SlotTypes] /\ status \in [Feeds -> Statuses] /\ batch.feeds \subseteq Feeds
  BY DEF FeedsInv, FeedsTypeOK, SlotTypes
\* No run of the feed begins or writes, and no batch takes it up.
<1>4. ASSUME status'[f] = "removed", cancelled \subseteq cancelled',
             \A s \in Slots : slot'[s].feed = f => \/ slot'[s] = slot[s] \/ slot'[s].pc = "free"
                                                   \/ slot'[s].pc = slot[s].pc /\ slot'[s].feed = slot[s].feed,
             f \in batch'.feeds => f \in batch.feeds
      PROVE  AtRest(f)' \/ subscription'[f] # "none"
  <2>1. (held' => held) /\ (under' => under)
    BY <1>4
  <2> QED BY <1>1, <1>2, <1>4, <2>1
<1>5. CASE \E p \in Panels : PanelNext(p)
  <2>1. PICK p \in Panels : PanelNext(p)
    BY <1>5
  <2>2. UNCHANGED <<batch, slot>>
    BY <2>1, PanelTypes
  <2>3. status'[f] = "removed" /\ cancelled \subseteq cancelled'
    BY <1>1, <1>3, <2>1 DEF PanelNext, Choose, Commit, CommitRefused, Clear, Tombstone, Cancel,
       PanelFails, UnchangedProfile, UnchangedWorker
  <2> QED BY <1>4, <2>2, <2>3
<1>6. CASE Elsewhere
  BY <1>1, <1>4, <1>6 DEF Elsewhere, UnchangedWorker
<1>7. CASE WakeUp
  <2>1. batch'.feeds = Active /\ UNCHANGED <<slot, status, cancelled>>
    BY <1>7 DEF WakeUp
  <2> QED BY <1>1, <1>4, <2>1 DEF Active
<1>8. CASE RunDue
  <2>1. UNCHANGED <<subscription, status, cancelled>>
    BY <1>8 DEF RunDue, UnchangedPanel
  <2>2. PICK due \in SUBSET batch.feeds :
           /\ batch' = IF due = {} THEN NoBatch ELSE [pc |-> "running", feeds |-> due]
           /\ \A s \in Slots : slot'[s] # slot[s] =>
                slot[s].pc = "free" /\ slot'[s].pc = "begin" /\ slot'[s].feed \in due
    BY <1>8, DueRuns
  <2>3. batch'.feeds \subseteq due
    BY <2>2, Resting
  <2>4. under' => under
    BY <2>2
  <2>5. f \notin batch.feeds => f \notin batch'.feeds /\ (held' => held)
    BY <2>2, <2>3
  <2> QED BY <1>1, <1>2, <2>1, <2>4, <2>5
<1>9. CASE WorkerStops
  <2>1. status' = status /\ batch' = NoBatch /\ slot' = [s \in Slots |-> FreeSlot] /\ subscription' = subscription
    BY <1>9 DEF WorkerStops, UnchangedPanel
  <2>2. ~held' /\ f \notin batch'.feeds
    BY <2>1, Resting
  <2> QED BY <1>1, <1>2, <2>1, <2>2
<1>10. CASE \E g \in Feeds, s \in Slots : Revalidate(g, s)
  <2>1. PICK g \in Feeds, s \in Slots : Revalidate(g, s)
    BY <1>10
  <2>2. /\ g # f /\ UNCHANGED <<status, batch, cancelled>>
        /\ slot' = [slot EXCEPT ![s] = [pc |-> "begin", feed |-> g, ofBatch |-> FALSE]]
    BY <1>1, <2>1 DEF Revalidate
  <2>3. \A t \in Slots : slot'[t] = IF t = s THEN [pc |-> "begin", feed |-> g, ofBatch |-> FALSE] ELSE slot[t]
    BY <1>3, <2>2
  <2> QED BY <1>1, <1>4, <2>2, <2>3
<1>11. CASE \E s \in Slots : Run(s)
  <2>1. PICK s \in Slots : Run(s)
    BY <1>11
  <2>2. slot[s].feed = f => slot[s].pc = "begin" /\ Told(s)
    BY <1>1, <2>1 DEF Run, Begin, Mark, Store, Told
  <2>3. status'[f] = "removed" /\ UNCHANGED <<subscription, cancelled>>
    BY <1>1, <1>3, <2>1, <2>2 DEF Run, Begin, Mark, Store, UnchangedPanel
  <2>4. CASE Finish(s)
    <3>1. /\ slot'[s] = FreeSlot /\ \A t \in Slots \ {s} : slot'[t] = slot[t]
          /\ batch' \in {batch, NoBatch}
      BY <2>1, <2>4, FinishKeeps
    <3> QED BY <1>4, <2>3, <3>1, Resting
  <2>5. CASE ~Finish(s)
    <3>1. slot[s].feed # f /\ UNCHANGED batch
      BY <2>1, <2>2, <2>5 DEF Run, Begin, Mark, Store
    <3>2. PICK pc \in {"mark", "store"} : slot' = [slot EXCEPT ![s].pc = pc]
      BY <2>1, <2>5 DEF Run, Begin, Mark, Store
    <3>3. slot'[s].feed # f /\ \A t \in Slots \ {s} : slot'[t] = slot[t]
      BY <1>3, <3>1, <3>2 DEF SlotTypes
    <3> QED BY <1>4, <2>3, <3>1, <3>3
  <2> QED BY <2>4, <2>5
<1>12. CASE \E s \in Slots : WriteFails(s)
  <2>1. PICK s \in Slots : WriteFails(s)
    BY <1>12
  <2>2. UNCHANGED <<status, subscription, cancelled>> /\ batch' \in {batch, NoBatch}
    BY <2>1 DEF WriteFails, UnchangedPanel
  <2>3. \A t \in Slots : \/ slot'[t] \in {slot[t], FreeSlot}
                         \/ slot'[t] = [slot[t] EXCEPT !.ofBatch = FALSE]
    BY <1>3, <2>1 DEF WriteFails
  <2>4. \A t \in Slots : \/ slot'[t] = slot[t] \/ slot'[t].pc = "free"
                         \/ slot'[t].pc = slot[t].pc /\ slot'[t].feed = slot[t].feed
    <3> TAKE t \in Slots
    <3>1. LET ended == [slot[t] EXCEPT !.ofBatch = FALSE] IN
          ended.pc = slot[t].pc /\ ended.feed = slot[t].feed
      BY <1>3 DEF SlotTypes
    <3> QED BY <2>3, <3>1, Resting
  <2> QED BY <1>1, <1>4, <2>2, <2>4, Resting
<1>13. CASE UNCHANGED feedVars
  BY <1>1, <1>4, <1>13 DEF feedVars
<1> QED BY <1>5, <1>6, <1>7, <1>8, <1>9, <1>10, <1>11, <1>12, <1>13 DEF FeedsNext

\* The tombstone of a removed feed that is at rest stays until the profile has the feed back,
\* whatever batches and revalidations read before the removal, and however often the worker
\* forgets that it was told.
THEOREM TombstoneStaysThm == FeedsSpec => TombstoneStays
<1> DEFINE Stays == \A f \in Feeds : AtRest(f) => \/ AtRest(f)'
                                                  \/ subscription'[f] # "none"
<1>1. FeedsInv /\ [FeedsNext]_feedVars => [Stays]_feedVars
  BY RestStays
<1> QED BY <1>1, InitFeeds, NextKeepsFeeds, PTL DEF FeedsSpec, TombstoneStays
=============================================================================
