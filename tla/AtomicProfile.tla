--------------------------- MODULE AtomicProfile ---------------------------
(* What the operations journal promises: every operation changes the profile at *)
(* most once and as a whole, its outcome is decided in that same step, and an    *)
(* operation is undone only by the operation that took back its effect.           *)
EXTENDS Naturals

CONSTANTS
  Ops,   \* the operation identifiers
  Items  \* the feedback examples and the rules

VARIABLES
  feedback, rules,  \* the content of the profile
  revision,         \* counts the operations that took effect
  effect            \* what each operation did, and to which item

Nothing == [kind |-> "none"]

Did(kind, i) == [kind |-> kind, item |-> i]

Init ==
  /\ feedback = {} /\ rules = {} /\ revision = 0
  /\ effect = [o \in Ops |-> Nothing]

TakesEffect(o) == effect[o] = Nothing /\ revision' = revision + 1

Record(o, i) ==
  /\ TakesEffect(o) /\ i \notin feedback
  /\ feedback' = feedback \cup {i} /\ UNCHANGED rules
  /\ effect' = [effect EXCEPT ![o] = Did("recorded", i)]

Save(o, i) ==
  /\ TakesEffect(o)
  /\ rules' = rules \cup {i} /\ UNCHANGED feedback
  /\ effect' = [effect EXCEPT ![o] = Did("saved", i)]

Undo(o, original, i) ==
  /\ TakesEffect(o) /\ i \in feedback /\ effect[original] = Did("recorded", i)
  /\ feedback' = feedback \ {i} /\ UNCHANGED rules
  /\ effect' = [effect EXCEPT ![o] = Did("removed", i), ![original] = Did("undone", i)]

Next ==
  \E o \in Ops, i \in Items :
    Record(o, i) \/ Save(o, i) \/ (\E original \in Ops \ {o} : Undo(o, original, i))

Spec == Init /\ [][Next]_<<feedback, rules, revision, effect>>
=============================================================================
