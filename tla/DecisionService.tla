--------------------------- MODULE DecisionService ---------------------------
(* A request reads the profile, decides by its rules, asks the text and then the *)
(* visual stage only when no rule decides, and looks at the confirmed similarity *)
(* batches last (application/decision-pipeline/service.ts).  The profile and the *)
(* batches change at any time.                                                   *)
EXTENDS RuleEngine

CONSTANTS Decisions,         \* decisions asked for
          MaxProfileChanges  \* bound on the changes of the profile and the batches

VARIABLES ruled,     \* the stored revision and rules
          request,   \* the decisions
          batch,     \* the items a confirmed similarity batch hides
          changed    \* changes so far

decidingVars == <<ruled, request, batch, changed>>

\* The changes are bounded.
DecidingAssumption == MaxProfileChanges \in Nat

-----------------------------------------------------------------------------
NotDecided == [pc |-> "idle", item |-> None, seen |-> None, similar |-> FALSE, decided |-> None]

\* decide reads the profile ...
Decide(q, item) ==
  /\ request[q].pc = "idle"
  /\ request' = [request EXCEPT ![q] = [NotDecided EXCEPT !.pc = "similar", !.item = item,
                                                          !.seen = ruled.rules]]
  /\ UNCHANGED <<ruled, batch, changed>>

\* Only what no rule decides goes on to a model.
DecidedBy(q, decided, next) ==
  request' = [request EXCEPT ![q].decided = decided,
                ![q].pc = IF decided.resolution = "default-show" THEN next ELSE "record"]

\* ... looks for a batch that hides the item, and evaluates the rules as they were.
Lookup(q) ==
  LET r == request[q]
      decided == Evaluate(r.seen, r.item, {})
  IN  /\ r.pc = "similar"
      /\ request' = [request EXCEPT ![q].similar = (r.item \in batch), ![q].decided = decided,
                       ![q].pc = IF decided.resolution = "default-show" THEN "text"
                                 ELSE "record"]
      /\ UNCHANGED <<ruled, batch, changed>>

\* The text stage answers with signals, or with none.
Text(q) ==
  /\ request[q].pc = "text"
  /\ \E scored \in SUBSET Scorable(request[q].seen) :
       DecidedBy(q, Evaluate(request[q].seen, request[q].item, scored), "visual")
  /\ UNCHANGED <<ruled, batch, changed>>

\* And so does the visual stage.
Visual(q) ==
  /\ request[q].pc = "visual"
  /\ \E scored \in SUBSET Scorable(request[q].seen) :
       DecidedBy(q, Evaluate(request[q].seen, request[q].item, scored), "record")
  /\ UNCHANGED <<ruled, batch, changed>>

\* A slip: the batch hides whatever is to be shown.
SlipSimilarityApplies(r) == r.similar /\ r.decided.action = "show"

\* A batch hides what no rule and no model decided.
SimilarityApplies(r) ==
  r.similar /\ r.decided.resolution = "default-show" /\ r.decided.action = "show"

\* The observation is stored and the page is answered.
Record(q) ==
  /\ request[q].pc = "record"
  /\ request' = [request EXCEPT ![q].pc = "recorded",
                   ![q].decided.action = IF SimilarityApplies(request[q]) THEN "hide" ELSE @]
  /\ UNCHANGED <<ruled, batch, changed>>

\* The answer is used and another decision may be asked for.
AnswerPage(q) ==
  /\ request[q].pc = "recorded"
  /\ request' = [request EXCEPT ![q] = NotDecided]
  /\ UNCHANGED <<ruled, batch, changed>>

-----------------------------------------------------------------------------
\* A panel, an import or a synchronization changes a rule.
ChangeRule(id, body) ==
  /\ changed < MaxProfileChanges /\ changed' = changed + 1
  /\ body # ruled.rules[id]
  /\ ruled' = [revision |-> ruled.revision + 1, rules |-> With(ruled.rules, id, body)]
  /\ UNCHANGED <<request, batch>>

\* A batch is confirmed for an item, or expires.
ChangeBatch(item) ==
  /\ changed < MaxProfileChanges /\ changed' = changed + 1
  /\ batch' = IF item \in batch THEN batch \ {item} ELSE batch \cup {item}
  /\ UNCHANGED <<ruled, request>>

DecidingInit ==
  /\ ruled \in [revision : {0}, rules : Rules]
  /\ request = [q \in Decisions |-> NotDecided]
  /\ batch = {} /\ changed = 0

DecidingNext ==
  \/ \E q \in Decisions :
       \/ \E item \in Items : Decide(q, item)
       \/ Lookup(q) \/ Text(q) \/ Visual(q) \/ Record(q) \/ AnswerPage(q)
  \/ \E id \in Ids : \E body \in Bodies \cup {None} : ChangeRule(id, body)
  \/ \E item \in Items : ChangeBatch(item)

DecidingSpec == DecidingInit /\ [][DecidingNext]_decidingVars

-----------------------------------------------------------------------------
\* Every variable keeps its type.
DecidingTypeOK ==
  /\ ruled \in [revision : 0 .. MaxProfileChanges, rules : Rules]
  /\ \A q \in Decisions : request[q].pc \in
       {"idle", "similar", "text", "visual", "record", "recorded"}
  /\ batch \subseteq Items /\ changed \in 0 .. MaxProfileChanges

\* The order the documentation gives (docs/04-classification.md:37-43), stated of
\* what was stored and not of the engine: a rule that allows an item shows it,
\* else an identity that is blocked hides it, else an exact block does, whatever
\* the models answered and whatever batches were confirmed; identities that
\* disagree ask for a review.
DocumentedOrder ==
  \A q \in Decisions : request[q].pc = "recorded" =>
    LET r == request[q]
        Some(kind, effect) == \E id \in Ids :
          /\ r.seen[id] # None /\ r.seen[id].enabled /\ r.item \in r.seen[id].on
          /\ r.seen[id].kind = kind /\ r.seen[id].effect = effect
        allowed == Some("identity", "allow") \/ Some("exact", "allow")
        source == Some("identity", "block") \/ Some("identity", "promote")
    IN  /\ allowed => r.decided.action = "show"
        /\ ~allowed /\ Some("identity", "block") =>
             r.decided.action = IF Some("identity", "promote") THEN "review" ELSE "hide"
        /\ ~allowed /\ ~source /\ Some("exact", "block") => r.decided.action = "hide"
=============================================================================
