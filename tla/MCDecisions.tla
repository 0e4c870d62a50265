---------------------------- MODULE MCDecisions ----------------------------
(* Small instances of the parts that decide about contents and of what they    *)
(* derive from them.  They share nothing here, so one behaviour is a behaviour  *)
(* of one of them, and the other parts stay in the one state they start in.     *)
EXTENDS DecisionService, RuleWorkbench, ModelRouting, ContentRuntime, Similarity, ContentGraph,
        Assistance, NativeFeedback, TLC

CONSTANTS r1, r2, k1, k2, m1, m2, i1, i2, i3, n1, n2

VARIABLE part

-----------------------------------------------------------------------------
(* The rules: what decides, and the workbench that writes them.  An item       *)
(* "plain" is a title and no more.                                            *)
RulesOf(kind, effects, on) ==
  [kind : {kind}, effect : effects, enabled : {TRUE}, on : {on}]

ExactRules == RulesOf("exact", {"allow", "block"}, {"author", "plain"})

AllRules == ExactRules \cup RulesOf("identity", {"allow", "block", "promote"}, {"author"})
                       \cup RulesOf("semantic", {"block"}, {"author", "plain"})
                       \cup RulesOf("preference", {"promote"}, {"author", "plain"})

NoRules == [revision |-> 0, rules |-> [id \in {r1, r2} |-> None]]

-----------------------------------------------------------------------------
(* A route to the cloud and one that stays on the device.                     *)
StageRoutes == [text |-> <<m1, m2>>, vision |-> <<m2>>]
Executed == [m \in {m1, m2} |-> IF m = m1 THEN "cloud" ELSE "browser"]
Limits == [b \in Budgets |-> IF b = "small" THEN 1 ELSE 2]
Price == [m \in {m1, m2} |-> IF m = m1 THEN 1 ELSE 0]

\* A page with two elements; "a" and "q" are contents of one item.
ItemOf == [content \in {"a", "b", "q"} |-> IF content = "b" THEN "other" ELSE "item"]

\* One pair of duplicates, and two pairs that are near each other.
Duplicates == {{i1, i2}}
Neighbours == {{i2, i3}, {i1, i3}}

\* A draft has a fallback, an explanation has none.
TaskRoutes == [task \in {"assistance-draft", "assistance-explain"} |->
                 IF task = "assistance-draft" THEN <<m1, m2>> ELSE <<m2>>]

-----------------------------------------------------------------------------
\* What the proofs assume of the constants.
ASSUME ConstantsOfDecisions ==
  /\ RuleAssumption /\ DecidingAssumption /\ WorkbenchAssumption /\ RoutingAssumption /\ PageAssumption
  /\ SimilarityAssumption /\ GraphAssumption /\ AssistanceAssumption /\ FeedbackAssumption

Symmetry == Permutations({k1, k2}) \cup Permutations({n1, n2})

DecisionsInit ==
  /\ part \in {"deciding", "workbench", "routing", "page", "similarity", "graph", "rebuild",
               "assistance", "feedback"}
  /\ DecidingInit /\ (part # "deciding" => ruled = NoRules)
  /\ WorkbenchInit
  /\ Init /\ (part # "routing" => ledger = NoRequests /\ budget = "small")
  /\ PageInit /\ (part # "page" => doc = [e \in Elements |-> "a"])
  /\ SimilarityInit /\ GraphInit /\ AssistanceInit /\ FeedbackInit

DecisionsNext ==
  \/ /\ part = "deciding" /\ DecidingNext
     /\ UNCHANGED <<part, workbenchVars, rVars, cVars, similarityVars, graphVars, assistanceVars, nVars>>
  \/ /\ part = "workbench" /\ WorkbenchNext
     /\ UNCHANGED <<part, decidingVars, rVars, cVars, similarityVars, graphVars, assistanceVars, nVars>>
  \/ /\ part = "routing" /\ Next
     /\ UNCHANGED <<part, decidingVars, workbenchVars, cVars, similarityVars, graphVars, assistanceVars, nVars>>
  \/ /\ part = "page" /\ PageNext
     /\ UNCHANGED <<part, decidingVars, workbenchVars, rVars, similarityVars, graphVars, assistanceVars, nVars>>
  \/ /\ part = "similarity" /\ SimilarityNext
     /\ UNCHANGED <<part, decidingVars, workbenchVars, rVars, cVars, graphVars, assistanceVars, nVars>>
  \/ /\ (part = "graph" /\ EditNext) \/ (part = "rebuild" /\ SessionNext)
     /\ UNCHANGED <<part, decidingVars, workbenchVars, rVars, cVars, similarityVars, assistanceVars, nVars>>
  \/ /\ part = "assistance" /\ AssistanceNext
     /\ UNCHANGED <<part, decidingVars, workbenchVars, rVars, cVars, similarityVars, graphVars, nVars>>
  \/ /\ part = "feedback" /\ FeedbackNext
     /\ UNCHANGED <<part, decidingVars, workbenchVars, rVars, cVars, similarityVars, graphVars,
                    assistanceVars>>

DecisionsSpec ==
  DecisionsInit
    /\ [][DecisionsNext]_<<part, decidingVars, workbenchVars, rVars, cVars, similarityVars,
                           graphVars, assistanceVars, nVars>>

=============================================================================
