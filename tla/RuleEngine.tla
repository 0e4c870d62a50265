----------------------------- MODULE RuleEngine -----------------------------
(* What the rules of a profile decide about an item (core/rules/engine.ts).  A   *)
(* rule is what it says and the items its key and its scope fit; a preference    *)
(* has the sign of its weight for its effect.                                    *)
EXTENDS Nothing, Naturals, FiniteSets

CONSTANTS Ids,     \* rule ids
          Bodies,  \* what a rule says: [kind, effect, enabled, on]
          Items    \* contents

Rules == [Ids -> Bodies \cup {None}]

\* The effects that each kind of rule may have.
Effects == [identity |-> {"block", "allow", "promote"}, exact |-> {"block", "allow"},
            semantic |-> {"block", "reduce", "allow", "promote"}, preference |-> {"promote", "reduce"}]

Kinds == DOMAIN Effects

\* A rule has an effect of its kind, and no rule is none.
RuleAssumption ==
  /\ None \notin Bodies
  /\ \A body \in Bodies :
       body.kind \in Kinds /\ body.effect \in Effects[body.kind] /\ body.enabled \in BOOLEAN

\* What a rule does to an item.  A preference has the sign of its weight for its
\* effect, promote or reduce.
RuleAction(body) ==
  CASE body.effect = "allow" -> "show"
    [] body.effect = "block" -> "hide"
    [] OTHER -> body.effect

\* The index: enabled rules whose key and scope fit the item.
Fitting(rules, item) ==
  {id \in Ids : rules[id] # None /\ rules[id].enabled /\ item \in rules[id].on}

OfKind(rules, item, kind) == {id \in Fitting(rules, item) : rules[id].kind = kind}

\* A slip: an exact block is looked at before the rules that allow.
SlipMatches(rules, item, scored, resolution) ==
  LET explicit == OfKind(rules, item, "identity") \cup OfKind(rules, item, "exact")
      allows == {id \in explicit : rules[id].effect = "allow"}
      blocks == {id \in explicit \ allows : rules[id].kind = "exact"}
  IN  CASE resolution = "explicit-allow" -> IF blocks = {} THEN allows ELSE {}
        [] resolution = "identity" -> OfKind(rules, item, "identity") \ allows
        [] resolution = "exact" -> OfKind(rules, item, "exact") \ allows
        [] OTHER -> OfKind(rules, item, resolution) \cap scored

\* The rules a resolution would rest on; scored are those the signals of a model
\* name with a score that counts.
Matches(rules, item, scored, resolution) ==
  LET explicit == OfKind(rules, item, "identity") \cup OfKind(rules, item, "exact")
      allows == {id \in explicit : rules[id].effect = "allow"}
  IN  CASE resolution = "explicit-allow" -> allows
        [] resolution = "identity" -> OfKind(rules, item, "identity") \ allows
        [] resolution = "exact" -> OfKind(rules, item, "exact") \ allows
        [] OTHER -> OfKind(rules, item, resolution) \cap scored

Precedence == <<"explicit-allow", "identity", "exact", "semantic", "preference">>

\* The first resolution with a rule to rest on.
Resolution(rules, item, scored) ==
  LET Met(n) == Matches(rules, item, scored, Precedence[n]) # {}
  IN  IF \E n \in 1 .. 5 : Met(n)
      THEN Precedence[CHOOSE n \in 1 .. 5 : Met(n) /\ \A k \in 1 .. n - 1 : ~Met(k)]
      ELSE "default-show"

\* Rules that disagree ask for a review.
Bucket(rules, matches) ==
  LET actions == {RuleAction(rules[id]) : id \in matches}
  IN  IF Cardinality(actions) > 1 THEN "review" ELSE CHOOSE action \in actions : TRUE

Evaluate(rules, item, scored) ==
  LET resolution == Resolution(rules, item, scored)
      matched == IF resolution = "default-show" THEN {}
                 ELSE Matches(rules, item, scored, resolution)
  IN  [resolution |-> resolution, matched |-> matched,
       action |-> IF matched = {} THEN "show" ELSE Bucket(rules, matched)]

\* The rules a model may score: it is given the semantic ones, and its topics,
\* archetypes and qualities may meet any preference.
Scorable(rules) ==
  {id \in Ids : rules[id] # None /\ rules[id].kind \in {"semantic", "preference"}}

\* A preview tells hidden from shown only.
Face(rules, item) == IF Evaluate(rules, item, {}).action = "hide" THEN "hide" ELSE "show"
\* The rules once one of them is stored, or removed.
With(rules, id, body) == [rules EXCEPT ![id] = body]
=============================================================================
