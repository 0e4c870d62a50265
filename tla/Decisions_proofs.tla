-------------------------- MODULE Decisions_proofs --------------------------
(***************************************************************************)
(* Proofs about how a page is decided on and what surrounds a decision:    *)
(* the order of the rules, the workbench that edits them, the index of     *)
(* similar items, the graph of content and the help a model gives; for any *)
(* number of rules, items, edges, calls, routes and edits.                 *)
(***************************************************************************)
EXTENDS Assistance, DecisionService, RuleWorkbench, Similarity, ContentGraph, FiniteSetTheorems,
        TLAPS

-----------------------------------------------------------------------------
(* The rules.                                                                *)

\* An enabled rule of the kind and the effect fits the item.
Says(rules, item, kind, effect) == \E id \in Fitting(rules, item) :
  rules[id].kind = kind /\ rules[id].effect = effect

Allowed(rules, item) == Says(rules, item, "identity", "allow") \/ Says(rules, item, "exact", "allow")

\* What the documentation says of a decision by those rules, and that rules made it.
InOrder(rules, item, decided) ==
  /\ Allowed(rules, item) => decided.action = "show" /\ decided.resolution # "default-show"
  /\ ~Allowed(rules, item) /\ Says(rules, item, "identity", "block") =>
       /\ decided.action = IF Says(rules, item, "identity", "promote") THEN "review" ELSE "hide"
       /\ decided.resolution # "default-show"
  /\ /\ ~Allowed(rules, item) /\ Says(rules, item, "exact", "block")
     /\ ~Says(rules, item, "identity", "block") /\ ~Says(rules, item, "identity", "promote")
     => decided.action = "hide" /\ decided.resolution # "default-show"

\* The first resolution that is met decides.
LEMMA FirstMet ==
  ASSUME NEW rules, NEW item, NEW scored, NEW n \in 1 .. 5,
         Matches(rules, item, scored, Precedence[n]) # {},
         \A k \in 1 .. n - 1 : Matches(rules, item, scored, Precedence[k]) = {}
  PROVE  Resolution(rules, item, scored) = Precedence[n]
<1> DEFINE Met(k) == Matches(rules, item, scored, Precedence[k]) # {}
           First(k) == Met(k) /\ \A j \in 1 .. k - 1 : ~Met(j)
           first == CHOOSE k \in 1 .. 5 : First(k)
<1>1. Met(n) /\ First(n)
  OBVIOUS
<1>2. Resolution(rules, item, scored) = Precedence[first]
  BY <1>1 DEF Resolution
<1> HIDE DEF Met
<1>3. first \in 1 .. 5 /\ First(first)
  BY <1>1
<1> HIDE DEF first
<1>4. first = n
  BY <1>1, <1>3
<1> QED BY <1>2, <1>4

\* The three resolutions that come first.
LEMMA FirstPlaces ==
  /\ Precedence[1] = "explicit-allow" /\ Precedence[2] = "identity" /\ Precedence[3] = "exact"
BY DEF Precedence

\* Rules that do the same are no reason for a review.
LEMMA OneAction ==
  ASSUME NEW rules, NEW matches, matches # {}, NEW action,
         \A id \in matches : RuleAction(rules[id]) = action
  PROVE  Bucket(rules, matches) = action
<1>1. {RuleAction(rules[id]) : id \in matches} = {action}
  OBVIOUS
<1>2. Cardinality({action}) = 1
  BY FS_Singleton
<1>3. ~(1 > 1)
  OBVIOUS
<1>4. (CHOOSE a \in {action} : TRUE) = action
  OBVIOUS
<1> QED BY <1>1, <1>2, <1>3, <1>4, Zenon DEF Bucket

\* Two that disagree are.
LEMMA TwoActions ==
  ASSUME NEW rules, NEW matches, NEW a, NEW b, a # b,
         {RuleAction(rules[id]) : id \in matches} = {a, b}
  PROVE  Bucket(rules, matches) = "review"
<1>1. IsFiniteSet({a}) /\ Cardinality({a}) = 1
  BY FS_Singleton
<1>2. {a} \cup {b} = {a, b} /\ b \notin {a}
  OBVIOUS
<1>3. Cardinality({a} \cup {b}) = 2
  BY <1>1, <1>2, FS_AddElement
<1>4. Cardinality({a, b}) > 1
  BY <1>2, <1>3
<1> QED BY <1>4 DEF Bucket

\* The engine decides in the documented order, whatever a model scored.
LEMMA EvaluateInOrder ==
  ASSUME RuleAssumption, NEW rules \in Rules, NEW item, NEW scored
  PROVE  InOrder(rules, item, Evaluate(rules, item, scored))
<1> DEFINE explicit == OfKind(rules, item, "identity") \cup OfKind(rules, item, "exact")
           allows == {id \in explicit : rules[id].effect = "allow"}
           decided == Evaluate(rules, item, scored)
<1>1. \A id \in Fitting(rules, item) : rules[id] \in Bodies /\ rules[id].effect \in Effects[rules[id].kind]
  BY DEF Fitting, Rules, RuleAssumption
<1>2. \A id \in Fitting(rules, item) :
        /\ rules[id].kind = "identity" => rules[id].effect \in {"block", "allow", "promote"}
        /\ rules[id].kind = "exact" => rules[id].effect \in {"block", "allow"}
  BY <1>1 DEF Effects
<1>3. /\ Matches(rules, item, scored, "explicit-allow") = allows
      /\ Matches(rules, item, scored, "identity") = OfKind(rules, item, "identity") \ allows
      /\ Matches(rules, item, scored, "exact") = OfKind(rules, item, "exact") \ allows
  BY DEF Matches
<1>4. Allowed(rules, item) <=> allows # {}
  BY DEF Allowed, Says, OfKind
<1>5. ASSUME NEW n \in 1 .. 3, Resolution(rules, item, scored) = Precedence[n],
             Matches(rules, item, scored, Precedence[n]) # {}
      PROVE  /\ decided.resolution # "default-show"
             /\ decided.action = Bucket(rules, Matches(rules, item, scored, Precedence[n]))
  <2>1. Precedence[n] # "default-show"
    BY <1>5, FirstPlaces
  <2> QED BY <1>5, <2>1 DEF Evaluate
<1>6. CASE Allowed(rules, item)
  <2>1. Matches(rules, item, scored, Precedence[1]) = allows /\ allows # {}
    BY <1>3, <1>4, <1>6, FirstPlaces
  <2>2. Resolution(rules, item, scored) = Precedence[1]
    BY <2>1, FirstMet
  <2>3. \A id \in allows : RuleAction(rules[id]) = "show"
    BY DEF RuleAction
  <2> HIDE DEF allows, decided
  <2>4. Bucket(rules, allows) = "show"
    BY <2>1, <2>3, OneAction
  <2> QED BY <1>5, <1>6, <2>1, <2>2, <2>4 DEF InOrder, decided
<1>7. CASE ~Allowed(rules, item)
  <2>0. allows = {} /\ Matches(rules, item, scored, Precedence[1]) = {}
    BY <1>3, <1>4, <1>7, FirstPlaces
  <2>1. CASE \E id \in Fitting(rules, item) : rules[id].kind = "identity"
    <3> DEFINE identities == OfKind(rules, item, "identity")
    <3>1. Matches(rules, item, scored, Precedence[2]) = identities /\ identities # {}
      BY <1>3, <2>0, <2>1, FirstPlaces DEF OfKind
    <3>2. Resolution(rules, item, scored) = Precedence[2]
      <4>1. \A k \in 1 .. 2 - 1 : Matches(rules, item, scored, Precedence[k]) = {}
        BY <2>0
      <4> QED BY <3>1, <4>1, FirstMet
    <3>3. \A id \in identities : /\ rules[id].effect \in {"block", "promote"}
                                 /\ RuleAction(rules[id]) = IF rules[id].effect = "block" THEN "hide" ELSE "promote"
      <4>1. \A id \in identities : rules[id].effect # "allow"
        BY <2>0
      <4> QED BY <1>2, <4>1 DEF OfKind, RuleAction
    <3>4. decided.resolution # "default-show" /\ decided.action = Bucket(rules, identities)
      BY <1>5, <3>1, <3>2
    <3>5. CASE Says(rules, item, "identity", "block") /\ Says(rules, item, "identity", "promote")
      <4>1. PICK b \in identities : rules[b].effect = "block"
        BY <3>5 DEF Says, OfKind
      <4>2. PICK p \in identities : rules[p].effect = "promote"
        BY <3>5 DEF Says, OfKind
      <4> HIDE DEF identities
      <4>3. {RuleAction(rules[id]) : id \in identities} = {"hide", "promote"}
        BY <3>3, <4>1, <4>2
      <4>4. Bucket(rules, identities) = "review"
        BY <4>3, TwoActions
      <4> QED BY <1>7, <3>4, <3>5, <4>4 DEF InOrder
    <3>6. CASE Says(rules, item, "identity", "block") /\ ~Says(rules, item, "identity", "promote")
      <4>1. \A id \in identities : RuleAction(rules[id]) = "hide"
        BY <3>3, <3>6 DEF Says, OfKind
      <4>2. Bucket(rules, identities) = "hide"
        BY <3>1, <4>1, OneAction
      <4> QED BY <1>7, <3>4, <3>6, <4>2 DEF InOrder
    <3>7. CASE ~Says(rules, item, "identity", "block")
      <4>1. Says(rules, item, "identity", "promote")
        BY <3>1, <3>3, <3>7 DEF Says, OfKind
      <4> QED BY <1>7, <3>7, <4>1 DEF InOrder
    <3> QED BY <3>5, <3>6, <3>7
  <2>2. CASE ~\E id \in Fitting(rules, item) : rules[id].kind = "identity"
    <3> DEFINE exacts == OfKind(rules, item, "exact")
    <3>1. Matches(rules, item, scored, Precedence[2]) = {}
      BY <1>3, <2>2, FirstPlaces DEF OfKind
    <3>2. Matches(rules, item, scored, Precedence[3]) = exacts
      BY <1>3, <2>0, FirstPlaces
    <3>3. CASE Says(rules, item, "exact", "block")
      <4>1. exacts # {}
        BY <3>3 DEF Says, OfKind
      <4>2. Resolution(rules, item, scored) = Precedence[3]
        <5>1. \A k \in 1 .. 3 - 1 : Matches(rules, item, scored, Precedence[k]) = {}
          BY <2>0, <3>1
        <5> QED BY <3>2, <4>1, <5>1, FirstMet
      <4>3. \A id \in exacts : RuleAction(rules[id]) = "hide"
        <5>1. \A id \in exacts : rules[id].effect # "allow"
          BY <2>0
        <5> QED BY <1>2, <5>1 DEF OfKind, RuleAction
      <4> HIDE DEF exacts
      <4>4. Bucket(rules, exacts) = "hide"
        BY <4>1, <4>3, OneAction
      <4>5. decided.resolution # "default-show" /\ decided.action = Bucket(rules, exacts)
        BY <1>5, <3>2, <4>1, <4>2
      <4> HIDE DEF decided
      <4> QED BY <1>7, <2>2, <4>4, <4>5 DEF InOrder, Says, decided
    <3>4. CASE ~Says(rules, item, "exact", "block")
      BY <1>7, <2>2, <3>4 DEF InOrder, Says
    <3> QED BY <3>3, <3>4
  <2> QED BY <2>1, <2>2
<1> QED BY <1>6, <1>7

\* What the engine decides is one of the actions, by one of the resolutions.
Actions == {"show", "hide", "review", "promote", "reduce"}

DecisionType == [resolution : {Precedence[n] : n \in 1 .. 5} \cup {"default-show"},
                 matched : SUBSET Ids, action : Actions]

\* A decision by rules is one the service knows.
LEMMA EvaluateType ==
  ASSUME RuleAssumption, NEW rules \in Rules, NEW item, NEW scored
  PROVE  Evaluate(rules, item, scored) \in DecisionType
<1> DEFINE resolution == Resolution(rules, item, scored)
           matched == IF resolution = "default-show" THEN {}
                      ELSE Matches(rules, item, scored, resolution)
           action == IF matched = {} THEN "show" ELSE Bucket(rules, matched)
<1>1. resolution \in {Precedence[n] : n \in 1 .. 5} \cup {"default-show"}
  <2> DEFINE Met(k) == Matches(rules, item, scored, Precedence[k]) # {}
             First(k) == Met(k) /\ \A j \in 1 .. k - 1 : ~Met(j)
             first == CHOOSE k \in 1 .. 5 : First(k)
  <2>1. resolution = IF \E n \in 1 .. 5 : Met(n) THEN Precedence[first] ELSE "default-show"
    BY DEF Resolution
  <2> HIDE DEF Met, resolution
  <2>2. ASSUME \E n \in 1 .. 5 : Met(n) PROVE \E n \in 1 .. 5 : First(n)
    <3>1. Met(1) => First(1)
      OBVIOUS
    <3>2. ~Met(1) /\ Met(2) => First(2)
      OBVIOUS
    <3>3. ~Met(1) /\ ~Met(2) /\ Met(3) => First(3)
      OBVIOUS
    <3>4. ~Met(1) /\ ~Met(2) /\ ~Met(3) /\ Met(4) => First(4)
      OBVIOUS
    <3>5. ~Met(1) /\ ~Met(2) /\ ~Met(3) /\ ~Met(4) /\ Met(5) => First(5)
      OBVIOUS
    <3> HIDE DEF First
    <3>6. Met(1) \/ Met(2) \/ Met(3) \/ Met(4) \/ Met(5)
      BY <2>2
    <3> QED BY <3>1, <3>2, <3>3, <3>4, <3>5, <3>6
  <2> HIDE DEF First
  <2>3. (\E n \in 1 .. 5 : Met(n)) => first \in 1 .. 5
    BY <2>2
  <2> HIDE DEF first
  <2> QED BY <2>1, <2>3
<1>2. matched \subseteq Fitting(rules, item)
  BY DEF Matches, OfKind
<1>3. \A id \in Fitting(rules, item) : RuleAction(rules[id]) \in Actions
  <2>1. \A id \in Fitting(rules, item) : rules[id] \in Bodies
    BY DEF Fitting, Rules
  <2>2. \A body \in Bodies : body.effect \in {"block", "allow", "promote", "reduce"}
    BY DEF RuleAssumption, Kinds, Effects
  <2> QED BY <2>1, <2>2 DEF RuleAction, Actions
<1> HIDE DEF matched
<1>4. action \in Actions
  <2>1. CASE matched # {}
    <3> DEFINE actions == {RuleAction(rules[id]) : id \in matched}
    <3>1. actions # {} /\ actions \subseteq Actions
      BY <1>2, <1>3, <2>1
    <3>2. Bucket(rules, matched) = "review" \/ Bucket(rules, matched) = CHOOSE a \in actions : TRUE
      BY DEF Bucket
    <3> HIDE DEF actions
    <3>3. (CHOOSE a \in actions : TRUE) \in Actions
      BY <3>1
    <3> QED BY <2>1, <3>2, <3>3 DEF Actions
  <2> QED BY <2>1 DEF Actions
<1>5. matched \subseteq Ids
  BY <1>2 DEF Fitting
<1>6. Evaluate(rules, item, scored) = [resolution |-> resolution, matched |-> matched, action |-> action]
  BY DEF Evaluate, matched
<1> HIDE DEF resolution, action
<1> QED BY <1>1, <1>4, <1>5, <1>6 DEF DecisionType

-----------------------------------------------------------------------------
(* The decisions.                                                            *)

RequestType ==
  [pc : {"idle", "similar", "text", "visual", "record", "recorded"}, item : Items \cup {None},
   seen : Rules \cup {None}, similar : BOOLEAN, decided : DecisionType \cup {None}]

\* A request holds the rules as it read them; what it is to record was decided by them.
RequestInOrder(r) ==
  /\ r.pc # "idle" => r.seen \in Rules
  /\ r.pc \in {"record", "recorded"} =>
       r.decided \in DecisionType /\ InOrder(r.seen, r.item, r.decided)

DecidingIInv ==
  /\ ruled \in [revision : Nat, rules : Rules] /\ request \in [Decisions -> RequestType]
  /\ \A q \in Decisions : RequestInOrder(request[q])

\* Changing one request into one in order keeps all of them in order.
LEMMA OneRequest ==
  ASSUME DecidingIInv, NEW q \in Decisions, NEW r \in RequestType, RequestInOrder(r),
         request' = [request EXCEPT ![q] = r], UNCHANGED ruled
  PROVE  DecidingIInv'
<1>1. request' \in [Decisions -> RequestType] /\ \A p \in Decisions : RequestInOrder(request'[p])
  BY DEF DecidingIInv
<1>2. \A p \in Decisions : RequestInOrder(request[p])'
  BY <1>1 DEF RequestInOrder, InOrder, Says, Allowed, Fitting
<1> QED BY <1>1, <1>2 DEF DecidingIInv

\* What was decided by the rules that were read is in order.
LEMMA DecidedKeeps ==
  ASSUME RuleAssumption, DecidingIInv, NEW q \in Decisions, request[q].pc # "idle", NEW scored,
         NEW decided, decided = Evaluate(request[q].seen, request[q].item, scored),
         NEW similar \in BOOLEAN, NEW pc \in {"text", "visual", "record"},
         request' = [request EXCEPT ![q] =
                       [@ EXCEPT !.decided = decided, !.similar = similar, !.pc = pc]],
         UNCHANGED ruled
  PROVE  DecidingIInv'
<1> DEFINE r == [request[q] EXCEPT !.decided = decided, !.similar = similar, !.pc = pc]
<1>1. request[q] \in RequestType /\ RequestInOrder(request[q]) /\ request[q].seen \in Rules
  BY DEF DecidingIInv, RequestInOrder
<1>2. decided \in DecisionType /\ InOrder(request[q].seen, request[q].item, decided)
  BY <1>1, EvaluateType, EvaluateInOrder
<1>3. r \in RequestType
  BY <1>1, <1>2 DEF RequestType
<1>4. r.seen = request[q].seen /\ r.item = request[q].item /\ r.decided = decided
  BY <1>1 DEF RequestType
<1>5. request' = [request EXCEPT ![q] = r]
  BY DEF DecidingIInv
<1> HIDE DEF r
<1> QED BY <1>1, <1>2, <1>3, <1>4, <1>5, OneRequest DEF RequestInOrder

\* A batch only decides what no rule decided.
LEMMA SimilarityOutOfOrder ==
  ASSUME NEW rules, NEW item, NEW decided, InOrder(rules, item, decided),
         decided.resolution = "default-show", NEW other
  PROVE  InOrder(rules, item, other)
BY DEF InOrder

\* Whatever the service does keeps every stored decision and every request in order.
LEMMA DecidingNextKeeps ==
  RuleAssumption /\ DecidingIInv /\ [DecidingNext]_decidingVars => DecidingIInv'
<1> SUFFICES ASSUME RuleAssumption, DecidingIInv, [DecidingNext]_decidingVars PROVE DecidingIInv'
  OBVIOUS
<1>0. /\ \A q \in Decisions : request[q] \in RequestType /\ RequestInOrder(request[q])
      /\ request \in [Decisions -> RequestType]
  BY DEF DecidingIInv
<1>1. ASSUME UNCHANGED request, ruled' \in [revision : Nat, rules : Rules] PROVE DecidingIInv'
  BY <1>1 DEF DecidingIInv, RequestInOrder, InOrder, Says, Allowed, Fitting
<1>2. ASSUME NEW q \in Decisions, NEW item \in Items, Decide(q, item) PROVE DecidingIInv'
  <2> DEFINE rules == ruled.rules
             r == [NotDecided EXCEPT !.pc = "similar", !.item = item, !.seen = rules]
  <2>1. request' = [request EXCEPT ![q] = r] /\ UNCHANGED ruled
    BY <1>2 DEF Decide
  <2>2. rules \in Rules
    BY DEF DecidingIInv
  <2> HIDE DEF rules
  <2>3. r \in RequestType /\ RequestInOrder(r)
    BY <2>2 DEF RequestType, RequestInOrder, NotDecided
  <2> HIDE DEF r
  <2> QED BY <2>1, <2>3, OneRequest
<1>3. ASSUME NEW q \in Decisions, Lookup(q) PROVE DecidingIInv'
  <2> DEFINE similar == request[q].item \in batch
             decided == Evaluate(request[q].seen, request[q].item, {})
             pc == IF decided.resolution = "default-show" THEN "text" ELSE "record"
  <2>1. pc \in {"text", "visual", "record"} /\ request[q].pc # "idle" /\ UNCHANGED ruled
        /\ similar \in BOOLEAN
    BY <1>3 DEF Lookup
  <2>2. request' = [request EXCEPT ![q] =
                      [@ EXCEPT !.decided = decided, !.similar = similar, !.pc = pc]]
    <3>1. request' = [request EXCEPT ![q].similar = similar, ![q].decided = decided, ![q].pc = pc]
      BY <1>3 DEF Lookup
    <3> HIDE DEF similar, pc, decided
    <3> QED BY <1>0, <3>1 DEF RequestType
  <2> HIDE DEF similar, pc
  <2> QED BY <2>1, <2>2, DecidedKeeps
<1>4. ASSUME NEW q \in Decisions, NEW scored, NEW next \in {"visual", "record"},
             request[q].pc # "idle", UNCHANGED ruled,
             DecidedBy(q, Evaluate(request[q].seen, request[q].item, scored), next)
      PROVE  DecidingIInv'
  <2> DEFINE similar == request[q].similar
             decided == Evaluate(request[q].seen, request[q].item, scored)
             pc == IF decided.resolution = "default-show" THEN next ELSE "record"
  <2>1. pc \in {"text", "visual", "record"} /\ similar \in BOOLEAN
    BY <1>0 DEF RequestType
  <2>2. request' = [request EXCEPT ![q] =
                      [@ EXCEPT !.decided = decided, !.similar = similar, !.pc = pc]]
    <3>1. request' = [request EXCEPT ![q].decided = decided, ![q].pc = pc]
      BY <1>4 DEF DecidedBy
    <3> HIDE DEF pc, decided
    <3> QED BY <1>0, <3>1 DEF RequestType
  <2> HIDE DEF similar, pc
  <2> QED BY <1>4, <2>1, <2>2, DecidedKeeps
<1>5. ASSUME NEW q \in Decisions, Text(q) \/ Visual(q) PROVE DecidingIInv'
  BY <1>4, <1>5 DEF Text, Visual
<1>6. ASSUME NEW q \in Decisions, Record(q) PROVE DecidingIInv'
  <2> DEFINE action == IF SimilarityApplies(request[q]) THEN "hide" ELSE request[q].decided.action
             decided == [request[q].decided EXCEPT !.action = action]
             r == [request[q] EXCEPT !.pc = "recorded", !.decided = decided]
  <2>1. request[q].pc = "record" /\ UNCHANGED ruled
    BY <1>6 DEF Record
  <2>2. request' = [request EXCEPT ![q] = r]
    BY <1>0, <1>6 DEF Record, RequestType
  <2>3. request[q].decided \in DecisionType
        /\ InOrder(request[q].seen, request[q].item, request[q].decided)
    BY <1>0, <2>1 DEF RequestInOrder
  <2>4. action \in Actions
    BY <2>3 DEF DecisionType, Actions
  <2>5. InOrder(request[q].seen, request[q].item, decided)
    <3>1. CASE SimilarityApplies(request[q])
      BY <2>3, <3>1, SimilarityOutOfOrder DEF SimilarityApplies
    <3>2. CASE ~SimilarityApplies(request[q])
      <4>1. decided = request[q].decided
        BY <2>3, <3>2 DEF DecisionType
      <4> QED BY <2>3, <4>1
    <3> QED BY <3>1, <3>2
  <2>6. decided \in DecisionType
    <3> HIDE DEF action
    <3> QED BY <2>3, <2>4 DEF DecisionType
  <2> HIDE DEF decided
  <2>7. r \in RequestType /\ r.seen = request[q].seen /\ r.item = request[q].item
        /\ r.decided = decided
    BY <1>0, <2>6 DEF RequestType
  <2> HIDE DEF r
  <2>8. RequestInOrder(r)
    BY <1>0, <2>1, <2>5, <2>6, <2>7 DEF RequestInOrder
  <2> QED BY <2>1, <2>2, <2>7, <2>8, OneRequest
<1>7. ASSUME NEW q \in Decisions, AnswerPage(q) PROVE DecidingIInv'
  <2>1. request' = [request EXCEPT ![q] = NotDecided] /\ UNCHANGED ruled
    BY <1>7 DEF AnswerPage
  <2>2. NotDecided \in RequestType /\ RequestInOrder(NotDecided)
    BY DEF RequestType, RequestInOrder, NotDecided
  <2> QED BY <2>1, <2>2, OneRequest
<1>8. ASSUME NEW id \in Ids, NEW body \in Bodies \cup {None}, ChangeRule(id, body) PROVE DecidingIInv'
  <2>1. With(ruled.rules, id, body) \in Rules
    BY DEF DecidingIInv, With, Rules
  <2>2. ruled' = [revision |-> ruled.revision + 1, rules |-> With(ruled.rules, id, body)]
        /\ UNCHANGED request
    BY <1>8 DEF ChangeRule
  <2>3. ruled.revision + 1 \in Nat
    BY DEF DecidingIInv
  <2> QED BY <1>1, <2>1, <2>2, <2>3
<1>9. ASSUME NEW item \in Items, ChangeBatch(item) PROVE DecidingIInv'
  BY <1>1, <1>9 DEF ChangeBatch, DecidingIInv
<1>10. CASE UNCHANGED decidingVars
  BY <1>1, <1>10 DEF decidingVars, DecidingIInv
<1> QED BY <1>2, <1>3, <1>5, <1>6, <1>7, <1>8, <1>9, <1>10 DEF DecidingNext

\* Nothing is decided or under way at first.
LEMMA DecidingInitIInv == DecidingInit => DecidingIInv
<1> SUFFICES ASSUME DecidingInit PROVE DecidingIInv
  OBVIOUS
<1>1. NotDecided \in RequestType /\ RequestInOrder(NotDecided)
  BY DEF RequestType, RequestInOrder, NotDecided
<1> QED BY <1>1 DEF DecidingInit, DecidingIInv

\* What is recorded follows the documented order of the rules, whatever the models scored
\* and whatever a similarity batch said (evaluateRules, DecisionRequestService.decide).
THEOREM DocumentedOrderThm == RuleAssumption /\ DecidingSpec => []DocumentedOrder
<1>1. ASSUME DecidingIInv PROVE DocumentedOrder
  <2>1. \A q \in Decisions : request[q].pc = "recorded" =>
          InOrder(request[q].seen, request[q].item, request[q].decided)
    BY <1>1 DEF DecidingIInv, RequestInOrder
  <2> QED BY <2>1 DEF DocumentedOrder, InOrder, Says, Allowed, Fitting
<1>2. RuleAssumption => RuleAssumption'
  BY DEF RuleAssumption, Kinds, Effects
<1> QED BY <1>1, <1>2, DecidingInitIInv, DecidingNextKeeps, PTL DEF DecidingSpec

\* Every change of the rules is a revision, and changes are counted.
Counted ==
  changed \in 0 .. MaxProfileChanges /\ ruled.revision <= changed /\ batch \subseteq Items

LEMMA CountedKeeps ==
  ASSUME DecidingAssumption, DecidingIInv, Counted, [DecidingNext]_decidingVars
  PROVE  Counted'
<1> USE DEF DecidingAssumption, Counted
<1>1. CASE UNCHANGED <<ruled, batch, changed>>
  BY <1>1
<1>2. ASSUME NEW id \in Ids, NEW body \in Bodies \cup {None}, ChangeRule(id, body) PROVE Counted'
  <2>1. ruled'.revision = ruled.revision + 1 /\ ruled.revision \in Nat /\ UNCHANGED batch
    BY <1>2 DEF ChangeRule, DecidingIInv
  <2> QED BY <1>2, <2>1 DEF ChangeRule
<1>3. ASSUME NEW item \in Items, ChangeBatch(item) PROVE Counted'
  <2>1. ruled.revision \in Nat
    BY DEF DecidingIInv
  <2> QED BY <1>3, <2>1 DEF ChangeBatch
<1> QED BY <1>1, <1>2, <1>3 DEF DecidingNext, decidingVars, Decide, Lookup, Text, Visual, Record,
                                AnswerPage

\* The types of the service: a revision counts the changes of the rules.
THEOREM DecidingTypeCorrect ==
  RuleAssumption /\ DecidingAssumption /\ DecidingSpec => []DecidingTypeOK
<1>1. DecidingAssumption /\ DecidingInit => Counted
  BY DEF DecidingAssumption, DecidingInit, Counted
<1>2. DecidingAssumption /\ DecidingIInv /\ Counted => DecidingTypeOK
  <2> SUFFICES ASSUME DecidingAssumption, DecidingIInv, Counted PROVE DecidingTypeOK
    OBVIOUS
  <2>1. ruled \in [revision : 0 .. MaxProfileChanges, rules : Rules]
    BY DEF DecidingAssumption, DecidingIInv, Counted
  <2> QED BY <2>1 DEF DecidingIInv, Counted, DecidingTypeOK, RequestType
<1>3. DecidingAssumption /\ RuleAssumption => DecidingAssumption' /\ RuleAssumption'
  BY DEF DecidingAssumption, RuleAssumption, Kinds, Effects
<1> QED BY <1>1, <1>2, <1>3, DecidingInitIInv, DecidingNextKeeps, CountedKeeps, PTL DEF DecidingSpec

-----------------------------------------------------------------------------
(* The workbench.                                                            *)

Profiles == [revision : Nat, rules : Rules]
DraftRules == [id : Ids, body : Bodies \cup {None}]
Faces == [before : {"hide", "show"}, after : {"hide", "show"}]
Screens == {"list", "editor", "preview"}

PanelType ==
  [screen : Screens, seen : Profiles, draft : DraftRules \cup {None},
   told : [Plain -> Faces] \cup {None}, refused : BOOLEAN,
   saved : [id : Ids, prior : Bodies \cup {None}] \cup {None}, intent : Intents \cup {None},
   held : SUBSET Intents, pc : {"ready", "sent", "committed", "refused", "lost"}]

\* The revision that a preview speaks of: the one shown, or that of the command kept.
Base(p) == IF p.intent = None THEN p.seen.revision ELSE p.intent.expected

\* While no save was refused, a preview tells what the rule does to its revision.
PreviewLegal(p, known, unsure) ==
  p.screen = "preview" =>
    /\ p.intent # None =>
         p.intent.kind = "save" /\ p.intent.id = p.draft.id /\ p.intent.body = p.draft.body
    /\ ~p.refused /\ ~unsure =>
                     /\ Base(p) <= known.revision
                     /\ Base(p) = known.revision => p.told = Told(known.rules, p.draft)

\* What is shown is stored, unless a revision was stored again since; saves are sent from
\* previews, removals from the list.
PanelLegal(p, known, unsure) ==
  /\ unsure \/ /\ p.seen.revision <= known.revision
               /\ p.seen.revision = known.revision => p.seen = known
  /\ p.screen # "list" => p.draft \in DraftRules
  /\ \A h \in p.held : h.kind = "remove"
  /\ p.pc # "ready" => /\ p.intent # None /\ p.screen # "editor"
                       /\ p.intent.kind = IF p.screen = "list" THEN "remove" ELSE "save"
  /\ PreviewLegal(p, known, unsure)

BenchIInv ==
  profile \in Profiles /\ panel \in PanelType /\ reused \in BOOLEAN /\ PanelLegal(panel, profile, reused)

\* A list that shows what is stored is legal.
LEMMA ListingLegal ==
  ASSUME NEW known \in Profiles, NEW seen \in Profiles, NEW unsure \in BOOLEAN,
         unsure \/ (seen.revision <= known.revision /\ (seen.revision = known.revision => seen = known)),
         NEW saved \in [id : Ids, prior : Bodies \cup {None}] \cup {None},
         NEW held \in SUBSET Intents, \A h \in held : h.kind = "remove"
  PROVE  Listing(seen, saved, held) \in PanelType /\ PanelLegal(Listing(seen, saved, held), known, unsure)
<1>1. Listing(seen, saved, held) \in PanelType
  BY DEF Listing, PanelType, Screens
<1> QED BY <1>1 DEF Listing, PanelLegal, PreviewLegal

\* What a preview tells is told of the invented items.
LEMMA ToldType ==
  ASSUME NEW rules, NEW draft
  PROVE  Told(rules, draft) \in [Plain -> Faces]
BY DEF Told, Face, Faces

\* A later revision makes nothing illegal: what was previewed cannot be saved any more.
LEMMA LaterProfile ==
  ASSUME NEW p \in PanelType, NEW known \in Profiles, NEW unsure \in BOOLEAN,
         PanelLegal(p, known, unsure), NEW later \in Profiles, later.revision = known.revision + 1
  PROVE  PanelLegal(p, later, unsure)
<1>1. p.seen.revision \in Nat /\ known.revision \in Nat
  BY DEF PanelType, Profiles
<1>2. unsure \/ p.seen.revision < later.revision
  BY <1>1 DEF PanelLegal
<1>3. Base(p) \in Nat
  BY <1>1 DEF Base, PanelType, Intents
<1>4. PreviewLegal(p, later, unsure)
  BY <1>1, <1>3 DEF PanelLegal, PreviewLegal
<1> QED BY <1>1, <1>2, <1>4 DEF PanelLegal

\* When a revision is stored again only the shape of the panel is sure.
LEMMA UnsurePanel ==
  ASSUME NEW p, NEW known, NEW unsure \in BOOLEAN, PanelLegal(p, known, unsure), NEW later
  PROVE  PanelLegal(p, later, TRUE)
BY DEF PanelLegal, PreviewLegal

\* A legal panel over the profile it is given is what the invariant asks for.
LEMMA FollowUp ==
  ASSUME NEW known \in Profiles, NEW p \in PanelType, NEW unsure \in BOOLEAN,
         PanelLegal(p, known, unsure), profile' = known, panel' = p, reused' = unsure
  PROVE  BenchIInv'
BY DEF BenchIInv

\* Storing one rule leaves well-formed rules.
LEMMA StoredRules ==
  ASSUME NEW rules \in Rules, NEW id \in Ids, NEW body \in Bodies \cup {None}
  PROVE  With(rules, id, body) \in Rules
BY DEF With, Rules

\* The panel with a command that is sent.
SentAs(intent) == [panel EXCEPT !.pc = "sent", !.intent = intent]

\* Sending what is shown keeps the panel legal.
LEMMA SendKeeps ==
  ASSUME WorkbenchAssumption, BenchIInv, UNCHANGED profile, UNCHANGED reused, panel.pc = "ready",
         NEW intent \in Intents, panel' = SentAs(intent),
         \/ panel.screen = "list" /\ intent.kind = "remove"
         \/ /\ panel.screen = "preview" /\ intent.kind = "save"
            /\ intent.id = panel.draft.id /\ intent.body = panel.draft.body
            /\ intent.expected = Base(panel)
  PROVE  BenchIInv'
<1> DEFINE p == [panel EXCEPT !.pc = "sent", !.intent = intent]
<1>0. /\ panel \in PanelType /\ PanelLegal(panel, profile, reused) /\ intent # None
      /\ reused \in BOOLEAN
  BY DEF BenchIInv, WorkbenchAssumption
<1>1. p \in PanelType
  BY <1>0 DEF PanelType
<1>2. /\ p.pc = "sent" /\ p.intent = intent /\ p.screen = panel.screen /\ p.seen = panel.seen
      /\ p.draft = panel.draft /\ p.told = panel.told /\ p.refused = panel.refused
      /\ p.held = panel.held
  BY <1>0 DEF PanelType
<1>3. panel' = p
  BY DEF SentAs
<1> HIDE DEF p
<1>4. PreviewLegal(p, profile, reused)
  BY <1>0, <1>2 DEF PanelLegal, PreviewLegal, Base
<1>5. PanelLegal(p, profile, reused)
  BY <1>0, <1>2, <1>4 DEF PanelLegal
<1> QED BY <1>1, <1>3, <1>5, FollowUp DEF BenchIInv

\* Whatever the panel, the background or another panel does keeps the panel legal.
LEMMA WorkbenchNextKeeps ==
  WorkbenchAssumption /\ BenchIInv /\ [WorkbenchNext]_workbenchVars => BenchIInv'
<1> SUFFICES ASSUME WorkbenchAssumption, BenchIInv, [WorkbenchNext]_workbenchVars PROVE BenchIInv'
  OBVIOUS
<1>0. profile \in Profiles /\ panel \in PanelType /\ PanelLegal(panel, profile, reused)
      /\ reused \in BOOLEAN
  BY DEF BenchIInv
<1>a. /\ panel.seen \in Profiles
      /\ reused \/ /\ panel.seen.revision <= profile.revision
                   /\ panel.seen.revision = profile.revision => panel.seen = profile
      /\ panel.held \in SUBSET Intents /\ \A h \in panel.held : h.kind = "remove"
  BY <1>0 DEF PanelType, PanelLegal
<1>b. profile.revision <= profile.revision /\ profile.revision \in Nat
  BY <1>0 DEF Profiles
<1>1. ASSUME NEW id \in Ids, Start(id) PROVE BenchIInv'
  <2> DEFINE body == panel.seen.rules[id]
             list == Listing(panel.seen, None, panel.held)
             p == [list EXCEPT !.screen = "editor", !.draft = [id |-> id, body |-> body]]
  <2>1. list \in PanelType /\ PanelLegal(list, profile, reused)
    BY <1>0, <1>a, ListingLegal
  <2>2. list.pc = "ready" /\ panel' = p /\ UNCHANGED <<profile, reused>>
    BY <1>1 DEF Start, Listing, Workbench
  <2>3. [id |-> id, body |-> body] \in DraftRules
    BY <1>a DEF Profiles, Rules, DraftRules
  <2> HIDE DEF list, body
  <2>4. p \in PanelType /\ PanelLegal(p, profile, reused)
    BY <2>1, <2>2, <2>3 DEF PanelType, PanelLegal, PreviewLegal, Screens
  <2> HIDE DEF p
  <2> QED BY <1>0, <2>2, <2>4, FollowUp
<1>2. ASSUME NEW id \in Ids, NEW body \in Bodies \cup {None}, NEW read \in 0 .. profile.revision,
             ChangeElsewhere(id, body, read)
      PROVE  BenchIInv'
  <2> DEFINE later == [revision |-> read + 1, rules |-> With(profile.rules, id, body)]
  <2>1. profile' = later /\ UNCHANGED panel /\ reused' = (reused \/ read < profile.revision)
    BY <1>2 DEF ChangeElsewhere
  <2>2. With(profile.rules, id, body) \in Rules
    BY <1>0, StoredRules DEF Profiles
  <2>3. later \in Profiles /\ later.revision = read + 1 /\ read \in Nat
    BY <1>b, <2>2 DEF Profiles
  <2> HIDE DEF later
  <2>4. CASE read = profile.revision
    <3>1. PanelLegal(panel, later, reused) /\ reused' = reused
      BY <1>0, <1>b, <2>1, <2>3, <2>4, LaterProfile
    <3> QED BY <1>0, <2>1, <2>3, <3>1, FollowUp
  <2>5. CASE read < profile.revision
    <3>1. PanelLegal(panel, later, TRUE) /\ reused' = TRUE
      BY <1>0, <2>1, <2>5, UnsurePanel
    <3> QED BY <1>0, <2>1, <2>3, <3>1, FollowUp
  <2> QED BY <1>b, <2>3, <2>4, <2>5
<1>3. ASSUME NEW body \in Drafts, SubmitRule(body) PROVE BenchIInv'
  <2> DEFINE draft == [panel.draft EXCEPT !.body = body]
             told == Told(panel.seen.rules, draft)
             p == [panel EXCEPT !.screen = "preview", !.draft = draft, !.refused = FALSE,
                                !.intent = None, !.told = told]
  <2>1. panel' = p /\ UNCHANGED <<profile, reused>> /\ panel.pc = "ready" /\ panel.screen = "editor"
    BY <1>3 DEF SubmitRule, Showing, Workbench
  <2>2. draft \in DraftRules
    BY <1>0, <2>1 DEF PanelLegal, DraftRules, WorkbenchAssumption
  <2>3. told \in [Plain -> Faces]
    BY ToldType
  <2> HIDE DEF draft
  <2>4. ~reused /\ panel.seen.revision = profile.revision => told = Told(profile.rules, draft)
    BY <1>a
  <2> HIDE DEF told
  <2>5. p \in PanelType
    BY <1>0, <2>2, <2>3 DEF PanelType, Screens
  <2>6. /\ p.pc = "ready" /\ p.intent = None /\ p.screen = "preview" /\ p.seen = panel.seen
        /\ p.draft = draft /\ p.told = told /\ p.held = panel.held
    BY <1>0, <2>1 DEF PanelType
  <2> HIDE DEF p
  <2>7. PreviewLegal(p, profile, reused)
    BY <1>a, <2>4, <2>6 DEF PreviewLegal, Base
  <2>8. PanelLegal(p, profile, reused)
    BY <1>a, <2>2, <2>6, <2>7 DEF PanelLegal
  <2> QED BY <1>0, <2>1, <2>5, <2>8, FollowUp
<1>4. CASE BackToEditor
  <2> DEFINE p == [panel EXCEPT !.screen = "editor", !.told = None]
  <2>1. panel' = p /\ UNCHANGED <<profile, reused>> /\ panel.pc = "ready" /\ panel.screen = "preview"
    BY <1>4 DEF BackToEditor, Showing, Workbench
  <2>2. p \in PanelType /\ PanelLegal(p, profile, reused)
    BY <1>0, <2>1 DEF PanelType, PanelLegal, PreviewLegal, Screens
  <2> HIDE DEF p
  <2> QED BY <1>0, <2>1, <2>2, FollowUp
<1>5. CASE CancelRule
  BY <1>0, <1>5, <1>a, ListingLegal, FollowUp DEF CancelRule, Workbench
<1>6. CASE SavePreview
  <2> DEFINE new == Intent("save", panel.draft.id, panel.draft.body)
             intent == IF panel.intent = None THEN new ELSE panel.intent
  <2>1. UNCHANGED <<profile, reused>> /\ panel.pc = "ready" /\ panel.screen = "preview"
    BY <1>6 DEF SavePreview, Showing, Workbench
  <2>2. panel' = SentAs(intent)
    <3>1. CASE panel.intent = None
      <4>1. {panel.intent} \ {None} = {}
        BY <3>1
      <4> QED BY <1>6, <3>1, <4>1 DEF SavePreview, Send, SentAs
    <3>2. CASE panel.intent # None
      <4>1. {panel.intent} \ {None} = {panel.intent} /\ (CHOOSE i \in {panel.intent} : TRUE) = panel.intent
        BY <3>2
      <4> QED BY <1>6, <3>2, <4>1 DEF SavePreview, Send, SentAs
    <3> QED BY <3>1, <3>2
  <2>3. panel.draft \in DraftRules
    BY <1>0, <2>1 DEF PanelLegal
  <2>4. new \in Intents /\ new.kind = "save" /\ new.id = panel.draft.id
        /\ new.body = panel.draft.body /\ new.expected = panel.seen.revision
    BY <1>a, <2>3 DEF Intent, Intents, DraftRules, Profiles
  <2> HIDE DEF new
  <2>5. intent \in Intents /\ intent.kind = "save" /\ intent.id = panel.draft.id
        /\ intent.body = panel.draft.body /\ intent.expected = Base(panel)
    BY <1>0, <2>1, <2>4 DEF PanelType, PanelLegal, PreviewLegal, Base
  <2> HIDE DEF intent
  <2>6. UNCHANGED profile /\ UNCHANGED reused
    BY <2>1
  <2> QED BY <2>1, <2>2, <2>5, <2>6, SendKeeps
<1>7. CASE UndoSavedRule
  <2> DEFINE kept == {intent \in panel.held : intent.id = panel.saved.id}
             new == Intent("remove", panel.saved.id, None)
             intent == IF kept = {} THEN new ELSE CHOOSE i \in kept : TRUE
  <2>1. UNCHANGED <<profile, reused>> /\ panel.pc = "ready" /\ panel.screen = "list" /\ panel.saved # None
        /\ panel' = SentAs(intent)
    BY <1>7 DEF UndoSavedRule, Showing, Workbench, Send, SentAs
  <2>2. new \in Intents /\ new.kind = "remove"
    BY <1>0, <1>a, <2>1 DEF Intent, Intents, PanelType, Profiles
  <2> HIDE DEF new
  <2>3. intent \in Intents /\ intent.kind = "remove"
    BY <1>a, <2>2
  <2> HIDE DEF intent
  <2>4. UNCHANGED profile /\ UNCHANGED reused
    BY <2>1
  <2> QED BY <2>1, <2>3, <2>4, SendKeeps
<1>8. CASE Transact
  <2> DEFINE intent == panel.intent
  <2>0. panel.pc = "sent" /\ intent # None /\ intent \in Intents
    BY <1>0, <1>8 DEF Transact, PanelLegal, PanelType
  <2>1. ASSUME NEW pc \in {"committed", "refused"}, panel' = [panel EXCEPT !.pc = pc], UNCHANGED <<profile, reused>>
        PROVE  BenchIInv'
    <3> DEFINE p == [panel EXCEPT !.pc = pc]
    <3>1. p \in PanelType /\ PanelLegal(p, profile, reused)
      BY <1>0, <2>0 DEF PanelType, PanelLegal, PreviewLegal, Base
    <3>2. panel' = p
      BY <2>1
    <3> HIDE DEF p
    <3> QED BY <1>0, <2>1, <3>1, <3>2, FollowUp
  <2>2. CASE /\ MayCommit(intent)
             /\ profile' = [revision |-> profile.revision + 1,
                            rules |-> With(profile.rules, intent.id, intent.body)]
             /\ panel' = [panel EXCEPT !.pc = "committed", !.intent.committed = TRUE,
                                       !.intent.prior = profile.rules[intent.id]]
    <3> DEFINE prior == profile.rules[intent.id]
               done == [intent EXCEPT !.committed = TRUE, !.prior = prior]
               p == [panel EXCEPT !.pc = "committed", !.intent = done]
               later == [revision |-> profile.revision + 1,
                         rules |-> With(profile.rules, intent.id, intent.body)]
    <3>1. prior \in Bodies \cup {None} /\ With(profile.rules, intent.id, intent.body) \in Rules
      BY <1>0, <2>0, StoredRules DEF Profiles, Rules, Intents
    <3>2. later \in Profiles /\ later.revision = profile.revision + 1
      BY <1>b, <3>1 DEF Profiles
    <3>3. panel' = p
      BY <1>0, <2>0, <2>2 DEF PanelType, Intents
    <3> HIDE DEF prior
    <3>4. done \in Intents /\ done.kind = intent.kind /\ done.id = intent.id
          /\ done.body = intent.body /\ done.expected = intent.expected
      BY <2>0, <3>1 DEF Intents
    <3> HIDE DEF done
    <3>5. p \in PanelType
      BY <1>0, <3>4 DEF PanelType
    <3>6. /\ p.pc = "committed" /\ p.intent = done /\ p.screen = panel.screen /\ p.seen = panel.seen
          /\ p.draft = panel.draft /\ p.told = panel.told /\ p.refused = panel.refused
          /\ p.held = panel.held
      BY <1>0 DEF PanelType
    <3> HIDE DEF p
    <3>7. done # None
      BY <3>4 DEF WorkbenchAssumption
    <3>8. PreviewLegal(p, profile, reused)
      BY <1>0, <2>0, <3>4, <3>6, <3>7 DEF PanelLegal, PreviewLegal, Base
    <3>9. PanelLegal(p, profile, reused)
      BY <1>0, <2>0, <3>4, <3>6, <3>7, <3>8 DEF PanelLegal
    <3>10. profile' = later /\ reused' = reused
      BY <1>8, <2>2 DEF Transact
    <3> HIDE DEF later
    <3> QED BY <1>0, <3>2, <3>3, <3>5, <3>9, <3>10, LaterProfile, FollowUp
  <2> QED BY <1>8, <2>1, <2>2 DEF Transact
<1>9. CASE Lose
  <2> DEFINE p == [panel EXCEPT !.pc = "lost"]
  <2>1. panel' = p /\ UNCHANGED <<profile, reused>> /\ panel.pc \in {"sent", "committed"}
    BY <1>9 DEF Lose, Workbench
  <2>2. p \in PanelType /\ PanelLegal(p, profile, reused)
    BY <1>0, <2>1 DEF PanelType, PanelLegal, PreviewLegal, Base
  <2> HIDE DEF p
  <2> QED BY <1>0, <2>1, <2>2, FollowUp
<1>c. panel.pc # "ready" => /\ panel.intent \in Intents
                            /\ panel.screen = "list" => panel.intent.kind = "remove"
  BY <1>0 DEF PanelLegal, PanelType
<1>d. Others \in SUBSET Intents /\ \A h \in Others : h.kind = "remove"
  BY <1>a DEF Others
<1>10. CASE Refresh
  <2>0. UNCHANGED profile /\ reused' \in BOOLEAN /\ panel.pc \in {"committed", "refused", "lost"}
    BY <1>0, <1>10 DEF Refresh
  <2>1. ASSUME NEW saved \in [id : Ids, prior : Bodies \cup {None}] \cup {None},
               NEW held \in SUBSET Intents, \A h \in held : h.kind = "remove",
               panel' = Listing(profile, saved, held)
        PROVE  BenchIInv'
    BY <1>0, <1>b, <2>0, <2>1, ListingLegal, FollowUp
  <2> DEFINE listing == panel.screen = "list"
             ended == IF listing THEN Others ELSE panel.held
             kept == [panel EXCEPT !.seen = profile, !.pc = "ready"]
  <2>2. ended \in SUBSET Intents /\ \A h \in ended : h.kind = "remove"
    BY <1>a, <1>d
  <2>3. kept \in PanelType
    BY <1>0 DEF PanelType
  <2>4. CASE panel.pc = "committed"
    <3> DEFINE saved == IF listing THEN None ELSE [id |-> panel.intent.id, prior |-> panel.intent.prior]
    <3>1. panel' = Listing(profile, saved, ended)
      BY <1>10, <2>4 DEF Refresh
    <3>2. saved \in [id : Ids, prior : Bodies \cup {None}] \cup {None}
      BY <1>c, <2>0 DEF Intents
    <3> HIDE DEF saved, ended
    <3> QED BY <2>1, <2>2, <3>1, <3>2
  <2>5. CASE panel.pc = "refused" /\ listing
    BY <1>10, <2>1, <2>2, <2>5 DEF Refresh
  <2>6. CASE panel.pc = "refused" /\ ~listing
    <3> DEFINE p == [kept EXCEPT !.refused = TRUE, !.intent = None]
    <3>1. panel' = p
      BY <1>10, <2>6 DEF Refresh
    <3>2. p \in PanelType /\ PanelLegal(p, profile, reused')
      BY <1>0, <1>b, <2>6 DEF PanelType, PanelLegal, PreviewLegal
    <3> HIDE DEF p
    <3> QED BY <1>0, <2>0, <3>1, <3>2, FollowUp
  <2>7. CASE panel.pc = "lost" /\ listing
    <3>1. panel' = Listing(profile, panel.saved, ended \cup {panel.intent})
      BY <1>10, <2>7 DEF Refresh
    <3>2. panel.saved \in [id : Ids, prior : Bodies \cup {None}] \cup {None}
      BY <1>0 DEF PanelType
    <3>3. ended \cup {panel.intent} \in SUBSET Intents
          /\ \A h \in ended \cup {panel.intent} : h.kind = "remove"
      BY <1>c, <2>2, <2>7
    <3> HIDE DEF ended
    <3> QED BY <2>1, <3>1, <3>2, <3>3
  <2>8. CASE panel.pc = "lost" /\ ~listing
    <3>1. panel' = kept /\ reused' = reused
      BY <1>0, <1>10, <2>8 DEF Refresh
    <3>2. PanelLegal(kept, profile, reused)
      BY <1>0, <1>b, <2>8 DEF PanelType, PanelLegal, PreviewLegal, Base
    <3> HIDE DEF kept
    <3> QED BY <1>0, <2>0, <2>3, <3>1, <3>2, FollowUp
  <2> QED BY <2>0, <2>4, <2>5, <2>6, <2>7, <2>8
<1>11. CASE RefreshFails
  <2>0. UNCHANGED <<profile, reused>> /\ panel.pc \in {"committed", "lost"}
    BY <1>11 DEF RefreshFails, Workbench
  <2>1. CASE panel.screen = "list"
    <3> DEFINE saved == IF panel.pc = "lost" THEN panel.saved ELSE None
               held == Others \cup {panel.intent}
    <3>1. panel' = Listing(panel.seen, saved, held)
      BY <1>11, <2>1 DEF RefreshFails
    <3>2. saved \in [id : Ids, prior : Bodies \cup {None}] \cup {None}
      BY <1>0 DEF PanelType
    <3>3. held \in SUBSET Intents /\ \A h \in held : h.kind = "remove"
      BY <1>c, <1>d, <2>0, <2>1
    <3> HIDE DEF saved, held
    <3> QED BY <1>0, <1>a, <2>0, <3>1, <3>2, <3>3, ListingLegal, FollowUp
  <2>2. CASE panel.screen # "list"
    <3> DEFINE p == [panel EXCEPT !.pc = "ready"]
    <3>1. panel' = p
      BY <1>11, <2>2 DEF RefreshFails
    <3>2. p \in PanelType /\ PanelLegal(p, profile, reused)
      BY <1>0, <2>0, <2>2 DEF PanelType, PanelLegal, PreviewLegal, Base
    <3> HIDE DEF p
    <3> QED BY <1>0, <2>0, <3>1, <3>2, FollowUp
  <2> QED BY <2>1, <2>2
<1>12. CASE UNCHANGED workbenchVars
  BY <1>0, <1>12, FollowUp DEF workbenchVars
<1> QED BY <1>1, <1>2, <1>3, <1>4, <1>5, <1>6, <1>7, <1>8, <1>9, <1>10, <1>11, <1>12 DEF WorkbenchNext

\* A panel that lists the rules is legal.
LEMMA WorkbenchInitIInv == WorkbenchInit => BenchIInv
<1> SUFFICES ASSUME WorkbenchInit PROVE BenchIInv
  OBVIOUS
<1>1. profile \in Profiles
  BY DEF WorkbenchInit, Profiles, Rules
<1>2. profile.revision <= profile.revision
  BY <1>1 DEF Profiles
<1> QED BY <1>1, <1>2, ListingLegal DEF WorkbenchInit, BenchIInv

\* Every change of the profile is one of the others or of a command that was sent.
Operations ==
  /\ elsewhere \in 0 .. MaxElsewhere
  /\ profile.revision <= elsewhere + MaxOperations
  /\ panel.pc = "sent" => profile.revision < elsewhere + MaxOperations

LEMMA OperationsKeep ==
  ASSUME WorkbenchAssumption, BenchIInv, Operations, [WorkbenchNext]_workbenchVars
  PROVE  Operations'
<1>0. /\ panel \in PanelType /\ profile.revision \in Nat
      /\ MaxElsewhere \in Nat /\ MaxOperations \in Nat /\ elsewhere \in Nat
  BY DEF BenchIInv, Profiles, WorkbenchAssumption, Operations
<1> USE DEF Operations
<1>1. ASSUME UNCHANGED <<profile, elsewhere>>, panel'.pc = "sent" => panel.pc = "sent" PROVE Operations'
  BY <1>1
<1>2. CASE UNCHANGED workbenchVars
  BY <1>1, <1>2 DEF workbenchVars
<1>3. ASSUME NEW id \in Ids, NEW body \in Bodies \cup {None}, NEW read \in 0 .. profile.revision,
             ChangeElsewhere(id, body, read)
      PROVE  Operations'
  <2>1. /\ profile'.revision = read + 1 /\ elsewhere' = elsewhere + 1 /\ UNCHANGED panel
        /\ elsewhere < MaxElsewhere
    BY <1>3 DEF ChangeElsewhere
  <2> QED BY <1>0, <2>1
<1>4. CASE SavePreview \/ UndoSavedRule
  <2>1. profile.revision - elsewhere < MaxOperations /\ UNCHANGED <<profile, elsewhere>>
    BY <1>4 DEF SavePreview, UndoSavedRule, Workbench
  <2> QED BY <1>0, <2>1
<1>5. CASE Transact
  <2>1. panel.pc = "sent" /\ UNCHANGED elsewhere /\ panel'.pc # "sent"
    BY <1>0, <1>5 DEF Transact, PanelType
  <2>2. profile'.revision = profile.revision + 1 \/ profile' = profile
    BY <1>5 DEF Transact
  <2> QED BY <1>0, <2>1, <2>2
<1>6. ASSUME NEW id \in Ids, Start(id) PROVE Operations'
  <2> DEFINE list == Listing(panel.seen, None, panel.held)
             draft == [id |-> id, body |-> panel.seen.rules[id]]
  <2>1. panel' = [list EXCEPT !.screen = "editor", !.draft = draft] /\ UNCHANGED <<profile, elsewhere>>
    BY <1>6 DEF Start, Workbench
  <2>2. list.pc = "ready"
    BY DEF Listing
  <2> HIDE DEF draft
  <2>3. panel'.pc = "ready"
    BY <2>1, <2>2 DEF Listing
  <2> QED BY <1>1, <2>1, <2>3
<1>7. ASSUME NEW body \in Drafts, SubmitRule(body) PROVE Operations'
  <2> DEFINE draft == [panel.draft EXCEPT !.body = body]
             told == Told(panel.seen.rules, draft)
  <2>1. panel' = [panel EXCEPT !.screen = "preview", !.draft = draft, !.refused = FALSE,
                                !.intent = None, !.told = told]
        /\ panel.pc = "ready" /\ UNCHANGED <<profile, elsewhere>>
    BY <1>7 DEF SubmitRule, Showing, Workbench
  <2> HIDE DEF draft, told
  <2>2. panel'.pc = "ready"
    BY <1>0, <2>1 DEF PanelType
  <2> QED BY <1>1, <2>1, <2>2
<1>8. CASE BackToEditor
  BY <1>0, <1>1, <1>8 DEF BackToEditor, Workbench, PanelType
<1>9. CASE CancelRule
  BY <1>1, <1>9 DEF CancelRule, Workbench, Listing
<1>10. CASE Lose
  BY <1>0, <1>1, <1>10 DEF Lose, Workbench, PanelType
<1>11. CASE Refresh \/ RefreshFails
  <2>1. ASSUME NEW seen, NEW saved, NEW held PROVE Listing(seen, saved, held).pc = "ready"
    BY DEF Listing
  <2>2. UNCHANGED <<profile, elsewhere>>
    BY <1>11 DEF Refresh, RefreshFails, Workbench
  <2> DEFINE kept == [panel EXCEPT !.seen = profile, !.pc = "ready"]
             told == [kept EXCEPT !.refused = TRUE, !.intent = None]
             still == [panel EXCEPT !.pc = "ready"]
  <2>3. \/ \E seen, saved, held : panel' = Listing(seen, saved, held)
        \/ panel' = kept \/ panel' = told \/ panel' = still
    BY <1>11 DEF Refresh, RefreshFails
  <2>4. kept.pc = "ready" /\ told.pc = "ready" /\ still.pc = "ready"
    BY <1>0 DEF PanelType
  <2> HIDE DEF kept, told, still
  <2> QED BY <1>1, <2>1, <2>2, <2>3, <2>4
<1> QED BY <1>2, <1>3, <1>4, <1>5, <1>6, <1>7, <1>8, <1>9, <1>10, <1>11 DEF WorkbenchNext

\* The types of the workbench: a revision counts what the others and its commands changed.
THEOREM WorkbenchTypeCorrect == WorkbenchAssumption /\ WorkbenchSpec => []WorkbenchTypeOK
<1>1. WorkbenchAssumption /\ WorkbenchInit => Operations
  BY DEF WorkbenchAssumption, WorkbenchInit, Operations, Listing
<1>2. WorkbenchAssumption /\ BenchIInv /\ Operations => WorkbenchTypeOK
  <2> SUFFICES ASSUME WorkbenchAssumption, BenchIInv, Operations PROVE WorkbenchTypeOK
    OBVIOUS
  <2>1. profile \in [revision : 0 .. MaxElsewhere + MaxOperations, rules : Rules]
    BY DEF WorkbenchAssumption, BenchIInv, Operations, Profiles
  <2>2. panel.seen.rules \in Rules
    BY DEF BenchIInv, PanelType, Profiles
  <2> QED BY <2>1, <2>2 DEF BenchIInv, PanelType, Screens, Operations, WorkbenchTypeOK
<1>3. WorkbenchAssumption => WorkbenchAssumption'
  BY DEF WorkbenchAssumption, Intents
<1> QED BY <1>1, <1>2, <1>3, WorkbenchInitIInv, WorkbenchNextKeeps, OperationsKeep, PTL DEF WorkbenchSpec

\* A rule that is saved does to the items of its preview what the preview told, whatever
\* others changed meanwhile and however answers were lost, unless an earlier save of the
\* same preview was refused (RuleWorkbench savePreview, transactProfile) or an import that
\* read the profile before the panel did stored a revision again (applyPreview).
THEOREM PreviewHoldsThm == WorkbenchAssumption /\ WorkbenchSpec => PreviewHolds
<1> DEFINE Held ==
      panel.pc = "sent" /\ panel.intent.kind = "save" /\ profile' # profile
        /\ panel' # panel /\ ~panel.refused /\ ~reused =>
        \A item \in Plain :
          /\ panel.told[item].before = Face(profile.rules, item)
          /\ panel.told[item].after = Face(profile'.rules, item)
<1>1. ASSUME BenchIInv, [WorkbenchNext]_workbenchVars PROVE [Held]_workbenchVars
  <2> SUFFICES ASSUME panel.pc = "sent", panel.intent.kind = "save", profile' # profile,
                      panel' # panel, ~panel.refused, ~reused, NEW item \in Plain
               PROVE  /\ panel.told[item].before = Face(profile.rules, item)
                      /\ panel.told[item].after = Face(profile'.rules, item)
    OBVIOUS
  <2>1. Transact
    <3>1. ~\E id \in Ids, body \in Bodies \cup {None}, read \in 0 .. profile.revision :
             ChangeElsewhere(id, body, read)
      BY DEF ChangeElsewhere
    <3>2. ~\E id \in Ids : Start(id)
      BY DEF Start, Workbench
    <3>4. ~\E body \in Drafts : SubmitRule(body)
      BY DEF SubmitRule, Workbench
    <3>5. ~BackToEditor /\ ~CancelRule /\ ~SavePreview /\ ~UndoSavedRule
      BY DEF BackToEditor, CancelRule, SavePreview, UndoSavedRule, Workbench
    <3>3. ~Lose /\ ~Refresh /\ ~RefreshFails /\ ~UNCHANGED workbenchVars
      BY DEF workbenchVars, Lose, Refresh, RefreshFails, Workbench
    <3> QED BY <1>1, <3>1, <3>2, <3>3, <3>4, <3>5 DEF WorkbenchNext
  <2>2. MayCommit(panel.intent)
        /\ profile' = [revision |-> profile.revision + 1,
                       rules |-> With(profile.rules, panel.intent.id, panel.intent.body)]
    BY <2>1 DEF Transact
  <2>3. panel \in PanelType /\ PanelLegal(panel, profile, reused)
    BY <1>1 DEF BenchIInv
  <2>4. panel.screen = "preview" /\ panel.intent # None
    BY <2>3 DEF PanelLegal, PanelType, Screens
  <2>5. Base(panel) = profile.revision
    BY <2>2, <2>4 DEF Base, MayCommit
  <2>6. panel.told = Told(profile.rules, panel.draft) /\ panel.intent.id = panel.draft.id
        /\ panel.intent.body = panel.draft.body
    BY <2>3, <2>4, <2>5 DEF PanelLegal, PreviewLegal
  <2>7. panel.told[item] = [before |-> Face(profile.rules, item),
                            after |-> Face(With(profile.rules, panel.draft.id, panel.draft.body), item)]
    BY <2>6 DEF Told
  <2> QED BY <2>2, <2>6, <2>7
<1>2. WorkbenchAssumption => WorkbenchAssumption'
  BY DEF WorkbenchAssumption, Intents
<1> QED BY <1>1, <1>2, WorkbenchInitIInv, WorkbenchNextKeeps, PTL DEF WorkbenchSpec, PreviewHolds

-----------------------------------------------------------------------------
(* Similarity.                                                               *)

Derived == [relations : SUBSET Pairs, suppressed : SUBSET Pairs,
            clusters : SUBSET SUBSET SimilarItems, vectors : SUBSET SimilarItems]

\* An observation names an item once it is under way, and holds what it is to store.
JobLegal(r) ==
  /\ r.phase \in Phases /\ r.todo \subseteq Pairs
  /\ r.phase # "idle" => r.item \in SimilarItems
  /\ r.phase = "storing" => r.draft \in Derived

JobType == [phase : Phases, item : SimilarItems \cup {None}, todo : SUBSET Pairs,
            aborted : BOOLEAN, draft : Derived \cup {None}]

\* Turned off means that the index is disabled, too, and holds nothing.
Off(m) == ~m.enabled => m.index = "disabled" /\ m.vectors = {}

SimilarIInv ==
  /\ memory \in Memory /\ Off(memory)
  /\ job \in [Jobs -> JobType] /\ \A j \in Jobs : JobLegal(job[j])
  /\ stored \in Derived \cup {None} /\ graphBytes \in Nat /\ CombinedBudget

\* What is derived from a memory is what can be stored.
LEMMA DerivedType ==
  ASSUME NEW m \in Memory
  PROVE  DerivedState(m) \in Derived
<1>1. ActiveRelations(m) \subseteq Pairs
  BY DEF ActiveRelations, Memory
<1>2. \A c \in Clusters(m) : c \subseteq m.observed
  BY DEF Clusters
<1>3. m.observed \subseteq SimilarItems /\ m.suppressed \subseteq Pairs /\ m.vectors \subseteq SimilarItems
  BY DEF Memory
<1>4. Clusters(m) \in SUBSET SUBSET SimilarItems
  BY <1>2, <1>3
<1> QED BY <1>1, <1>3, <1>4 DEF DerivedState, Derived

\* Inserting a vector leaves an index that is turned off as it is.
LEMMA InsertKeeps ==
  ASSUME NEW m \in Memory, Off(m), NEW i \in SimilarItems, NEW n \in Insert(m, i)
  PROVE  n \in Memory /\ Off(n)
<1>1. CASE m.index = "disabled"
  BY <1>1 DEF Insert
<1>2. CASE m.index # "disabled"
  <2>1. PICK vectors \in SUBSET SimilarItems : n = [m EXCEPT !.vectors = vectors]
    BY <1>2 DEF Insert, Memory
  <2>2. m.enabled
    BY <1>2 DEF Off, Memory
  <2> QED BY <2>1, <2>2 DEF Off, Memory
<1> QED BY <1>1, <1>2

\* A new memory is one, and is turned on or keeps nothing.
LEMMA FreshKeeps ==
  ASSUME NEW observed \in SUBSET SimilarItems
  PROVE  FreshMemory(observed) \in Memory /\ Off(FreshMemory(observed))
BY DEF FreshMemory, Memory, Off, IndexStates

\* Changing one job into a legal one keeps all of them legal.
LEMMA OneJob ==
  ASSUME SimilarIInv, NEW j \in Jobs, NEW r \in JobType, JobLegal(r), job' = [job EXCEPT ![j] = r]
  PROVE  job' \in [Jobs -> JobType] /\ \A k \in Jobs : JobLegal(job'[k])
BY DEF SimilarIInv

\* What is not changed keeps its part of the invariant.
LEMMA StoredKeeps ==
  ASSUME SimilarIInv, UNCHANGED <<stored, graphBytes>>
  PROVE  stored' \in Derived \cup {None} /\ graphBytes' \in Nat /\ CombinedBudget'
BY DEF SimilarIInv, CombinedBudget

\* The vectors of a derived state can be counted.
LEMMA VectorsCounted ==
  ASSUME SimilarityAssumption, NEW s \in Derived
  PROVE  Cardinality(s.vectors) \in Nat
<1>1. s.vectors \subseteq SimilarItems /\ IsFiniteSet(SimilarItems)
  BY DEF Derived, SimilarityAssumption
<1> QED BY <1>1, FS_Subset, FS_CardinalityType

\* Whatever one observation does keeps the memory within its bounds.
LEMMA JobStepKeeps ==
  ASSUME SimilarityAssumption, SimilarIInv, NEW j \in Jobs, SimilarityStep(j)
  PROVE  SimilarIInv'
<1>0. job[j] \in JobType /\ JobLegal(job[j]) /\ memory \in Memory /\ Off(memory)
      /\ job \in [Jobs -> JobType]
  BY DEF SimilarIInv
<1>1. ASSUME NEW r \in JobType, JobLegal(r), job' = [job EXCEPT ![j] = r],
             memory' \in Memory, Off(memory'), UNCHANGED <<stored, graphBytes>>
      PROVE  SimilarIInv'
  <2>1. job' \in [Jobs -> JobType] /\ \A k \in Jobs : JobLegal(job'[k])
    BY <1>1, OneJob
  <2>2. \A k \in Jobs : JobLegal(job[k])'
    BY <2>1 DEF JobLegal
  <2>3. Off(memory)'
    BY <1>1 DEF Off
  <2> QED BY <1>1, <2>1, <2>2, <2>3, StoredKeeps DEF SimilarIInv
<1>2. ASSUME NEW i \in SimilarItems, ObserveItem(j, i) PROVE SimilarIInv'
  <2> DEFINE phase == IF memory.enabled THEN "comparing" ELSE "deriving"
             todo == IF memory.enabled THEN ExactMatches(i, memory.observed) ELSE {}
             r == [NoJob EXCEPT !.item = i, !.phase = phase, !.todo = todo]
  <2>1. phase \in Phases \ {"idle", "storing"} /\ todo \subseteq Pairs
    BY DEF Phases, ExactMatches, SimilarityAssumption
  <2>2. job' = [job EXCEPT ![j] = r] /\ UNCHANGED <<memory, stored, graphBytes>>
    BY <1>2 DEF ObserveItem
  <2> HIDE DEF phase, todo
  <2>3. r \in JobType /\ JobLegal(r)
    BY <2>1 DEF NoJob, JobType, JobLegal, Phases
  <2> QED BY <1>0, <1>1, <2>2, <2>3
<1>3. CASE Compared(j)
  <2> DEFINE r == [job[j] EXCEPT !.phase = IF job[j].todo = {} THEN "embedding" ELSE "relating"]
             m == [memory EXCEPT !.observed = @ \cup {job[j].item}]
  <2>1. job' = [job EXCEPT ![j] = r] /\ memory' = m /\ UNCHANGED <<stored, graphBytes>>
        /\ job[j].phase = "comparing"
    BY <1>3 DEF Compared, Proceed
  <2>2. r \in JobType /\ JobLegal(r)
    BY <1>0, <2>1 DEF JobType, JobLegal, Phases
  <2>3. m \in Memory /\ Off(m)
    BY <1>0, <2>1 DEF Memory, Off, JobLegal
  <2> HIDE DEF r, m
  <2> QED BY <1>1, <2>1, <2>2, <2>3
<1>4. CASE EmbeddingFails(j) \/ Related(j)
  <2> DEFINE r == [job[j] EXCEPT !.phase = "deriving"]
  <2>1. job' = [job EXCEPT ![j] = r] /\ UNCHANGED <<memory, stored, graphBytes>>
        /\ job[j].phase # "idle"
    BY <1>4 DEF EmbeddingFails, Related, Proceed
  <2>2. r \in JobType /\ JobLegal(r)
    BY <1>0, <2>1 DEF JobType, JobLegal, Phases
  <2> HIDE DEF r
  <2> QED BY <1>0, <1>1, <2>1, <2>2
<1>5. CASE Embedded(j)
  <2> DEFINE todo == Queried(job[j].item, memory)
             r == [job[j] EXCEPT !.phase = "classifying", !.todo = todo]
  <2>1. job' = [job EXCEPT ![j] = r] /\ UNCHANGED <<memory, stored, graphBytes>>
        /\ job[j].phase = "embedding"
    BY <1>5 DEF Embedded, Proceed
  <2>2. todo \subseteq Pairs
    BY DEF Queried, SimilarityAssumption
  <2> HIDE DEF todo
  <2>3. r \in JobType /\ JobLegal(r)
    BY <1>0, <2>1, <2>2 DEF JobType, JobLegal, Phases
  <2> HIDE DEF r
  <2> QED BY <1>0, <1>1, <2>1, <2>3
<1>6. CASE Classified(j)
  <2> DEFINE r == [job[j] EXCEPT !.phase = "relating"]
  <2>1. job' = [job EXCEPT ![j] = r] /\ UNCHANGED <<stored, graphBytes>>
        /\ job[j].phase = "classifying" /\ memory' \in Insert(memory, job[j].item)
    BY <1>6 DEF Classified, Proceed
  <2>2. r \in JobType /\ JobLegal(r) /\ job[j].item \in SimilarItems
    BY <1>0, <2>1 DEF JobType, JobLegal, Phases
  <2> HIDE DEF r
  <2> QED BY <1>0, <1>1, <2>1, <2>2, InsertKeeps
<1>7. CASE StoreActiveRelation(j)
  <2>1. PICK p \in job[j].todo :
          /\ memory' = [memory EXCEPT !.relations = IF p \in memory.suppressed THEN @ ELSE @ \cup {p}]
          /\ Proceed(j, [job[j] EXCEPT !.todo = @ \ {p}])
    BY <1>7 DEF StoreActiveRelation
  <2> DEFINE r == [job[j] EXCEPT !.todo = @ \ {p}]
             relations == IF p \in memory.suppressed THEN memory.relations ELSE memory.relations \cup {p}
             m == [memory EXCEPT !.relations = relations]
  <2>2. job' = [job EXCEPT ![j] = r] /\ UNCHANGED <<stored, graphBytes>>
    BY <2>1 DEF Proceed
  <2>3. r \in JobType /\ JobLegal(r)
    BY <1>0, <2>1 DEF JobType, JobLegal
  <2>4. relations \subseteq Pairs
    BY <1>0, <2>1 DEF Memory, JobLegal
  <2>5. memory' = m
    BY <2>1
  <2> HIDE DEF relations
  <2>6. m \in Memory /\ Off(m)
    BY <1>0, <2>4 DEF Memory, Off
  <2> HIDE DEF r, m
  <2> QED BY <1>1, <2>2, <2>3, <2>5, <2>6
<1>8. CASE Derive(j)
  <2> DEFINE draft == DerivedState(memory)
             r == [job[j] EXCEPT !.phase = "storing", !.draft = draft]
  <2>1. job' = [job EXCEPT ![j] = r] /\ UNCHANGED <<memory, stored, graphBytes>>
        /\ job[j].phase = "deriving"
    BY <1>8 DEF Derive, Proceed
  <2>2. draft \in Derived
    BY <1>0, DerivedType
  <2> HIDE DEF draft
  <2>3. r \in JobType /\ JobLegal(r)
    BY <1>0, <2>1, <2>2 DEF JobType, JobLegal, Phases
  <2> HIDE DEF r
  <2> QED BY <1>0, <1>1, <2>1, <2>3
<1>9. CASE ReplaceSimilarityDerivedState(j)
  <2>1. NoJob \in JobType /\ JobLegal(NoJob)
    BY DEF NoJob, JobType, JobLegal, Phases
  <2>2. job' = [job EXCEPT ![j] = NoJob] /\ UNCHANGED <<memory, graphBytes>>
    BY <1>9 DEF ReplaceSimilarityDerivedState
  <2>3. job' \in [Jobs -> JobType] /\ \A k \in Jobs : JobLegal(job'[k])
    BY <2>1, <2>2, OneJob
  <2>4. \A k \in Jobs : JobLegal(job[k])'
    BY <2>3 DEF JobLegal
  <2>5. job[j].draft \in Derived
    BY <1>0, <1>9 DEF ReplaceSimilarityDerivedState, JobLegal
  <2>6. CASE UNCHANGED stored
    BY <1>0, <2>2, <2>3, <2>4, <2>6, StoredKeeps DEF SimilarIInv, Off
  <2>7. CASE stored' = job[j].draft /\ Fits(Cardinality(job[j].draft.vectors), graphBytes)
    <3>1. Cardinality(job[j].draft.vectors) \in Nat /\ graphBytes \in Nat /\ MaxBytes \in Nat
      BY <2>5, VectorsCounted DEF SimilarIInv, SimilarityAssumption
    <3>2. graphBytes + Cardinality(job[j].draft.vectors) <= MaxBytes
      BY <2>7, <3>1 DEF Fits
    <3>3. graphBytes + 0 <= MaxBytes
      BY <2>7, <3>1 DEF Fits
    <3>4. CombinedBudget'
      BY <2>2, <2>7, <3>2, <3>3 DEF CombinedBudget
    <3> QED BY <1>0, <2>2, <2>3, <2>4, <2>5, <2>7, <3>4 DEF SimilarIInv, Off
  <2> QED BY <1>9, <2>6, <2>7 DEF ReplaceSimilarityDerivedState
<1> QED BY <1>2, <1>3, <1>4, <1>5, <1>6, <1>7, <1>8, <1>9 DEF SimilarityStep

\* So does whatever turns the index off or on, forgets an item or loses the worker.
LEMMA SimilarNextKeeps ==
  SimilarityAssumption /\ SimilarIInv /\ [SimilarityNext]_similarityVars => SimilarIInv'
<1> SUFFICES ASSUME SimilarityAssumption, SimilarIInv, [SimilarityNext]_similarityVars
             PROVE  SimilarIInv'
  OBVIOUS
<1>0. memory \in Memory /\ Off(memory) /\ job \in [Jobs -> JobType]
      /\ (\A j \in Jobs : JobLegal(job[j])) /\ graphBytes \in Nat /\ MaxBytes \in Nat
  BY DEF SimilarIInv, SimilarityAssumption
<1>1. CASE UNCHANGED similarityVars
  BY <1>1 DEF similarityVars, SimilarIInv, CombinedBudget, Off, JobLegal
<1>2. ASSUME NEW bytes \in 0 .. MaxBytes, ReplaceGraphDerivedState(bytes) PROVE SimilarIInv'
  <2>1. UNCHANGED <<memory, job, stored>>
    BY <1>2 DEF ReplaceGraphDerivedState
  <2>2. graphBytes' \in Nat
    BY <1>0, <1>2 DEF ReplaceGraphDerivedState
  <2>3. CombinedBudget'
    <3>1. CASE UNCHANGED graphBytes
      BY <2>1, <3>1, StoredKeeps
    <3>2. CASE graphBytes' = bytes /\ Fits(IF stored = None THEN 0 ELSE Cardinality(stored.vectors), bytes)
      <4> DEFINE vectors == IF stored = None THEN 0 ELSE Cardinality(stored.vectors)
      <4>1. vectors \in Nat
        BY VectorsCounted DEF SimilarIInv
      <4>2. Fits(vectors, bytes)
        BY <3>2
      <4>3. graphBytes' + vectors <= MaxBytes => CombinedBudget'
        BY <2>1 DEF CombinedBudget
      <4> HIDE DEF vectors
      <4>4. bytes + vectors <= MaxBytes
        BY <1>0, <4>1, <4>2 DEF Fits
      <4> QED BY <3>2, <4>3, <4>4
    <3> QED BY <1>2, <3>1, <3>2 DEF ReplaceGraphDerivedState
  <2> QED BY <2>1, <2>2, <2>3 DEF SimilarIInv, Off, JobLegal
<1>3. ASSUME NEW p \in Pairs, Suppress(p) PROVE SimilarIInv'
  <2>1. UNCHANGED <<job, stored, graphBytes>> /\ memory' = [memory EXCEPT !.suppressed = @ \cup {p}]
    BY <1>3 DEF Suppress
  <2>2. memory' \in Memory /\ Off(memory)'
    BY <1>0, <2>1 DEF Memory, Off
  <2> QED BY <2>1, <2>2, StoredKeeps DEF SimilarIInv, JobLegal
<1>4. CASE Disable
  <2>1. memory' \in Memory /\ Off(memory)'
    BY <1>0, <1>4 DEF Disable, TurnedOff, FreshMemory, Memory, Off, IndexStates
  <2>2. ASSUME NEW j \in Jobs PROVE job'[j] \in JobType /\ JobLegal(job'[j])
    <3>1. job'[j] = job[j] \/ job'[j] = [job[j] EXCEPT !.aborted = TRUE]
      BY <1>4 DEF Disable
    <3> QED BY <1>0, <3>1 DEF JobType, JobLegal
  <2>3. job' \in [Jobs -> JobType]
    BY <1>4, <2>2 DEF Disable
  <2>4. \A j \in Jobs : JobLegal(job[j])'
    BY <2>2 DEF JobLegal
  <2> QED BY <1>4, <2>1, <2>3, <2>4, StoredKeeps DEF SimilarIInv, Disable
<1>5. CASE ClearDerivedIntelligence
  <2>1. UNCHANGED <<memory, job>> /\ stored' = None /\ graphBytes' = 0
    BY <1>5 DEF ClearDerivedIntelligence
  <2>2. CombinedBudget'
    BY <1>0, <2>1 DEF CombinedBudget
  <2> QED BY <2>1, <2>2 DEF SimilarIInv, Off, JobLegal
<1>6. CASE Reset
  <2>1. UNCHANGED <<job, stored, graphBytes>> /\ memory' = FreshMemory(memory.observed)
    BY <1>6 DEF Reset
  <2>2. memory' \in Memory /\ Off(memory)'
    BY <1>0, <2>1, FreshKeeps DEF Memory, Off
  <2> QED BY <2>1, <2>2, StoredKeeps DEF SimilarIInv, JobLegal
<1>7. ASSUME NEW content \in SUBSET SimilarItems, Restart(content) PROVE SimilarIInv'
  <2>1. job' = [j \in Jobs |-> NoJob] /\ UNCHANGED graphBytes
    BY <1>7 DEF Restart
  <2>2. NoJob \in JobType /\ JobLegal(NoJob)
    BY DEF NoJob, JobType, JobLegal, Phases
  <2>3. job' \in [Jobs -> JobType] /\ \A j \in Jobs : JobLegal(job[j])'
    BY <2>1, <2>2 DEF JobLegal
  <2>4. CASE stored = None
    <3>1. memory' = FreshMemory(content) /\ stored' = DerivedState(FreshMemory(content))
      BY <1>7, <2>4 DEF Restart
    <3>2. FreshMemory(content) \in Memory /\ Off(FreshMemory(content))
      BY FreshKeeps
    <3>3. stored' \in Derived /\ stored'.vectors = {}
      BY <3>1, <3>2, DerivedType DEF DerivedState, FreshMemory
    <3>4. graphBytes + 0 <= MaxBytes
      BY <2>4 DEF SimilarIInv, CombinedBudget
    <3>5. CombinedBudget'
      BY <1>0, <2>1, <3>3, <3>4, FS_EmptySet DEF CombinedBudget
    <3> QED BY <1>0, <2>1, <2>3, <3>1, <3>2, <3>3, <3>5 DEF SimilarIInv, Off
  <2>5. CASE stored # None
    <3>1. memory' = RestoreDerived(content, stored) /\ UNCHANGED stored /\ stored \in Derived
      BY <1>7, <2>5 DEF Restart, SimilarIInv
    <3>2. memory' \in Memory /\ Off(memory)'
      BY <3>1 DEF RestoreDerived, FreshMemory, Derived, Memory, Off, IndexStates
    <3> QED BY <2>1, <2>3, <3>1, <3>2, StoredKeeps DEF SimilarIInv
  <2> QED BY <2>4, <2>5
<1> QED BY <1>1, <1>2, <1>3, <1>4, <1>5, <1>6, <1>7, JobStepKeeps DEF SimilarityNext

\* An empty memory is legal.
LEMMA SimilarInitIInv == SimilarityAssumption /\ SimilarityInit => SimilarIInv
<1> SUFFICES ASSUME SimilarityAssumption, SimilarityInit PROVE SimilarIInv
  OBVIOUS
<1>1. memory \in Memory /\ Off(memory)
  BY FreshKeeps DEF SimilarityInit
<1>2. NoJob \in JobType /\ JobLegal(NoJob)
  BY DEF NoJob, JobType, JobLegal, Phases
<1>3. job \in [Jobs -> JobType] /\ \A j \in Jobs : JobLegal(job[j])
  BY <1>2 DEF SimilarityInit
<1>4. CombinedBudget
  BY DEF SimilarityInit, CombinedBudget, SimilarityAssumption
<1> QED BY <1>1, <1>3, <1>4 DEF SimilarityInit, SimilarIInv

\* What is assumed of the constants holds in every state.
LEMMA SimilarityConstant == SimilarityAssumption => SimilarityAssumption'
BY DEF SimilarityAssumption, Pairs

\* The types of similarity: what is in the database alone never exceeds the budget.
THEOREM SimilarityTypeCorrect == SimilarityAssumption /\ SimilaritySpec => []SimilarityTypeOK
<1>1. SimilarityAssumption /\ SimilarIInv => SimilarityTypeOK
  <2> SUFFICES ASSUME SimilarityAssumption, SimilarIInv PROVE SimilarityTypeOK
    OBVIOUS
  <2>1. stored # None => stored.vectors \subseteq SimilarItems /\ stored.relations \subseteq Pairs
    BY DEF SimilarIInv, Derived
  <2>2. (IF stored = None THEN 0 ELSE Cardinality(stored.vectors)) \in Nat
    <3>1. stored # None => IsFiniteSet(stored.vectors)
      BY <2>1, FS_Subset DEF SimilarityAssumption
    <3> QED BY <3>1, FS_CardinalityType
  <2>3. graphBytes \in 0 .. MaxBytes
    BY <2>2 DEF SimilarIInv, CombinedBudget, SimilarityAssumption
  <2>4. \A j \in Jobs : job[j].phase \in Phases /\ job[j].item \in SimilarItems \cup {None}
    BY DEF SimilarIInv, JobType
  <2> QED BY <2>1, <2>3, <2>4 DEF SimilarIInv, SimilarityTypeOK
<1> QED BY <1>1, SimilarInitIInv, SimilarNextKeeps, SimilarityConstant, PTL DEF SimilaritySpec

\* While similarity is turned off its index holds no vector, although observations that
\* were under way end after it (SimilarityService.disable).
THEOREM NoVectorWhileDisabledThm == SimilarityAssumption /\ SimilaritySpec => []NoVectorWhileDisabled
<1>1. SimilarIInv => NoVectorWhileDisabled
  BY DEF SimilarIInv, Off, NoVectorWhileDisabled
<1> QED BY <1>1, SimilarInitIInv, SimilarNextKeeps, SimilarityConstant, PTL DEF SimilaritySpec

\* The vectors and the graph in the database never take more than the budget they share,
\* in whatever order the two are replaced (replaceSimilarityDerivedState,
\* replaceGraphDerivedState).
THEOREM CombinedBudgetThm == SimilarityAssumption /\ SimilaritySpec => []CombinedBudget
<1>1. SimilarIInv => CombinedBudget
  BY DEF SimilarIInv
<1> QED BY <1>1, SimilarInitIInv, SimilarNextKeeps, SimilarityConstant, PTL DEF SimilaritySpec

-----------------------------------------------------------------------------
(* The content graph.                                                        *)

GraphType == [state : States, nodes : SUBSET Nodes, edges : [EdgeIds -> Edges \cup {None}],
              suppressed : SUBSET EdgeIds]

\* No edge of provenance can be gone back.
Acyclic(g) == \A e \in Stored(g) :
  g.edges[e].provenance => g.edges[e].from \notin Reached(g, g.edges[e].to)

\* Both graphs are free of cycles, and a rebuild has processed what lies before it.
GraphIInv ==
  /\ graph \in [{"active", "candidate"} -> GraphType]
  /\ Acyclic(graph["active"]) /\ Acyclic(graph["candidate"])

RebuildIInv ==
  /\ rebuild \in [state : {"pending", "running", "cancelled", "failed", "completed"},
                  cursor : 0 .. RebuildItems, at : 0 .. RebuildItems, aborted : BOOLEAN]
  /\ rebuild.cursor <= rebuild.at
  /\ \A n \in Nat : n < rebuild.at => n \in processed
  /\ \A n \in processed : n \in Nat /\ n < RebuildItems
  /\ rebuild.state = "completed" => rebuild.cursor = RebuildItems

\* What the search finds from a node is closed, ...
LEMMA ReachedClosed ==
  ASSUME GraphAssumption, NEW g \in GraphType, NEW n \in Nodes
  PROVE  Closed(g, Reached(g, n)) /\ n \in Reached(g, n) /\ Reached(g, n) \subseteq Nodes
<1>1. \A e \in Stored(g) : g.edges[e] \in Edges
  BY DEF GraphType, Stored
<1>2. n \in Reached(g, n) /\ Reached(g, n) \subseteq Nodes
  BY DEF Reached
<1>3. ASSUME NEW e \in Stored(g), g.edges[e].provenance, g.edges[e].from \in Reached(g, n)
      PROVE  g.edges[e].to \in Reached(g, n)
  <2>1. g.edges[e].to \in Nodes
    BY <1>1 DEF Edges
  <2>2. ASSUME NEW nodes \in SUBSET Nodes, n \in nodes, Closed(g, nodes)
        PROVE  g.edges[e].to \in nodes
    BY <1>3, <2>2 DEF Reached, Closed
  <2> QED BY <2>1, <2>2 DEF Reached
<1> QED BY <1>2, <1>3 DEF Closed

\* ... and what it finds from one that it found, it finds from the first.
LEMMA ReachedTransitive ==
  ASSUME NEW g, NEW a, NEW b \in Reached(g, a), NEW c \in Reached(g, b)
  PROVE  c \in Reached(g, a)
BY DEF Reached

\* An edge that does not lead back to where it starts from closes no cycle, whatever
\* edge it replaces.
LEMMA EdgeKeepsAcyclic ==
  ASSUME GraphAssumption, NEW g \in GraphType, NEW h \in GraphType, Acyclic(g),
         NEW id \in EdgeIds, NEW edge \in Edges, h.edges = [g.edges EXCEPT ![id] = edge],
         edge.provenance => edge.from \notin Reached(g, edge.to)
  PROVE  Acyclic(h)
<1> SUFFICES ASSUME NEW e \in Stored(h), h.edges[e].provenance,
                    h.edges[e].from \in Reached(h, h.edges[e].to)
             PROVE  FALSE
  BY DEF Acyclic
<1> DEFINE x == h.edges[e].from
           y == h.edges[e].to
           further == IF edge.provenance /\ edge.from \in Reached(g, y)
                      THEN Reached(g, edge.to) ELSE {}
           found == Reached(g, y) \cup further
<1>1. h.edges[e] \in Edges /\ x \in Nodes /\ y \in Nodes /\ edge.from \in Nodes /\ edge.to \in Nodes
  BY DEF GraphType, Stored, Edges
<1>2. \A d \in Stored(h) : h.edges[d] = edge \/ (d \in Stored(g) /\ h.edges[d] = g.edges[d])
  BY DEF Stored, GraphType
<1>3. /\ Closed(g, Reached(g, y)) /\ y \in Reached(g, y) /\ Reached(g, y) \subseteq Nodes
      /\ Closed(g, Reached(g, edge.to)) /\ edge.to \in Reached(g, edge.to)
      /\ Reached(g, edge.to) \subseteq Nodes
  BY <1>1, ReachedClosed
<1>4. Closed(h, found)
  <2> SUFFICES ASSUME NEW d \in Stored(h), h.edges[d].provenance, h.edges[d].from \in found
               PROVE  h.edges[d].to \in found
    BY DEF Closed
  <2>1. CASE d \in Stored(g) /\ h.edges[d] = g.edges[d]
    BY <1>3, <2>1 DEF Closed
  <2>2. CASE h.edges[d] = edge
    <3>1. edge.provenance /\ edge.from \in found
      BY <2>2
    <3>2. edge.from \in Reached(g, y)
      BY <3>1
    <3> QED BY <1>3, <2>2, <3>1, <3>2
  <2> QED BY <1>2, <2>1, <2>2
<1>5. x \in found
  <2>1. found \in SUBSET Nodes /\ y \in found
    BY <1>3
  <2> HIDE DEF found
  <2> QED BY <1>4, <2>1 DEF Reached
<1>6. CASE e \in Stored(g) /\ h.edges[e] = g.edges[e]
  <2>1. x \notin Reached(g, y)
    BY <1>6 DEF Acyclic
  <2>2. edge.provenance /\ edge.from \in Reached(g, y) /\ x \in Reached(g, edge.to)
    BY <1>5, <2>1
  <2>3. y \in Reached(g, edge.to)
    BY <1>3, <1>6, <2>2 DEF Closed
  <2> QED BY <2>2, <2>3, ReachedTransitive
<1>7. CASE h.edges[e] = edge
  BY <1>5, <1>7
<1> QED BY <1>2, <1>6, <1>7

\* Whether there are cycles depends on the edges alone.
LEMMA SameEdges ==
  ASSUME NEW g, NEW h, Acyclic(g), h.edges = g.edges
  PROVE  Acyclic(h)
BY DEF Acyclic, Reached, Closed, Stored

\* Replacing one graph by another without cycles keeps the invariant.
LEMMA EditKeeps ==
  ASSUME GraphIInv, NEW which \in {"active", "candidate"}, NEW g \in GraphType, Acyclic(g),
         EditGraph(which, g)
  PROVE  GraphIInv'
<1>1. graph' = [graph EXCEPT ![which] = g]
  BY DEF EditGraph
<1>2. graph' \in [{"active", "candidate"} -> GraphType]
  BY <1>1 DEF GraphIInv
<1>3. \A w \in {"active", "candidate"} : graph'[w] = g \/ graph'[w] = graph[w]
  BY <1>1 DEF GraphIInv
<1>4. \A w \in {"active", "candidate"} : Acyclic(graph'[w])
  BY <1>3 DEF GraphIInv
<1>5. Acyclic(graph["active"])' /\ Acyclic(graph["candidate"])'
  BY <1>4 DEF Acyclic, Reached, Closed, Stored
<1> QED BY <1>2, <1>5 DEF GraphIInv

\* No edge, no cycle.
LEMMA EmptyAcyclic ==
  ASSUME GraphAssumption, NEW state \in States
  PROVE  [Empty EXCEPT !.state = state] \in GraphType /\ Acyclic([Empty EXCEPT !.state = state])
         /\ Empty \in GraphType /\ Acyclic(Empty)
<1>1. Empty \in GraphType /\ [Empty EXCEPT !.state = state] \in GraphType
  BY DEF Empty, GraphType, States
<1>2. Stored(Empty) = {} /\ Stored([Empty EXCEPT !.state = state]) = {}
  BY DEF Empty, Stored
<1> QED BY <1>1, <1>2 DEF Acyclic

\* Whatever edits the graph keeps both of its copies free of cycles.
LEMMA EditNextKeeps == GraphAssumption /\ GraphIInv /\ EditNext => GraphIInv'
<1> SUFFICES ASSUME GraphAssumption, GraphIInv, EditNext PROVE GraphIInv'
  OBVIOUS
<1>1. \A which \in {"active", "candidate"} : graph[which] \in GraphType /\ Acyclic(graph[which])
  BY DEF GraphIInv
<1>2. ASSUME NEW which \in {"active", "candidate"}, NEW nodes \in SUBSET Nodes,
             UpsertNodes(which, nodes)
      PROVE  GraphIInv'
  <2> DEFINE g == [graph[which] EXCEPT !.nodes = @ \cup nodes]
  <2>1. g \in GraphType /\ g.edges = graph[which].edges
    BY <1>1 DEF GraphType
  <2>2. EditGraph(which, g)
    BY <1>2 DEF UpsertNodes
  <2> HIDE DEF g
  <2>3. Acyclic(g)
    BY <1>1, <2>1, SameEdges
  <2> QED BY <2>1, <2>2, <2>3, EditKeeps
<1>3. ASSUME NEW which \in {"active", "candidate"}, NEW e \in EdgeIds, NEW edge \in Edges,
             UpsertEdge(which, e, edge)
      PROVE  GraphIInv'
  <2> DEFINE g == [graph[which] EXCEPT !.edges[e] = edge]
  <2>1. g \in GraphType /\ g.edges = [graph[which].edges EXCEPT ![e] = edge]
    BY <1>1 DEF GraphType
  <2>2. EditGraph(which, g) /\ (edge.provenance => edge.from \notin Reached(graph[which], edge.to))
    BY <1>3 DEF UpsertEdge, HasPath
  <2> HIDE DEF g
  <2>3. Acyclic(g)
    BY <1>1, <2>1, <2>2, EdgeKeepsAcyclic
  <2> QED BY <2>1, <2>2, <2>3, EditKeeps
<1>4. ASSUME NEW e \in EdgeIds, SuppressEdge(e) PROVE GraphIInv'
  <2> DEFINE g == [graph.active EXCEPT !.suppressed = @ \cup {e}]
  <2>1. g \in GraphType /\ g.edges = graph["active"].edges
    BY <1>1 DEF GraphType
  <2>2. EditGraph("active", g)
    BY <1>4 DEF SuppressEdge
  <2> HIDE DEF g
  <2>3. Acyclic(g)
    BY <1>1, <2>1, SameEdges
  <2> QED BY <2>1, <2>2, <2>3, EditKeeps
<1>5. CASE MarkRebuilding
  <2> DEFINE g == [graph.active EXCEPT !.state = "rebuilding"]
  <2>1. g \in GraphType /\ g.edges = graph["active"].edges
    BY <1>1 DEF GraphType, States
  <2>2. EditGraph("active", g)
    BY <1>5 DEF MarkRebuilding
  <2> HIDE DEF g
  <2>3. Acyclic(g)
    BY <1>1, <2>1, SameEdges
  <2> QED BY <2>1, <2>2, <2>3, EditKeeps
<1>6. CASE ReplaceGeneration
  <2> DEFINE g == [graph.candidate EXCEPT !.suppressed = {}]
  <2>1. g \in GraphType /\ g.edges = graph["candidate"].edges
    BY <1>1 DEF GraphType
  <2>2. EditGraph("active", g)
    BY <1>6 DEF ReplaceGeneration
  <2> HIDE DEF g
  <2>3. Acyclic(g)
    BY <1>1, <2>1, SameEdges
  <2> QED BY <2>1, <2>2, <2>3, EditKeeps
<1>7. CASE DisableGraph
  BY <1>7, EmptyAcyclic, EditKeeps DEF DisableGraph, States
<1> QED BY <1>2, <1>3, <1>4, <1>5, <1>6, <1>7 DEF EditNext

\* Whatever a rebuild does keeps what it has processed before its cursor.
LEMMA SessionNextKeeps == GraphAssumption /\ RebuildIInv /\ SessionNext => RebuildIInv'
<1> SUFFICES ASSUME GraphAssumption, RebuildIInv, SessionNext PROVE RebuildIInv'
  OBVIOUS
<1>0. RebuildItems \in Nat /\ BatchSize \in Nat \ {0}
  BY DEF GraphAssumption
<1>1. CASE Run
  <2>1. rebuild' = [rebuild EXCEPT !.state = "running", !.at = rebuild.cursor, !.aborted = FALSE]
    BY <1>1 DEF Run
  <2>2. /\ rebuild'.state = "running" /\ rebuild'.at = rebuild.cursor
        /\ rebuild'.cursor = rebuild.cursor /\ UNCHANGED processed
    BY <1>1, <2>1 DEF Run, RebuildIInv
  <2>3. rebuild' \in [state : {"pending", "running", "cancelled", "failed", "completed"},
                      cursor : 0 .. RebuildItems, at : 0 .. RebuildItems, aborted : BOOLEAN]
    BY <2>1 DEF RebuildIInv
  <2> QED BY <1>0, <2>2, <2>3 DEF RebuildIInv
<1>2. CASE ProcessItem
  BY <1>0, <1>2 DEF ProcessItem, KeepsGraphs, BatchEnd, RebuildIInv
<1>3. CASE Checkpoint
  BY <1>0, <1>3 DEF Checkpoint, KeepsGraphs, BatchEnd, RebuildIInv
<1>4. CASE Completed
  BY <1>0, <1>4 DEF Completed, KeepsGraphs, RebuildIInv
<1>5. CASE Cancel
  BY <1>0, <1>5 DEF Cancel, KeepsGraphs, RebuildIInv
<1>6. CASE StopsShort
  BY <1>0, <1>6 DEF StopsShort, KeepsGraphs, Checkpointed, RebuildIInv
<1> QED BY <1>1, <1>2, <1>3, <1>4, <1>5, <1>6 DEF SessionNext

\* Edits leave the rebuild alone and the rebuild leaves the graphs alone.
LEMMA GraphNextKeeps ==
  GraphAssumption /\ GraphIInv /\ RebuildIInv /\ [GraphNext]_graphVars => GraphIInv' /\ RebuildIInv'
<1> SUFFICES ASSUME GraphAssumption, GraphIInv, RebuildIInv, [GraphNext]_graphVars
             PROVE  GraphIInv' /\ RebuildIInv'
  OBVIOUS
<1>1. ASSUME UNCHANGED graph PROVE GraphIInv'
  BY <1>1 DEF GraphIInv, Acyclic, Reached, Closed, Stored
<1>2. ASSUME UNCHANGED <<rebuild, processed>> PROVE RebuildIInv'
  BY <1>2 DEF RebuildIInv
<1>3. CASE EditNext
  <2>1. UNCHANGED <<rebuild, processed>>
    BY <1>3 DEF EditNext, UpsertNodes, UpsertEdge, SuppressEdge, MarkRebuilding, ReplaceGeneration,
                DisableGraph, EditGraph
  <2> QED BY <1>2, <1>3, <2>1, EditNextKeeps
<1>4. CASE SessionNext
  <2>1. UNCHANGED graph
    BY <1>4 DEF SessionNext, Run, ProcessItem, Checkpoint, Completed, Cancel, StopsShort, KeepsGraphs
  <2> QED BY <1>1, <1>4, <2>1, SessionNextKeeps
<1>5. CASE UNCHANGED graphVars
  BY <1>1, <1>2, <1>5 DEF graphVars
<1> QED BY <1>3, <1>4, <1>5 DEF GraphNext

\* An empty graph and a rebuild not begun are legal.
LEMMA GraphInitIInv == GraphAssumption /\ GraphInit => GraphIInv /\ RebuildIInv
<1> SUFFICES ASSUME GraphAssumption, GraphInit PROVE GraphIInv /\ RebuildIInv
  OBVIOUS
<1>1. Empty \in GraphType /\ Acyclic(Empty)
  BY EmptyAcyclic DEF States
<1>2. GraphIInv
  BY <1>1 DEF GraphInit, GraphIInv
<1>3. RebuildIInv
  BY DEF GraphAssumption, GraphInit, RebuildIInv
<1> QED BY <1>2, <1>3

\* The types of the graphs and of the rebuild.
THEOREM GraphTypeCorrect == GraphAssumption /\ GraphSpec => []GraphTypeOK
<1>1. GraphIInv /\ RebuildIInv => GraphTypeOK
  BY DEF GraphIInv, RebuildIInv, GraphTypeOK, GraphType
<1>2. GraphAssumption => GraphAssumption'
  BY DEF GraphAssumption, Edges
<1> QED BY <1>1, <1>2, GraphInitIInv, GraphNextKeeps, PTL DEF GraphSpec

\* Edges are replaced and whole graphs are, each checked on its own: no content ever
\* derives from itself (LocalContentGraph).
THEOREM ProvenanceAcyclicThm == GraphAssumption /\ GraphSpec => []ProvenanceAcyclic
<1>1. GraphIInv => ProvenanceAcyclic
  BY DEF GraphIInv, Acyclic, ProvenanceAcyclic
<1>2. GraphAssumption => GraphAssumption'
  BY DEF GraphAssumption, Edges
<1> QED BY <1>1, <1>2, GraphInitIInv, GraphNextKeeps, PTL DEF GraphSpec

\* However often a rebuild was cancelled, failed and was resumed, it is only reported as
\* complete when it went through every item (GraphRebuildSession).
THEOREM CompletedIsCompleteThm == GraphAssumption /\ GraphSpec => []CompletedIsComplete
<1>1. ASSUME GraphAssumption, RebuildIInv PROVE CompletedIsComplete
  <2>1. \A n : n \in processed => n \in 0 .. RebuildItems - 1
    BY <1>1 DEF GraphAssumption, RebuildIInv
  <2>2. ASSUME rebuild.state = "completed", NEW n \in 0 .. RebuildItems - 1 PROVE n \in processed
    BY <1>1, <2>2 DEF GraphAssumption, RebuildIInv
  <2> QED BY <2>1, <2>2 DEF CompletedIsComplete
<1>2. GraphAssumption => GraphAssumption'
  BY DEF GraphAssumption, Edges
<1> QED BY <1>1, <1>2, GraphInitIInv, GraphNextKeeps, PTL DEF GraphSpec

-----------------------------------------------------------------------------
(* The help a model gives.                                                   *)

CallType ==
  [pc : HelpPlaces, task : Tasks, request : Requests, revision : 0 .. MaxRevision, index : Nat,
   aborted : BOOLEAN, outcome : Outcomes, answer : Provenance \cup {None}]

\* What the answer of a call is made from.
MadeFor(r) ==
  [task |-> r.task, model |-> HelpRoutes[r.task][r.index], request |-> r.request, revision |-> r.revision]

\* The route of a call is one of its task, and only a call that ended was answered.
Legal(r) ==
  /\ r.index \in 1 .. Len(HelpRoutes[r.task]) /\ (r.pc = "idle" => r.index = 1)
  /\ r.outcome = "answered" => r.pc = "done" /\ r.answer = MadeFor(r)

CallsLegal == asked \in [HelpCalls -> CallType] /\ \A c \in HelpCalls : Legal(asked[c])

\* Every entry of the cache is where the key of its provenance puts it.
CacheLegal == \A k \in DOMAIN cache : cache[k] \in Provenance /\ Key(cache[k]) = k

\* The inductive invariant.
IInv ==
  /\ CallsLegal /\ CacheLegal
  /\ reserved \in [HelpCalls -> RouteModels \cup {None}] /\ revision \in 0 .. MaxRevision

-----------------------------------------------------------------------------
\* What is made for a legal call has a well-formed provenance.
LEMMA MadeIsProvenance ==
  ASSUME AssistanceAssumption, NEW r \in CallType, Legal(r)
  PROVE  MadeFor(r) \in Provenance /\ HelpRoutes[r.task][r.index] \in RouteModels
<1>1. r.task \in Tasks /\ r.request \in Requests /\ r.revision \in 0 .. MaxRevision
  BY DEF CallType
<1>2. HelpRoutes[r.task][r.index] \in RouteModels
  BY <1>1 DEF AssistanceAssumption, Legal
<1> QED BY <1>1, <1>2 DEF MadeFor, Provenance

\* Changing one call into a legal one keeps every call legal.
LEMMA OneCall ==
  ASSUME CallsLegal, NEW c \in HelpCalls, NEW r \in CallType, Legal(r), asked' = [asked EXCEPT ![c] = r]
  PROVE  CallsLegal'
<1>1. asked' \in [HelpCalls -> CallType]
  BY DEF CallsLegal
<1>2. ASSUME NEW d \in HelpCalls PROVE Legal(asked'[d])
  BY <1>2 DEF CallsLegal
<1>3. \A d \in HelpCalls : Legal(asked[d])'
  BY <1>2 DEF Legal, MadeFor
<1> QED BY <1>1, <1>3 DEF CallsLegal

\* Going on to another place keeps the calls legal.
LEMMA GoLegal ==
  ASSUME CallsLegal, NEW c \in HelpCalls, NEW place \in HelpPlaces \ {"idle"},
         asked[c].outcome # "answered" \/ place = "done", GoHelp(c, place)
  PROVE  CallsLegal'
<1> DEFINE r == [asked[c] EXCEPT !.pc = place]
<1>1. asked[c] \in CallType /\ Legal(asked[c])
  BY DEF CallsLegal
<1>2. r \in CallType
  BY <1>1 DEF CallType
<1>3. Legal(r)
  BY <1>1 DEF CallType, Legal, MadeFor
<1>4. asked' = [asked EXCEPT ![c] = r]
  BY DEF GoHelp
<1> HIDE DEF r
<1> QED BY <1>2, <1>3, <1>4, OneCall

\* And so does ending, with the answer that was made for the call or with none.
LEMMA EndLegal ==
  ASSUME CallsLegal, NEW c \in HelpCalls, NEW outcome \in Outcomes,
         NEW answer \in Provenance \cup {None}, EndHelp(c, outcome, answer),
         outcome = "answered" => answer = MadeFor(asked[c])
  PROVE  CallsLegal'
<1> DEFINE r == [asked[c] EXCEPT !.pc = "done", !.outcome = outcome, !.answer = answer]
<1>1. asked[c] \in CallType /\ Legal(asked[c])
  BY DEF CallsLegal
<1>2. r \in CallType
  BY <1>1 DEF CallType, HelpPlaces
<1>3. Legal(r)
  BY <1>1 DEF CallType, Legal, MadeFor
<1>4. asked' = [asked EXCEPT ![c] = r]
  BY DEF EndHelp
<1> HIDE DEF r
<1> QED BY <1>2, <1>3, <1>4, OneCall

\* A failure ends the call without an answer, or goes on to a fallback of its task.
LEMMA FailsLegal ==
  ASSUME AssistanceAssumption, CallsLegal, NEW c \in HelpCalls, asked[c].pc # "done", NEW code,
         NEW outcome \in {"rejected", "unavailable"}, FailsWith(c, code, outcome)
  PROVE  CallsLegal'
<1>1. CASE EndHelp(c, outcome, None)
  BY <1>1, EndLegal DEF Outcomes
<1>2. CASE /\ asked[c].index < Len(HelpRoutes[asked[c].task])
           /\ asked' = [asked EXCEPT ![c].index = @ + 1, ![c].pc = "resolve"]
  <2> DEFINE next == asked[c].index + 1
             r == [asked[c] EXCEPT !.index = next, !.pc = "resolve"]
  <2>1. asked[c] \in CallType /\ Legal(asked[c])
    BY DEF CallsLegal
  <2>0. asked[c].index \in Nat /\ asked[c].index + 1 \in Nat
    BY <2>1 DEF CallType
  <2>2. r \in CallType
    <3> HIDE DEF next
    <3>1. next \in Nat
      BY <2>0 DEF next
    <3> QED BY <2>1, <3>1 DEF CallType, HelpPlaces
  <2>3. Len(HelpRoutes[asked[c].task]) \in Nat
    BY <2>1 DEF CallType, AssistanceAssumption
  <2>4. Legal(r)
    BY <1>2, <2>1, <2>3 DEF CallType, Legal
  <2>5. asked' = [asked EXCEPT ![c] = r]
    BY <1>2
  <2> HIDE DEF r
  <2> QED BY <2>2, <2>4, <2>5, OneCall
<1> QED BY <1>1, <1>2 DEF FailsWith

-----------------------------------------------------------------------------
\* Reservations are of models, whichever call they are of.
LEMMA SettleTyped ==
  ASSUME reserved \in [HelpCalls -> RouteModels \cup {None}], NEW c \in HelpCalls, Settle(c)
  PROVE  reserved' \in [HelpCalls -> RouteModels \cup {None}]
BY DEF Settle

\* The initial state is legal.
LEMMA InitIInv == AssistanceAssumption /\ AssistanceInit => IInv
<1> SUFFICES ASSUME AssistanceAssumption, AssistanceInit PROVE IInv
  OBVIOUS
<1>1. NotAsked \in CallType
  BY DEF AssistanceAssumption, NotAsked, CallType, HelpPlaces, Outcomes
<1>2. Len(HelpRoutes["assistance-draft"]) \in Nat /\ Len(HelpRoutes["assistance-draft"]) >= 1
  BY DEF AssistanceAssumption
<1>3. Legal(NotAsked)
  BY <1>2 DEF NotAsked, Legal
<1>4. CallsLegal
  BY <1>1, <1>3 DEF AssistanceInit, CallsLegal
<1>5. CacheLegal
  BY DEF AssistanceInit, CacheLegal
<1> QED BY <1>4, <1>5 DEF AssistanceInit, IInv, AssistanceAssumption

\* Every step of a call keeps the invariant.
LEMMA StepIInv ==
  ASSUME AssistanceAssumption, IInv, NEW c \in HelpCalls, AssistanceStep(c)
  PROVE  IInv'
<1>0. asked[c] \in CallType /\ Legal(asked[c]) /\ asked \in [HelpCalls -> CallType]
  BY DEF IInv, CallsLegal
<1>1. Made(c) = MadeFor(asked[c]) /\ Made(c) \in Provenance /\ HelpRoute(c) \in RouteModels
  <2>1. Made(c) = MadeFor(asked[c])
    BY DEF Made, MadeFor, HelpRoute
  <2> QED BY <1>0, <2>1, MadeIsProvenance DEF HelpRoute
<1>2. asked[c].pc \notin {"done"} => asked[c].outcome # "answered"
  BY <1>0 DEF Legal
<1>3. ASSUME NEW task \in Tasks, NEW req \in Requests, NEW usable \in BOOLEAN,
             AskHelp(c, task, req, usable)
      PROVE  IInv'
  <2> DEFINE r == [asked[c] EXCEPT !.task = task, !.request = req, !.revision = revision,
                     !.pc = IF usable THEN "resolve" ELSE "done",
                     !.outcome = IF usable THEN "pending" ELSE "unavailable"]
  <2>1. r \in CallType
    BY <1>0 DEF CallType, HelpPlaces, Outcomes, IInv
  <2>2. Len(HelpRoutes[task]) \in Nat /\ Len(HelpRoutes[task]) >= 1
    BY DEF AssistanceAssumption
  <2>3. Legal(r)
    BY <1>0, <1>3, <2>2 DEF CallType, Legal, AskHelp
  <2>4. asked' = [asked EXCEPT ![c] = r]
    BY <1>3 DEF AskHelp
  <2> HIDE DEF r
  <2>5. CallsLegal'
    BY <2>1, <2>3, <2>4, OneCall DEF IInv
  <2> QED BY <1>3, <2>5 DEF AskHelp, IInv, CacheLegal, Key
<1>4. ASSUME NEW obstacle \in HelpObstacles \cup {None}, NEW opened \in BOOLEAN,
             ResolveAttempt(c, obstacle, opened)
      PROVE  IInv'
  <2>1. CASE \E code : FailsWith(c, code, "unavailable") /\ UNCHANGED reserved
    <3>1. CallsLegal'
      BY <1>4, <2>1, FailsLegal DEF IInv, ResolveAttempt
    <3> QED BY <1>4, <2>1, <3>1 DEF ResolveAttempt, IInv, CacheLegal, Key
  <2>2. CASE GoHelp(c, "lookup") /\ reserved' = [reserved EXCEPT ![c] = HelpRoute(c)]
    <3>1. CallsLegal'
      BY <1>2, <1>4, <2>2, GoLegal DEF IInv, ResolveAttempt, HelpPlaces
    <3> QED BY <1>1, <1>4, <2>2, <3>1 DEF ResolveAttempt, IInv, CacheLegal, Key
  <2> QED BY <1>4, <2>1, <2>2 DEF ResolveAttempt
<1>5. CASE RejectRequest(c)
  <2>1. CallsLegal'
    BY <1>5, FailsLegal DEF RejectRequest, IInv
  <2> QED BY <1>5, <2>1, SettleTyped DEF RejectRequest, IInv, CacheLegal, Key
<1>6. CASE ReadCache(c)
  <2>1. CASE Key(Made(c)) \in DOMAIN cache
    <3>1. cache[Key(Made(c))] \in Provenance /\ Key(cache[Key(Made(c))]) = Key(Made(c))
      BY <2>1 DEF IInv, CacheLegal
    <3>2. cache[Key(Made(c))] = Made(c)
      BY <1>1, <3>1 DEF Key, Provenance
    <3>3. CallsLegal'
      BY <1>1, <1>6, <2>1, <3>2, EndLegal DEF ReadCache, IInv, Outcomes
    <3> QED BY <1>6, <2>1, <3>3, SettleTyped DEF ReadCache, IInv, CacheLegal, Key
  <2>2. CASE Key(Made(c)) \notin DOMAIN cache
    <3>1. CallsLegal'
      BY <1>2, <1>6, <2>2, GoLegal DEF ReadCache, IInv, HelpPlaces
    <3> QED BY <1>6, <2>2, <3>1 DEF ReadCache, IInv, CacheLegal, Key
  <2> QED BY <2>1, <2>2
<1>7. CASE AnswersDraft(c) \/ AnswersExplanation(c)
  <2>1. CallsLegal'
    BY <1>2, <1>7, GoLegal DEF AnswersDraft, AnswersExplanation, IInv, HelpPlaces
  <2> QED BY <1>7, <2>1 DEF AnswersDraft, AnswersExplanation, IInv, CacheLegal, Key
<1>8. CASE PutAnswer(c)
  <2>1. CallsLegal'
    BY <1>1, <1>8, EndLegal DEF PutAnswer, IInv, Outcomes
  <2>2. CacheLegal'
    <3>1. ASSUME NEW k \in DOMAIN cache' PROVE cache'[k] \in Provenance /\ Key(cache'[k]) = k
      BY <1>1, <1>8, <3>1 DEF PutAnswer, IInv, CacheLegal
    <3> QED BY <3>1 DEF CacheLegal, Key
  <2> QED BY <1>8, <2>1, <2>2, SettleTyped DEF PutAnswer, IInv
<1>9. CASE CacheFails(c)
  <2>1. CallsLegal'
    BY <1>9, EndLegal DEF CacheFails, IInv, Outcomes
  <2> QED BY <1>9, <2>1 DEF CacheFails, IInv, CacheLegal, Key
<1>10. CASE AbortHelp(c)
  <2> DEFINE r == [asked[c] EXCEPT !.aborted = TRUE]
  <2>1. r \in CallType
    BY <1>0 DEF CallType
  <2>2. Legal(r)
    BY <1>0 DEF CallType, Legal, MadeFor
  <2>3. asked' = [asked EXCEPT ![c] = r]
    BY <1>10 DEF AbortHelp
  <2> HIDE DEF r
  <2>4. CallsLegal'
    BY <2>1, <2>2, <2>3, OneCall DEF IInv
  <2> QED BY <1>10, <2>4 DEF AbortHelp, IInv, CacheLegal, Key
<1>11. ASSUME NEW code \in FailureCodes, Rejected(c, code) PROVE IInv'
  <2>1. CallsLegal'
    BY <1>11, FailsLegal DEF Rejected, IInv
  <2> QED BY <1>11, <2>1, SettleTyped DEF Rejected, IInv, CacheLegal, Key
<1> QED BY <1>3, <1>4, <1>5, <1>6, <1>7, <1>8, <1>9, <1>10, <1>11 DEF AssistanceStep

\* Every step keeps the invariant.
LEMMA NextIInv == AssistanceAssumption /\ IInv /\ [AssistanceNext]_assistanceVars => IInv'
<1> SUFFICES ASSUME AssistanceAssumption, IInv, [AssistanceNext]_assistanceVars PROVE IInv'
  OBVIOUS
<1>1. CASE UNCHANGED assistanceVars
  BY <1>1 DEF assistanceVars, IInv, CallsLegal, CacheLegal, Legal, MadeFor, Key
<1>2. CASE Edit
  <2>1. revision' \in 0 .. MaxRevision
    BY <1>2 DEF Edit, IInv, AssistanceAssumption
  <2> QED BY <1>2, <2>1 DEF Edit, IInv, CallsLegal, CacheLegal, Legal, MadeFor, Key
<1>3. ASSUME NEW k \in DOMAIN cache, TrimOldest(k) PROVE IInv'
  BY <1>3 DEF TrimOldest, IInv, CallsLegal, CacheLegal, Legal, MadeFor, Key
<1> QED BY <1>1, <1>2, <1>3, StepIInv DEF AssistanceNext

\* The calls, the reservations and the cache stay well formed.
THEOREM AssistanceTypeCorrect == AssistanceAssumption /\ AssistanceSpec => []AssistanceTypeOK
<1>1. IInv => AssistanceTypeOK
  BY DEF IInv, CallsLegal, CallType, CacheLegal, AssistanceTypeOK
<1>2. AssistanceAssumption => AssistanceAssumption'
  BY DEF AssistanceAssumption, Tasks, RouteModels
<1> QED BY <1>1, <1>2, InitIInv, NextIInv, PTL DEF AssistanceSpec

\* A call is only ever answered with what was made for its task, its request and the
\* revision it was asked for, by a model of its route, also out of the shared cache.
THEOREM AnswersItsRequestThm == AssistanceAssumption /\ AssistanceSpec => []AnswersItsRequest
<1>1. IInv => AnswersItsRequest
  BY DEF IInv, CallsLegal, Legal, MadeFor, AnswersItsRequest, Made, HelpRoute
<1>2. AssistanceAssumption => AssistanceAssumption'
  BY DEF AssistanceAssumption, Tasks, RouteModels
<1> QED BY <1>1, <1>2, InitIInv, NextIInv, PTL DEF AssistanceSpec

=============================================================================
