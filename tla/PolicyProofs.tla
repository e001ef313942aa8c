---------------------------- MODULE PolicyProofs ----------------------------
(***************************************************************************)
(* The decision, for every list of packages: what is merged as a repeated  *)
(* rule, looked up under a stage or a changed variable, and controlled by  *)
(* the strongest violation, is as strict as every rule as it is written.   *)
(* And what a pass of the harness makes of an event and a state, which the *)
(* proofs about the session and the web run share.                         *)
(***************************************************************************)
EXTENDS Harness, WellFoundedInduction, TLAPS

-----------------------------------------------------------------------------
(* Rules and packages *)

Places(packages) == UNION {{<<p, i>> : i \in DOMAIN packages[p].rules} : p \in DOMAIN packages}
RuleAt(packages, o) == packages[o[1]].rules[o[2]]

\* Lists of rules, no two of which differ under one id.
WellFormed(packages) ==
    /\ DOMAIN packages \subseteq Nat
    /\ \A p \in DOMAIN packages : DOMAIN packages[p].rules \subseteq Nat
    /\ \A o \in Places(packages) : ComplianceRule(RuleAt(packages, o))
    /\ \A o, q \in Places(packages) :
            RuleAt(packages, o).rule_id = RuleAt(packages, q).rule_id
                => RuleAt(packages, o) = RuleAt(packages, q)

\* The event is one the rule is about, and does not meet it.
Breaks(event, rule, state) ==
    /\ event.type \in rule.stages
    /\ \A p \in rule.applicability : Evaluate(p, event, state) = "true"
    /\ \E p \in rule.requirements : Evaluate(p, event, state) # "true"

-----------------------------------------------------------------------------
(* Minima and maxima *)

LEMMA LeastNat ==
    ASSUME NEW T, T \subseteq Nat, T # {}
    PROVE  \E x \in T : \A y \in T : x <= y
<1> DEFINE less == {ss \in Nat \X Nat : ss[1] < ss[2]}
<1>1. IsWellFoundedOn(less, Nat)
  BY NatLessThanWellFounded, Zenon DEF OpToRel
<1>2. PICK x \in T : \A y \in T : <<y, x>> \notin less
  <2> HIDE DEF less
  <2>1. QED
    BY <1>1, WFMin
<1>3. ASSUME NEW y \in T
      PROVE  x <= y
  <2>1. x \in Nat /\ y \in Nat /\ <<y, x>> \in Nat \X Nat
    OBVIOUS
  <2>2. ~(y < x)
    BY <1>2, <2>1
  <2>3. QED
    BY <2>1, <2>2
<1>4. QED
  BY <1>3

\* How strict a rule is, as one number.
Weight(r) == 5 * Restrictiveness[r.intervention] + Severity[r.severity]

LEMMA WeightIs ==
    ASSUME NEW q, ComplianceRule(q), NEW r, ComplianceRule(r)
    PROVE  /\ Weight(q) \in Nat /\ Weight(q) <= 40
           /\ Restrictiveness[q.intervention] \in 0 .. 6
           /\ Stronger(q, r) => Weight(q) > Weight(r)
<1>1. \A i \in DOMAIN Restrictiveness : Restrictiveness[i] \in 0 .. 6
  BY DEF Restrictiveness
<1>2. \A s \in DOMAIN Severity : Severity[s] \in 1 .. 4
  BY DEF Severity
<1>3. /\ Restrictiveness[q.intervention] \in 0 .. 6 /\ Severity[q.severity] \in 1 .. 4
      /\ Restrictiveness[r.intervention] \in 0 .. 6 /\ Severity[r.severity] \in 1 .. 4
  BY <1>1, <1>2 DEF ComplianceRule
<1>4. QED
  BY <1>3 DEF Weight, Stronger

\* There is always a rule that controls.
LEMMA ControllingIs ==
    ASSUME NEW violated, violated # {}, \A r \in violated : ComplianceRule(r)
    PROVE  /\ Controlling(violated) \in violated
           /\ \A q \in violated : ~Stronger(q, Controlling(violated))
<1> DEFINE gaps == {40 - Weight(r) : r \in violated}
<1>1. gaps \subseteq Nat /\ gaps # {}
  BY WeightIs
<1>2. PICK x \in gaps : \A y \in gaps : x <= y
  BY <1>1, LeastNat
<1>3. PICK r \in violated : x = 40 - Weight(r)
  BY <1>2
<1>4. ASSUME NEW q \in violated
      PROVE  ~Stronger(q, r)
  <2>1. 40 - Weight(r) <= 40 - Weight(q)
    BY <1>2, <1>3
  <2>2. Weight(q) \in Nat /\ Weight(r) \in Nat /\ (Stronger(q, r) => Weight(q) > Weight(r))
    BY WeightIs
  <2>3. QED
    BY <2>1, <2>2
<1>5. \E s \in violated : \A q \in violated : ~Stronger(q, s)
  BY <1>4
<1>6. QED
  BY <1>5 DEF Controlling

-----------------------------------------------------------------------------
(* Compilation *)

\* Rules of one signature differ in nothing but their id.
LEMMA SignatureIs ==
    ASSUME NEW q, ComplianceRule(q), NEW r, ComplianceRule(r),
           SemanticSignature(q) = SemanticSignature(r)
    PROVE  /\ q.stages = r.stages
           /\ q.applicability = r.applicability
           /\ q.requirements = r.requirements
           /\ q.intervention = r.intervention
           /\ Dependencies(q) = Dependencies(r)
<1>1. \A f \in {"stages", "applicability", "requirements", "intervention"} :
        SemanticSignature(q)[f] = q[f] /\ SemanticSignature(r)[f] = r[f]
  BY DEF SemanticSignature, ComplianceRule
<1>2. \A f \in {"stages", "applicability", "requirements", "intervention"} : q[f] = r[f]
  BY <1>1
<1>3. QED
  BY <1>2 DEF Dependencies

LEMMA PlaceIs ==
    ASSUME NEW packages, WellFormed(packages), NEW o \in Places(packages)
    PROVE  /\ o = <<o[1], o[2]>>
           /\ o[1] \in DOMAIN packages /\ o[2] \in DOMAIN packages[o[1]].rules
           /\ o[1] \in Nat /\ o[2] \in Nat
<1>1. PICK p \in DOMAIN packages : \E i \in DOMAIN packages[p].rules : o = <<p, i>>
  BY DEF Places
<1>2. PICK i \in DOMAIN packages[p].rules : o = <<p, i>>
  BY <1>1
<1>3. QED
  BY <1>2 DEF WellFormed

\* Of the places with one signature there is a first one.
LEMMA FirstOfItsKind ==
    ASSUME NEW packages, WellFormed(packages), NEW Same, Same \subseteq Places(packages),
           Same # {}
    PROVE  \E o \in Same : \A q \in Same : ~Earlier(q, o)
<1>1. \A o \in Same : o = <<o[1], o[2]>> /\ o[1] \in Nat /\ o[2] \in Nat
  BY PlaceIs
<1>2. PICK p \in {o[1] : o \in Same} : \A q \in {o[1] : o \in Same} : p <= q
  <2>1. {o[1] : o \in Same} \subseteq Nat /\ {o[1] : o \in Same} # {}
    BY <1>1
  <2>2. QED
    BY <2>1, LeastNat
<1> DEFINE Rest == {o \in Same : o[1] = p}
<1>3. PICK i \in {o[2] : o \in Rest} : \A j \in {o[2] : o \in Rest} : i <= j
  <2>1. {o[2] : o \in Rest} \subseteq Nat /\ {o[2] : o \in Rest} # {}
    BY <1>1, <1>2
  <2>2. QED
    BY <2>1, LeastNat
<1>4. PICK o \in Rest : o[2] = i
  BY <1>3
<1>5. ASSUME NEW q \in Same, Earlier(q, o)
      PROVE  FALSE
  <2>1. q[1] \in Nat /\ o[1] \in Nat /\ q[2] \in Nat /\ o[2] \in Nat
    BY <1>1, <1>4
  <2>2. o[1] <= q[1]
    BY <1>2, <1>4
  <2>3. q[1] = o[1] /\ q[2] < o[2]
    BY <1>5, <2>1, <2>2 DEF Earlier
  <2>4. q \in Rest
    BY <1>4, <2>3
  <2>5. o[2] <= q[2]
    BY <1>3, <1>4, <2>4
  <2>6. QED
    BY <2>1, <2>3, <2>5
<1>6. QED
  BY <1>4, <1>5

\* Merging loses no rule: the one that is kept says the same.
LEMMA CompileKeeps ==
    ASSUME NEW packages, WellFormed(packages), NEW o \in Places(packages)
    PROVE  \E c \in Compile(packages) :
                SemanticSignature(c.rule) = SemanticSignature(RuleAt(packages, o))
<1> DEFINE Same == {q \in Places(packages) :
                        SemanticSignature(RuleAt(packages, q))
                            = SemanticSignature(RuleAt(packages, o))}
<1>1. PICK q \in Same : \A r \in Same : ~Earlier(r, q)
  BY FirstOfItsKind
<1>2. [rule |-> RuleAt(packages, q), place |-> q] \in Compile(packages)
  BY <1>1 DEF Compile, Places, RuleAt
<1>3. QED
  BY <1>1, <1>2

LEMMA CompiledIs ==
    ASSUME NEW packages, WellFormed(packages), NEW c \in Compile(packages)
    PROVE  /\ c.place \in Places(packages)
           /\ c.rule = RuleAt(packages, c.place)
           /\ c = [rule |-> c.rule, place |-> c.place]
           /\ \A q \in Places(packages) :
                Earlier(q, c.place) =>
                    SemanticSignature(RuleAt(packages, q)) # SemanticSignature(c.rule)
<1>1. PICK o \in Places(packages) :
        /\ c = [rule |-> RuleAt(packages, o), place |-> o]
        /\ ~\E q \in Places(packages) :
                Earlier(q, o) /\ SemanticSignature(RuleAt(packages, q))
                                    = SemanticSignature(RuleAt(packages, o))
  BY DEF Compile, Places, RuleAt
<1>2. QED
  BY <1>1

\* No compiled rule hides another one under a stage.
LEMMA EveryRuleIsFound ==
    ASSUME NEW packages, WellFormed(packages), NEW c \in Compile(packages),
           NEW stage \in c.rule.stages
    PROVE  c.rule \in ByStage(Compile(packages), stage)
<1>1. ASSUME NEW d \in Compile(packages), d.rule.rule_id = c.rule.rule_id,
             Earlier(c.place, d.place)
      PROVE  FALSE
  <2>1. /\ c.place \in Places(packages) /\ c.rule = RuleAt(packages, c.place)
        /\ d.place \in Places(packages) /\ d.rule = RuleAt(packages, d.place)
    BY CompiledIs
  <2>2. d.rule = c.rule
    BY <1>1, <2>1 DEF WellFormed
  <2>3. SemanticSignature(c.rule) # SemanticSignature(d.rule)
    BY <1>1, <2>1, CompiledIs
  <2>4. QED
    BY <2>2, <2>3
<1>2. QED
  BY <1>1 DEF ByStage
-----------------------------------------------------------------------------
(* The decision *)

\* What the selective verification of an event does not miss of a rule: the event is of a
\* kind that is always verified, or has changed something the rule depends on.
Watched(event, changed, rule) == Forced(event) \/ Dependencies(rule) \cap changed # {}

LEMMA EvaluateIs ==
    ASSUME NEW p, NEW event, NEW state
    PROVE  Evaluate(p, event, state) \in {"true", "false", "unknown"}
  BY DEF Evaluate, Truth

\* The part of the state a rule can look at.
LEMMA EvaluateLooksAt ==
    ASSUME NEW p, NEW event, NEW s, NEW t,
           s.objects = t.objects, s.consents = t.consents, s.approvals = t.approvals
    PROVE  Evaluate(p, event, s) = Evaluate(p, event, t)
<1>1. Resolve(p.variable, event, s) = Resolve(p.variable, event, t)
  BY DEF Resolve, ObjectValue
<1>2. QED
  BY <1>1 DEF Evaluate

\* The verdict is at least as strict as every rule of the packages that is broken: none is
\* lost to merging, to the index or to a violation of another rule.
THEOREM DecisionIsStrict ==
    ASSUME NEW packages, WellFormed(packages), NEW o \in Places(packages),
           NEW event, NEW state, NEW changed,
           Breaks(event, RuleAt(packages, o), state),
           Watched(event, changed, RuleAt(packages, o))
    PROVE  LET d == Decide(Compile(packages), event, state, changed)
           IN  /\ d.intervention \in DOMAIN Restrictiveness
               /\ d.decision = DecisionFor(d.intervention)
               /\ Restrictiveness[d.intervention]
                    >= Restrictiveness[RuleAt(packages, o).intervention]
<1> DEFINE rule == RuleAt(packages, o)
           policy == Compile(packages)
           Fails(r) == LET v == Verify(r, event, state) IN v.applicable /\ ~v.passed
           violated == {r \in AffectedRules(policy, event, changed) : Fails(r)}
           d == Decide(policy, event, state, changed)
<1>1. PICK c \in policy : SemanticSignature(c.rule) = SemanticSignature(rule)
  BY CompileKeeps
<1>2. /\ ComplianceRule(c.rule) /\ ComplianceRule(rule)
      /\ c.rule.stages = rule.stages
      /\ c.rule.applicability = rule.applicability
      /\ c.rule.requirements = rule.requirements
      /\ c.rule.intervention = rule.intervention
      /\ Dependencies(c.rule) = Dependencies(rule)
  <2>1. ComplianceRule(c.rule) /\ ComplianceRule(rule)
    BY CompiledIs DEF WellFormed
  <2>2. QED
    BY <1>1, <2>1, SignatureIs
<1>3. c.rule \in AffectedRules(policy, event, changed)
  <2>1. c.rule \in ByStage(policy, event.type)
    BY <1>2, EveryRuleIsFound DEF Breaks
  <2>2. QED
    BY <1>2, <2>1 DEF AffectedRules, Watched
<1>4. Fails(c.rule)
  <2>1. \A p \in c.rule.applicability : Evaluate(p, event, state) = "true"
    BY <1>2 DEF Breaks
  <2>2. PICK p \in c.rule.requirements : Evaluate(p, event, state) # "true"
    BY <1>2 DEF Breaks
  <2>3. Evaluate(p, event, state) \in {"false", "unknown"}
    BY <2>2, EvaluateIs
  <2>4. c.rule.fail_closed = TRUE
    BY <1>2 DEF ComplianceRule
  <2>5. QED
    BY <2>1, <2>2, <2>3, <2>4 DEF Verify
<1>5. c.rule \in violated
  BY <1>3, <1>4
<1>6. \A r \in violated : ComplianceRule(r)
  <2>1. \A r \in violated : \E e \in policy : r = e.rule
    BY DEF AffectedRules, ByStage
  <2>2. \A e \in policy : ComplianceRule(e.rule)
    BY CompiledIs DEF WellFormed
  <2>3. QED
    BY <2>1, <2>2
<1>7. /\ d.decision = DecisionFor(Controlling(violated).intervention)
      /\ d.intervention = Controlling(violated).intervention
  BY <1>5 DEF Decide
<1>8. /\ Controlling(violated) \in violated
      /\ ~Stronger(c.rule, Controlling(violated))
  BY <1>5, <1>6, ControllingIs
<1>9. /\ ComplianceRule(Controlling(violated))
      /\ Restrictiveness[c.rule.intervention] \in 0 .. 6
      /\ Restrictiveness[Controlling(violated).intervention] \in 0 .. 6
  <2>1. ComplianceRule(Controlling(violated))
    BY <1>6, <1>8
  <2>2. QED
    BY <1>2, <2>1, WeightIs
<1>10. QED
  BY <1>2, <1>7, <1>8, <1>9 DEF Stronger, ComplianceRule

\* Every rule of some packages is one of others as well.
Includes(more, packages) ==
    \A o \in Places(packages) :
        \E q \in Places(more) : RuleAt(more, q) = RuleAt(packages, o)

\* What controls a verdict is a rule of the packages that the event breaks.
LEMMA ControlIsBroken ==
    ASSUME NEW packages, WellFormed(packages), NEW event, NEW state, NEW changed,
           Decide(Compile(packages), event, state, changed).decision # "ALLOW"
    PROVE  \E o \in Places(packages) :
                /\ Breaks(event, RuleAt(packages, o), state)
                /\ Watched(event, changed, RuleAt(packages, o))
                /\ Decide(Compile(packages), event, state, changed).intervention
                        = RuleAt(packages, o).intervention
<1> DEFINE policy == Compile(packages)
           Fails(r) == LET v == Verify(r, event, state) IN v.applicable /\ ~v.passed
           violated == {r \in AffectedRules(policy, event, changed) : Fails(r)}
           d == Decide(policy, event, state, changed)
<1>1. violated # {}
  BY DEF Decide
<1>2. \A e \in policy : e.place \in Places(packages) /\ e.rule = RuleAt(packages, e.place)
  BY CompiledIs
<1>3. \A r \in violated : ComplianceRule(r)
  <2>1. \A r \in violated : \E e \in policy : r = e.rule
    BY DEF AffectedRules, ByStage
  <2>2. QED
    BY <1>2, <2>1 DEF WellFormed
<1>4. PICK r \in violated : d.intervention = r.intervention
  BY <1>1, <1>3, ControllingIs DEF Decide
<1>5. PICK c \in policy : r = c.rule /\ event.type \in c.rule.stages
  BY DEF AffectedRules, ByStage
<1>6. Breaks(event, r, state)
  <2>1. /\ \A p \in r.applicability : Evaluate(p, event, state) = "true"
        /\ \/ "false" \in {Evaluate(p, event, state) : p \in r.requirements}
           \/ "unknown" \in {Evaluate(p, event, state) : p \in r.requirements}
    BY DEF Verify
  <2>2. QED
    BY <1>5, <2>1 DEF Breaks
<1>7. Watched(event, changed, r)
  <2>1. CASE Forced(event)
    BY <2>1 DEF Watched
  <2>2. CASE \E e \in policy : e.rule.rule_id = r.rule_id
                                  /\ Dependencies(e.rule) \cap changed # {}
    BY <1>2, <1>5, <2>2 DEF Watched, WellFormed
  <2>3. QED
    BY <2>1, <2>2 DEF AffectedRules
<1>8. QED
  BY <1>2, <1>4, <1>5, <1>6, <1>7

\* A further package never relaxes a verdict: whatever is loaded besides, and in whatever order,
\* what some packages do not allow stays disallowed, by an intervention at least as strict.
THEOREM DecisionIsMonotone ==
    ASSUME NEW packages, WellFormed(packages), NEW more, WellFormed(more),
           Includes(more, packages), NEW event, NEW state, NEW changed,
           Decide(Compile(packages), event, state, changed).decision # "ALLOW"
    PROVE  LET d == Decide(Compile(packages), event, state, changed)
               e == Decide(Compile(more), event, state, changed)
           IN  /\ e.decision # "ALLOW"
               /\ e.intervention \in DOMAIN Restrictiveness
               /\ Restrictiveness[e.intervention] >= Restrictiveness[d.intervention]
<1> DEFINE d == Decide(Compile(packages), event, state, changed)
           e == Decide(Compile(more), event, state, changed)
<1>1. PICK o \in Places(packages) :
        /\ Breaks(event, RuleAt(packages, o), state)
        /\ Watched(event, changed, RuleAt(packages, o))
        /\ d.intervention = RuleAt(packages, o).intervention
  BY ControlIsBroken
<1>2. PICK q \in Places(more) : RuleAt(more, q) = RuleAt(packages, o)
  BY DEF Includes
<1>3. /\ e.intervention \in DOMAIN Restrictiveness
      /\ e.decision = DecisionFor(e.intervention)
      /\ Restrictiveness[e.intervention] >= Restrictiveness[RuleAt(more, q).intervention]
  BY <1>1, <1>2, DecisionIsStrict
<1>4. e.decision # "ALLOW"
  BY <1>3 DEF DecisionFor
<1>5. QED
  BY <1>1, <1>2, <1>3, <1>4

\* Only what is broken for the record is admitted.
LEMMA AdmittedIsAudited ==
    ASSUME NEW packages, WellFormed(packages), NEW o \in Places(packages),
           NEW event, NEW state, NEW changed,
           Breaks(event, RuleAt(packages, o), state),
           Watched(event, changed, RuleAt(packages, o)),
           Decide(Compile(packages), event, state, changed).decision \in {"ALLOW", "AUDIT_ONLY"}
    PROVE  RuleAt(packages, o).intervention = "AUDIT_ONLY"
<1> DEFINE d == Decide(Compile(packages), event, state, changed)
           i == RuleAt(packages, o).intervention
<1>1. /\ d.intervention \in DOMAIN Restrictiveness
      /\ d.decision = DecisionFor(d.intervention)
      /\ Restrictiveness[d.intervention] >= Restrictiveness[i]
  BY DecisionIsStrict
<1>2. i \in DOMAIN Restrictiveness
  BY DEF WellFormed, ComplianceRule
<1> HIDE DEF d, i
<1>3. d.decision \in {"ALLOW", "AUDIT_ONLY"}
  BY DEF d
<1>4. d.intervention = "AUDIT_ONLY"
  BY <1>1, <1>3 DEF DecisionFor, Restrictiveness
<1>5. i = "AUDIT_ONLY"
  BY <1>1, <1>2, <1>4 DEF Restrictiveness
<1>6. QED
  BY <1>5 DEF i

\* Where a human has to approve, no repair does instead.
LEMMA ApprovalIsNotRepaired ==
    ASSUME NEW packages, WellFormed(packages), NEW o \in Places(packages),
           NEW event, NEW state, NEW changed,
           Breaks(event, RuleAt(packages, o), state),
           Watched(event, changed, RuleAt(packages, o)),
           RuleAt(packages, o).intervention = "REQUIRE_APPROVAL"
    PROVE  Decide(Compile(packages), event, state, changed).decision
                \notin {"ALLOW", "AUDIT_ONLY", "REPAIR"}
<1> DEFINE d == Decide(Compile(packages), event, state, changed)
<1>1. /\ d.intervention \in DOMAIN Restrictiveness
      /\ d.decision = DecisionFor(d.intervention)
      /\ Restrictiveness[d.intervention] >= Restrictiveness["REQUIRE_APPROVAL"]
  BY DecisionIsStrict
<1> HIDE DEF d
<1>2. d.intervention \in {"REQUIRE_APPROVAL", "PREVENT_MEMORY_WRITE", "BLOCK"}
  BY <1>1 DEF Restrictiveness
<1>3. d.decision \notin {"ALLOW", "AUDIT_ONLY", "REPAIR"}
  BY <1>1, <1>2 DEF DecisionFor
<1>4. QED
  BY <1>3 DEF d
-----------------------------------------------------------------------------
(* What the records hold *)

Classes == [ObjectVariables -> {"true", "false", "unknown"}]

StateRecord(s) ==
    /\ DOMAIN s = {"objects", "lineage", "consents", "approvals", "obligations", "violations",
                   "last_sequence"}
    /\ s.last_sequence \in Int
    /\ \A o \in DOMAIN s.objects : s.objects[o] \in Classes

EventRecord(e) ==
    /\ DOMAIN e = {"type", "id", "sequence", "body", "payload", "objects", "recipient", "facts",
                   "introduces", "derives", "aggregate", "grant"}
    /\ e.type \in EventTypes
    /\ e.id \in Int \X Nat
    /\ e.sequence \in Int

\* What was known of an object still is.
Preserved(s, t) ==
    \A o \in DOMAIN s.objects : o \in DOMAIN t.objects /\ t.objects[o] = s.objects[o]

-----------------------------------------------------------------------------
(* A pass of the harness *)

LEMMA ClassificationType ==
    ASSUME NEW body
    PROVE  Classification(body) \in Classes
  BY DEF Classification, Classes, Truth

LEMMA DetectType ==
    ASSUME NEW event, NEW object \in Classes
    PROVE  DetectInto(object, event) \in Classes
  BY ClassificationType DEF DetectInto

\* An event that is not refused changes nothing that is known, and adds what it introduces.
LEMMA AppliedIs ==
    ASSUME NEW s, StateRecord(s), NEW e, EventRecord(e), ~ApplyRaises(e, s)
    PROVE  /\ StateRecord(Applied(e, s))
           /\ Applied(e, s).last_sequence = e.sequence
           /\ Preserved(s, Applied(e, s))
           /\ Introduces(e) =>
                /\ e.introduces \in DOMAIN Applied(e, s).objects
                /\ Applied(e, s).objects[e.introduces] = DetectInto(Unclassified, e)
<1> DEFINE t == Applied(e, s)
<1>1. /\ DOMAIN t = DOMAIN s
      /\ t.last_sequence = e.sequence
      /\ t.objects = IF Introduces(e)
                     THEN Put(s.objects, e.introduces, DetectInto(Unclassified, e))
                     ELSE IF Derives(e)
                     THEN Put(s.objects, e.derives.target, Transform(e, s.objects)) ELSE s.objects
  BY DEF Applied, StateRecord
<1>2. Unclassified \in Classes
  BY DEF Unclassified, Classes
<1>3. DetectInto(Unclassified, e) \in Classes
  BY <1>2, DetectType
<1>4. Derives(e) => Transform(e, s.objects) \in Classes
  <2>1. SUFFICES ASSUME Derives(e)
                 PROVE  Transform(e, s.objects) \in Classes
    OBVIOUS
  <2>2. s.objects[e.derives.source] \in Classes
    BY <2>1 DEF ApplyRaises, StateRecord
  <2>3. [v \in ObjectVariables |-> IF ~e.derives.preserves /\ v \in {Personal, Sensitive}
                                   THEN "false" ELSE s.objects[e.derives.source][v]] \in Classes
    BY <2>2 DEF Classes
  <2>4. QED
    BY <2>3, DetectType DEF Transform
<1>5. ASSUME NEW key, key \notin DOMAIN s.objects, NEW value \in Classes,
             t.objects = Put(s.objects, key, value)
      PROVE  StateRecord(t) /\ Preserved(s, t) /\ key \in DOMAIN t.objects
             /\ t.objects[key] = value
  <2> HIDE DEF t
  <2>1. DOMAIN t.objects = DOMAIN s.objects \cup {key} /\ t.objects[key] = value
    BY <1>5 DEF Put
  <2>2. \A o \in DOMAIN s.objects : o # key /\ t.objects[o] = s.objects[o]
    BY <1>5 DEF Put
  <2>3. \A o \in DOMAIN t.objects : t.objects[o] \in Classes
    BY <1>5, <2>1, <2>2 DEF StateRecord
  <2>4. t.last_sequence \in Int
    BY <1>1 DEF EventRecord
  <2>5. QED
    BY <1>1, <2>1, <2>2, <2>3, <2>4 DEF StateRecord, Preserved
<1>6. CASE Introduces(e)
  <2>1. e.introduces \notin DOMAIN s.objects
    BY <1>6 DEF ApplyRaises
  <2>2. t.objects = Put(s.objects, e.introduces, DetectInto(Unclassified, e))
    BY <1>1, <1>6
  <2>3. QED
    BY <1>1, <1>3, <1>5, <1>6, <2>1, <2>2
<1>7. CASE ~Introduces(e) /\ Derives(e)
  <2>1. e.derives.target \notin DOMAIN s.objects
    BY <1>7 DEF ApplyRaises
  <2>2. t.objects = Put(s.objects, e.derives.target, Transform(e, s.objects))
    BY <1>1, <1>7
  <2>3. QED
    BY <1>1, <1>4, <1>5, <1>7, <2>1, <2>2
<1>8. CASE ~Introduces(e) /\ ~Derives(e)
  BY <1>1, <1>8 DEF StateRecord, Preserved, EventRecord
<1>9. QED
  BY <1>6, <1>7, <1>8

\* Recording a decision leaves the facts of the state alone.
LEMMA RecordDecisionIs ==
    ASSUME NEW s, StateRecord(s), NEW e, NEW d
    PROVE  LET t == RecordDecision(s, e, d)
           IN  /\ StateRecord(t)
               /\ t.objects = s.objects
               /\ t.consents = s.consents
               /\ t.approvals = s.approvals
               /\ t.last_sequence = s.last_sequence
  BY DEF RecordDecision, StateRecord

\* A pass applies its event or is refused, and then decides to block.
LEMMA EnforcedIs ==
    ASSUME NEW s, StateRecord(s), NEW e, EventRecord(e), NEW policy
    PROVE  LET v == Enforced(policy, e, s)
           IN  /\ StateRecord(v.state)
               /\ Preserved(s, v.state)
               /\ ApplyRaises(e, s) => /\ v.decision = "BLOCK"
                                       /\ v.state.objects = s.objects
                                       /\ v.state.last_sequence = s.last_sequence
               /\ ~ApplyRaises(e, s) => /\ v.state.objects = Applied(e, s).objects
                                        /\ v.state.last_sequence = e.sequence
<1> DEFINE d == IF ApplyRaises(e, s)
                THEN [decision |-> "BLOCK", intervention |-> None, violated |-> {}]
                ELSE Decide(policy, e, Applied(e, s), ChangedVariables(e))
           base == IF ApplyRaises(e, s) THEN s ELSE Applied(e, s)
           v == Enforced(policy, e, s)
<1>1. v.state = RecordDecision(base, e, d) /\ v.decision = d.decision
  BY DEF Enforced
<1>2. StateRecord(base) /\ Preserved(s, base)
  BY AppliedIs DEF Preserved
<1>3. /\ StateRecord(v.state)
      /\ v.state.objects = base.objects
      /\ v.state.last_sequence = base.last_sequence
  <2> HIDE DEF base, d, v
  <2> QED
    BY <1>1, <1>2, RecordDecisionIs
<1>4. ApplyRaises(e, s) => d.decision = "BLOCK" /\ base = s
  OBVIOUS
<1>5. ~ApplyRaises(e, s) => base = Applied(e, s) /\ base.last_sequence = e.sequence
  BY AppliedIs
<1>6. QED
  <2> HIDE DEF base, d
  <2> QED
    BY <1>1, <1>2, <1>3, <1>4, <1>5 DEF Preserved

\* The verdict of a pass is as strict as every rule that its event breaks in the state it
\* leads to, if the rule is watched.
LEMMA PassIsAsStrict ==
    ASSUME NEW packages, WellFormed(packages), NEW o \in Places(packages),
           NEW s, StateRecord(s), NEW e, EventRecord(e),
           Breaks(e, RuleAt(packages, o), Enforced(Compile(packages), e, s).state),
           Watched(e, ChangedVariables(e), RuleAt(packages, o))
    PROVE  LET v == Enforced(Compile(packages), e, s)
           IN  /\ v.decision \in {"ALLOW", "AUDIT_ONLY"} =>
                    RuleAt(packages, o).intervention = "AUDIT_ONLY"
               /\ RuleAt(packages, o).intervention = "REQUIRE_APPROVAL" =>
                    v.decision \notin {"ALLOW", "AUDIT_ONLY", "REPAIR"}
<1> DEFINE rule == RuleAt(packages, o)
           v == Enforced(Compile(packages), e, s)
           applied == Applied(e, s)
           changed == ChangedVariables(e)
           d == Decide(Compile(packages), e, applied, changed)
<1>1. CASE ApplyRaises(e, s)
  <2>1. v.decision = "BLOCK"
    BY <1>1, EnforcedIs
  <2>2. QED
    BY <2>1
<1>2. CASE ~ApplyRaises(e, s)
  <2>1. v.decision = d.decision /\ v.state = RecordDecision(applied, e, d)
    BY <1>2 DEF Enforced
  <2>2. StateRecord(applied)
    BY <1>2, AppliedIs
  <2>3. /\ v.state.objects = applied.objects
        /\ v.state.consents = applied.consents
        /\ v.state.approvals = applied.approvals
    <3> HIDE DEF applied, d, v
    <3>1. QED
      BY <2>1, <2>2, RecordDecisionIs
  <2>4. Breaks(e, rule, applied)
    <3>1. \A p : Evaluate(p, e, v.state) = Evaluate(p, e, applied)
      <4> HIDE DEF applied, v
      <4>1. QED
        BY <2>3, EvaluateLooksAt
    <3>2. QED
      BY <3>1 DEF Breaks
  <2>5. Watched(e, changed, rule)
    OBVIOUS
  <2> HIDE DEF applied, changed
  <2>6. d.decision \in {"ALLOW", "AUDIT_ONLY"} => rule.intervention = "AUDIT_ONLY"
    BY <2>4, <2>5, AdmittedIsAudited
  <2>7. rule.intervention = "REQUIRE_APPROVAL" =>
            d.decision \notin {"ALLOW", "AUDIT_ONLY", "REPAIR"}
    BY <2>4, <2>5, ApprovalIsNotRepaired
  <2>8. QED
    BY <2>1, <2>6, <2>7
<1>3. QED
  BY <1>1, <1>2

\* An event whose one object is personal, and that gives no basis for its disclosure, breaks
\* a rule that asks for one.
LEMMA PersonalBreaks ==
    ASSUME NEW e, NEW s, NEW o, NEW rule,
           e.type \in rule.stages, e.objects = {o},
           "has_lawful_basis" \notin DOMAIN e.facts,
           o \in DOMAIN s.objects, s.objects[o][Personal] = "true",
           rule.applicability = {Is(Personal, "true")},
           rule.requirements = {Is(Fact("has_lawful_basis"), "true")}
    PROVE  Breaks(e, rule, s)
<1>1. Resolve(Personal, e, s) = "true"
  <2>1. {s.objects[q][Personal] : q \in e.objects \cap DOMAIN s.objects} = {"true"}
    OBVIOUS
  <2>2. ObjectValue(Personal, e, s) = "true"
    BY <2>1 DEF ObjectValue, Truth
  <2>3. /\ Personal[1] = "object"
        /\ Personal # <<"event", "event_type">> /\ Personal # <<"event", "recipient">>
        /\ \A name : Personal # <<"authorization", name>>
    BY DEF Personal
  <2>4. QED
    BY <2>2, <2>3 DEF Resolve
<1>2. Evaluate(Is(Personal, "true"), e, s) = "true"
  BY <1>1 DEF Evaluate, Is, Predicate, Compare, Truth
<1>3. Resolve(Fact("has_lawful_basis"), e, s) = "unknown"
  BY DEF Resolve, Fact
<1>4. Evaluate(Is(Fact("has_lawful_basis"), "true"), e, s) = "unknown"
  BY <1>3 DEF Evaluate, Is, Predicate
<1>5. QED
  BY <1>2, <1>4 DEF Breaks

\* A pair with its second part replaced.
LEMMA PairUpdate ==
    ASSUME NEW id \in Int \X Nat, NEW n \in Nat
    PROVE  [id EXCEPT ![2] = n] = <<id[1], n>>
<1>1. [id EXCEPT ![2] = n] \in Int \X Nat
  OBVIOUS
<1>2. [id EXCEPT ![2] = n][1] = id[1] /\ [id EXCEPT ![2] = n][2] = n
  OBVIOUS
<1>3. QED
  BY <1>1, <1>2

\* A repair makes the next version of its event, which brings what the event brought.
LEMMA IntervenesIs ==
    ASSUME NEW e, EventRecord(e), NEW intervention, NEW r \in Intervene(e, intervention)
    PROVE  /\ EventRecord(r)
           /\ r.type = e.type
           /\ r.id = <<e.id[1], e.id[2] + 1>>
           /\ r.sequence = e.sequence + 1
           /\ r.introduces = e.introduces
           /\ r.aggregate = e.aggregate
           /\ e.aggregate = None => r.body \in {redact_payload(e.body), "stub"}
<1>1. [e.id EXCEPT ![2] = e.id[2] + 1] = <<e.id[1], e.id[2] + 1>>
  <2>1. e.id \in Int \X Nat /\ e.id[2] + 1 \in Nat
    BY DEF EventRecord
  <2>2. QED
    BY <2>1, PairUpdate
<1>2. /\ DOMAIN Repaired(e) = DOMAIN e
      /\ Repaired(e).id = <<e.id[1], e.id[2] + 1>>
      /\ Repaired(e).sequence = e.sequence + 1
      /\ Repaired(e).type = e.type
      /\ Repaired(e).introduces = e.introduces
      /\ Repaired(e).aggregate = e.aggregate
  <2>1. Repaired(e) = [e EXCEPT !.id = [e.id EXCEPT ![2] = e.id[2] + 1],
                                !.sequence = e.sequence + 1]
    BY DEF Repaired
  <2>2. QED
    BY <1>1, <2>1 DEF EventRecord
<1>3. /\ DOMAIN r = DOMAIN Repaired(e)
      /\ r.id = Repaired(e).id
      /\ r.sequence = Repaired(e).sequence
      /\ r.type = Repaired(e).type
      /\ r.introduces = Repaired(e).introduces
      /\ r.aggregate = Repaired(e).aggregate
      /\ e.aggregate = None => r.body \in {redact_payload(e.body), "stub"}
  <2> DEFINE same == /\ DOMAIN r = DOMAIN Repaired(e)
                     /\ r.id = Repaired(e).id
                     /\ r.sequence = Repaired(e).sequence
                     /\ r.type = Repaired(e).type
                     /\ r.introduces = Repaired(e).introduces
                     /\ r.aggregate = Repaired(e).aggregate
      /\ r.aggregate = Repaired(e).aggregate
  <2>1. ASSUME NEW body, NEW facts,
               r = [Repaired(e) EXCEPT !.body = body, !.facts = facts]
        PROVE  same /\ r.body = body
    BY <1>2, <2>1 DEF EventRecord
  <2>2. ASSUME NEW content, NEW target, NEW derives, NEW facts,
               r = [Repaired(e) EXCEPT !.body = content, !.payload = content,
                                       !.objects = {target}, !.derives = derives,
                                       !.facts = facts]
        PROVE  same /\ r.body = content
    BY <1>2, <2>2 DEF EventRecord
  <2>3. r = Redacted(e) => same /\ r.body = redact_payload(e.body)
    BY <2>1 DEF Redacted
  <2>4. ASSUME NEW o, r = Aggregated(e, o)
        PROVE  same /\ r.body = IF e.aggregate = None THEN "stub" ELSE e.aggregate
    BY <2>2, <2>4 DEF Aggregated
  <2>5. QED
    BY <2>3, <2>4 DEF Intervene
<1>4. <<e.id[1], e.id[2] + 1>> \in Int \X Nat
  BY DEF EventRecord
<1>5. QED
  BY <1>2, <1>3, <1>4 DEF EventRecord

\* Each of the bundled regulations asks for a basis of what it discloses.
LEMMA BasisRuleIs ==
    ASSUME NEW p \in {GDPR, PIPL}
    PROVE  /\ 1 \in DOMAIN p.rules
           /\ p.rules[1].stages = Disclosing
           /\ p.rules[1].applicability = {Is(Personal, "true")}
           /\ p.rules[1].requirements = {Is(Fact("has_lawful_basis"), "true")}
           /\ p.rules[1].intervention = "REQUIRE_APPROVAL"
<1>1. /\ 1 \in DOMAIN GDPR.rules /\ 1 \in DOMAIN PIPL.rules
      /\ GDPR.rules[1] = Rule("GDPR_LAWFUL_BASIS_001", "LAWFUL_BASIS", Disclosing,
                              {Is(Personal, "true")}, {Is(Fact("has_lawful_basis"), "true")},
                              "HIGH", "REQUIRE_APPROVAL")
      /\ PIPL.rules[1] = Rule("PIPL_PROCESSING_BASIS_001", "LAWFUL_BASIS", Disclosing,
                              {Is(Personal, "true")}, {Is(Fact("has_lawful_basis"), "true")},
                              "HIGH", "REQUIRE_APPROVAL")
  BY DEF GDPR, PIPL
<1>2. QED
  BY <1>1 DEF Rule
=============================================================================
