----------------------------- MODULE PolicyRules -----------------------------
(***************************************************************************)
(* Regulation packages, their compilation into one policy set, and the     *)
(* deterministic verification of an event against it:                      *)
(* regulations/compiler.py, policy/rules.py, policy/dependency_index.py,   *)
(* policy/engine.py and verifier/deterministic.py.                         *)
(*                                                                         *)
(* A variable is a tuple, <<scope, name, ...>>, where the code has a       *)
(* dotted name.  Truth is three-valued: "true", "false" and "unknown".     *)
(* Citations, articles and explanations are left out.  Every variable of   *)
(* the bundled rules that is an object's is Boolean, and only those are    *)
(* modelled.                                                               *)
(*                                                                         *)
(* IndexedOnly is a faulty variant; no action uses it.                     *)
(***************************************************************************)
EXTENDS Integers, FiniteSets, Sequences

CONSTANT None

Restrictiveness ==
    [AUDIT_ONLY |-> 0, REPLAN |-> 1, REDACT |-> 2, AGGREGATE |-> 2, REQUIRE_CONSENT |-> 3,
     REQUIRE_APPROVAL |-> 4, PREVENT_MEMORY_WRITE |-> 5, BLOCK |-> 6]

Severity == [LOW |-> 1, MEDIUM |-> 2, HIGH |-> 3, CRITICAL |-> 4]

-----------------------------------------------------------------------------
(* Predicates and rules *)

Predicate(variable, operator, value) ==
    [variable |-> variable, operator |-> operator, value |-> value]

Is(variable, value) == Predicate(variable, "EQ", value)

Rule(rule_id, concept, stages, applicability, requirements, severity, intervention) ==
    [rule_id |-> rule_id, concept |-> concept, stages |-> stages,
     applicability |-> applicability, requirements |-> requirements,
     severity |-> severity, intervention |-> intervention, fail_closed |-> TRUE]

\* What a rule loaded with the default of fail_closed_on_unknown is.
ComplianceRule(rule) ==
    /\ DOMAIN rule = {"rule_id", "concept", "stages", "applicability", "requirements",
                      "severity", "intervention", "fail_closed"}
    /\ rule.intervention \in DOMAIN Restrictiveness
    /\ rule.severity \in DOMAIN Severity
    /\ rule.fail_closed

\* The variables a rule is indexed under.
Dependencies(rule) == {p.variable : p \in rule.applicability \cup rule.requirements}

\* What makes two rules of different packages one rule.
SemanticSignature(rule) == [rule EXCEPT !.rule_id = None]

-----------------------------------------------------------------------------
(* Compilation: a package is [id, rules], rules a sequence *)

Earlier(o, q) == o[1] < q[1] \/ (o[1] = q[1] /\ o[2] < q[2])

\* Exact duplicates are merged under the first one's id; a compiled rule remembers its
\* place, which decides between two rules of one id.
Compile(packages) ==
    LET Places == UNION {{<<p, i>> : i \in DOMAIN packages[p].rules} : p \in DOMAIN packages}
        At(o) == packages[o[1]].rules[o[2]]
        Repeats(o) == \E q \in Places :
                        Earlier(q, o) /\ SemanticSignature(At(q)) = SemanticSignature(At(o))
    IN  {[rule |-> At(o), place |-> o] : o \in {o \in Places : ~Repeats(o)}}

-----------------------------------------------------------------------------
(* Which rules an event is verified against *)

\* A dictionary by rule_id holds one rule per id, the last one.
ByStage(policy, stage) ==
    {c.rule : c \in {c \in policy :
        /\ stage \in c.rule.stages
        /\ ~\E d \in policy : /\ stage \in d.rule.stages
                              /\ d.rule.rule_id = c.rule.rule_id
                              /\ Earlier(c.place, d.place)}}

Forced(event) ==
    \/ event.type \in {"EXTERNAL_TRANSFER", "MEMORY_WRITE", "LOG_WRITE"}
    \/ event.type = "TOOL_CALL" /\ event.facts["side_effectful"] = "true"
    \/ event.type = "RESPONSE_GENERATED" /\ "trust_boundary" \in DOMAIN event.facts

\* Faulty variant: forgets that these stages are always verified.
IndexedOnly(policy, event, changed) ==
    {r \in ByStage(policy, event.type) :
        \E c \in policy : c.rule.rule_id = r.rule_id /\ Dependencies(c.rule) \cap changed # {}}

AffectedRules(policy, event, changed) ==
    {r \in ByStage(policy, event.type) :
        \/ Forced(event)
        \/ \E c \in policy : c.rule.rule_id = r.rule_id /\ Dependencies(c.rule) \cap changed # {}}

-----------------------------------------------------------------------------
(* Resolution of a variable in an event and a compliance state *)

MatchingConsent(grants, event, separate) ==
    \E g \in grants : /\ event.objects # {}
                      /\ event.objects \subseteq g.objects
                      /\ g.recipient = event.recipient
                      /\ g.type = event.type
                      /\ separate => g.separate

MatchingApproval(grants, event) ==
    \E g \in grants : /\ g.approved
                      /\ g.type = event.type
                      /\ g.recipient = event.recipient
                      /\ event.objects # {}
                      /\ event.objects \subseteq g.objects

Truth(b) == IF b THEN "true" ELSE "false"

\* One known true value makes the whole true; one known false value hides the unknown ones.
ObjectValue(variable, event, state) ==
    LET known == {state.objects[o][variable] : o \in event.objects \cap DOMAIN state.objects}
                    \ {"unknown"}
    IN  IF known = {} THEN "unknown" ELSE Truth("true" \in known)

Resolve(variable, event, state) ==
    CASE variable[1] = "object" -> ObjectValue(variable, event, state)
      [] variable = <<"event", "event_type">> -> event.type
      [] variable = <<"event", "recipient">> ->
            IF event.recipient = None THEN "unknown" ELSE event.recipient
      [] variable = <<"authorization", "consent">> ->
            Truth(MatchingConsent(state.consents, event, FALSE))
      [] variable = <<"authorization", "separate_consent">> ->
            Truth(MatchingConsent(state.consents, event, TRUE))
      [] variable = <<"authorization", "approval">> ->
            Truth(MatchingApproval(state.approvals, event))
      [] OTHER -> IF variable[1] = "event" /\ variable[2] \in DOMAIN event.facts
                  THEN event.facts[variable[2]] ELSE "unknown"

-----------------------------------------------------------------------------
(* Verification of one rule *)

Compare(p, actual) ==
    \/ p.operator = "EQ" /\ actual = p.value
    \/ p.operator = "NE" /\ actual # p.value
    \/ p.operator = "IN" /\ actual \in p.value
    \/ p.operator = "EXISTS"
    \/ p.operator = "TRUTHY" /\ actual # "false"

Evaluate(p, event, state) ==
    LET actual == Resolve(p.variable, event, state)
    IN  IF actual = "unknown" THEN "unknown" ELSE Truth(Compare(p, actual))

\* Applicability that is false or unknown makes the rule not applicable, and passed.
Verify(rule, event, state) ==
    LET required == {Evaluate(p, event, state) : p \in rule.requirements}
        applicable == \A p \in rule.applicability : Evaluate(p, event, state) = "true"
    IN  [applicable |-> applicable,
         passed |-> applicable => /\ "false" \notin required
                                  /\ "unknown" \in required => ~rule.fail_closed]

-----------------------------------------------------------------------------
(* The decision *)

Stronger(q, r) ==
    \/ Restrictiveness[q.intervention] > Restrictiveness[r.intervention]
    \/ /\ Restrictiveness[q.intervention] = Restrictiveness[r.intervention]
       /\ Severity[q.severity] > Severity[r.severity]

DecisionFor(intervention) ==
    CASE intervention \in {"REDACT", "AGGREGATE"} -> "REPAIR"
      [] intervention \in {"REQUIRE_CONSENT", "REQUIRE_APPROVAL", "REPLAN", "AUDIT_ONLY"} ->
            intervention
      [] OTHER -> "BLOCK"

\* Among equals the first in order of rule_id; in the packages below rules of one stage
\* that tie share their intervention.
Controlling(violated) == CHOOSE r \in violated : \A q \in violated : ~Stronger(q, r)

Decide(policy, event, state, changed) ==
    LET violated == {r \in AffectedRules(policy, event, changed) :
                        LET v == Verify(r, event, state) IN v.applicable /\ ~v.passed}
    IN  IF violated = {}
        THEN [decision |-> "ALLOW", intervention |-> None, violated |-> {}]
        ELSE [decision |-> DecisionFor(Controlling(violated).intervention),
              intervention |-> Controlling(violated).intervention,
              violated |-> {r.rule_id : r \in violated}]

-----------------------------------------------------------------------------
(* The bundled packages *)

Personal == <<"object", "contains_personal_data">>
Sensitive == <<"object", "contains_sensitive_data">>
GdprCandidate == <<"object", "attributes", "gdpr_special_category_candidate">>
PiplCandidate == <<"object", "attributes", "pipl_sensitive_candidate">>
ObjectVariables == {Personal, Sensitive, GdprCandidate, PiplCandidate}

Fact(name) == <<"event", name>>
SeparateConsent == <<"authorization", "separate_consent">>

Disclosing == {"EXTERNAL_TRANSFER", "RESPONSE_GENERATED", "MEMORY_WRITE"}

GDPR ==
    [id |-> "GDPR", rules |-> <<
        Rule("GDPR_LAWFUL_BASIS_001", "LAWFUL_BASIS", Disclosing, {Is(Personal, "true")},
             {Is(Fact("has_lawful_basis"), "true")}, "HIGH", "REQUIRE_APPROVAL"),
        Rule("GDPR_PURPOSE_LIMITATION_001", "PURPOSE_LIMITATION", Disclosing,
             {Is(Personal, "true")}, {Is(Fact("purpose_compatible"), "true")},
             "HIGH", "REPLAN"),
        Rule("GDPR_DATA_MINIMIZATION_001", "DATA_MINIMIZATION", {"EXTERNAL_TRANSFER"},
             {Is(Personal, "true"), Is(Fact("recipient_type"), "external")},
             {Is(Fact("is_minimized"), "true")}, "HIGH", "AGGREGATE"),
        Rule("GDPR_SPECIAL_CATEGORIES_001", "SPECIAL_CATEGORY_PROCESSING", Disclosing,
             {Is(GdprCandidate, "true")},
             {Is(Fact("special_category_condition_confirmed"), "true")},
             "CRITICAL", "REQUIRE_APPROVAL"),
        Rule("GDPR_STORAGE_LIMITATION_001", "STORAGE_LIMITATION",
             {"MEMORY_WRITE", "LOG_WRITE"}, {Is(Personal, "true")},
             {Is(Fact("retention_bounded"), "true")}, "HIGH", "PREVENT_MEMORY_WRITE"),
        Rule("GDPR_RECIPIENT_TRANSPARENCY_001", "RECIPIENT_TRANSPARENCY",
             {"EXTERNAL_TRANSFER"}, {Is(Personal, "true")},
             {Is(Fact("recipient_disclosed"), "true")}, "HIGH", "REQUIRE_APPROVAL")>>]

PIPL ==
    [id |-> "PIPL", rules |-> <<
        Rule("PIPL_PROCESSING_BASIS_001", "LAWFUL_BASIS", Disclosing, {Is(Personal, "true")},
             {Is(Fact("has_lawful_basis"), "true")}, "HIGH", "REQUIRE_APPROVAL"),
        Rule("PIPL_PURPOSE_LIMITATION_001", "PURPOSE_LIMITATION", Disclosing,
             {Is(Personal, "true")}, {Is(Fact("purpose_compatible"), "true")},
             "HIGH", "REPLAN"),
        Rule("PIPL_DATA_MINIMIZATION_001", "DATA_MINIMIZATION", {"EXTERNAL_TRANSFER"},
             {Is(Personal, "true"), Is(Fact("recipient_type"), "external")},
             {Is(Fact("is_minimized"), "true")}, "HIGH", "AGGREGATE"),
        Rule("PIPL_RETENTION_001", "STORAGE_LIMITATION", {"MEMORY_WRITE", "LOG_WRITE"},
             {Is(Personal, "true")}, {Is(Fact("retention_bounded"), "true")},
             "HIGH", "PREVENT_MEMORY_WRITE"),
        Rule("PIPL_THIRD_PARTY_PROVISION_001", "THIRD_PARTY_PROVISION", {"EXTERNAL_TRANSFER"},
             {Is(Personal, "true"), Is(Fact("recipient_type"), "external_handler")},
             {Is(Fact("recipient_notified"), "true"), Is(SeparateConsent, "true")},
             "CRITICAL", "REQUIRE_CONSENT"),
        Rule("PIPL_SENSITIVE_PROCESSING_001", "SENSITIVE_PERSONAL_INFORMATION", Disclosing,
             {Is(PiplCandidate, "true")},
             {Is(Fact("specific_purpose"), "true"), Is(Fact("strictly_necessary"), "true"),
              Is(Fact("protective_measures_confirmed"), "true")},
             "CRITICAL", "REQUIRE_APPROVAL"),
        Rule("PIPL_SENSITIVE_SEPARATE_CONSENT_001", "SENSITIVE_SEPARATE_CONSENT", Disclosing,
             {Is(PiplCandidate, "true")}, {Is(SeparateConsent, "true")},
             "CRITICAL", "REQUIRE_CONSENT"),
        Rule("PIPL_CROSS_BORDER_MECHANISM_001", "CROSS_BORDER_MECHANISM",
             {"EXTERNAL_TRANSFER"},
             {Is(Personal, "true"), Is(Fact("cross_border"), "true")},
             {Is(Fact("cross_border_mechanism_confirmed"), "true")},
             "CRITICAL", "REQUIRE_APPROVAL"),
        Rule("PIPL_CROSS_BORDER_CONSENT_001", "CROSS_BORDER_SEPARATE_CONSENT",
             {"EXTERNAL_TRANSFER"},
             {Is(Personal, "true"), Is(Fact("cross_border"), "true")},
             {Is(Fact("recipient_notified"), "true"), Is(SeparateConsent, "true")},
             "CRITICAL", "REQUIRE_CONSENT")>>]
=============================================================================
