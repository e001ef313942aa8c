------------------------------- MODULE Harness -------------------------------
(***************************************************************************)
(* One pass of the enforcement loop: an event is applied to the compliance *)
(* state, verified and, where the decision is a repair, replaced.  From    *)
(* runtime/harness.py, runtime/lifecycle.py, state/manager.py,             *)
(* state/models.py, lineage/tracker.py, intervention and detectors.        *)
(*                                                                         *)
(* A body (the payload of an argument, a result or a response) is one of a *)
(* few kinds, told apart by what the detectors say of it, by what          *)
(* redaction leaves of it and by whether it can be counted.  Timestamps,   *)
(* fingerprints, confidence and metrics are left out.  An event id is      *)
(* <<sequence of the event it goes back to, repairs since>>, which is as   *)
(* unique as the uuid of the code as long as an adapter never uses a       *)
(* sequence twice for an event of its own.  Every event's purpose is the   *)
(* adapters' constant, so matching by purpose is left out.                 *)
(*                                                                         *)
(* OverwritesObject, KeepsSequence and RepairsOnceMore are faulty          *)
(* variants; no action uses them.                                          *)
(***************************************************************************)
EXTENDS PolicyRules

CONSTANT MaxRepairs      \* harness: max_repair_attempts

ASSUME MaxRepairsAssumption == MaxRepairs \in Nat

-----------------------------------------------------------------------------
(* Bodies *)

\* "none" is a missing body; rows and diagnoses are lists of customer rows, contact is text
\* with an e-mail address; a masked body is one whose identifiers were redacted; a count and
\* a stub are what an aggregation leaves.
Body == {"none", "plain", "rows", "diagnoses", "contact", "masked", "count", "stub"}

Unclassified == [v \in ObjectVariables |-> "unknown"]

\* The categories told by the names of fields and by patterns in text; redacted values have none.
FieldCategories(body) ==
    CASE body = "rows" -> {"name", "email"}
      [] body = "diagnoses" -> {"name", "email", "health"}
      [] OTHER -> {}

PatternCategories(body) ==
    IF body \in {"rows", "diagnoses", "contact"} THEN {"email"} ELSE {}

SensitiveCategories ==
    {"identity_document", "financial", "health", "biometric", "precise_location",
     "minor_related", "account_credentials"}

CandidateCategories(v) ==
    IF v = GdprCandidate THEN {"health", "biometric"} ELSE SensitiveCategories

\* What the composite detector and the candidate mappings say of a body.
Classification(body) ==
    LET categories == FieldCategories(body) \cup PatternCategories(body)
    IN  [v \in ObjectVariables |->
            IF v = Personal THEN Truth(categories # {})
            ELSE Truth(categories \cap CandidateCategories(v) # {})]

\* Redaction masks names, addresses and numbers and keeps the diagnosis.
redact_payload(body) == IF body \in {"rows", "contact"} THEN "masked" ELSE body

Aggregable(body) == body \in {"rows", "diagnoses"}

-----------------------------------------------------------------------------
(* Lifecycle events *)

EventTypes == {"USER_REQUEST", "PLAN_GENERATED", "TOOL_CALL", "TOOL_RESULT", "EXTERNAL_TRANSFER",
               "RESPONSE_GENERATED", "MEMORY_WRITE", "LOG_WRITE", "CONSENT_UPDATE",
               "HUMAN_APPROVAL", "POLICY_CONTEXT_UPDATE", "AGENT_ERROR"}

NoFacts == [n \in {} |-> "unknown"]

\* A dictionary with one entry set, and one updated by another, which wins.
Put(f, key, value) == [k \in DOMAIN f \cup {key} |-> IF k = key THEN value ELSE f[k]]
Merged(f, g) == [k \in DOMAIN f \cup DOMAIN g |-> IF k \in DOMAIN g THEN g[k] ELSE f[k]]

\* body is the input of a call and the output of a result or response; payload, where there
\* is one, is what detection looks at instead.  introduces and derives are the object the
\* event creates; grant is the evidence of an approval or a consent.
LifecycleEvent(type, sequence) ==
    [type |-> type, id |-> <<sequence, 0>>, sequence |-> sequence, body |-> "none",
     payload |-> None, objects |-> {}, recipient |-> None, facts |-> NoFacts,
     introduces |-> None, derives |-> None, aggregate |-> None, grant |-> None]

\* Faulty variant: a repaired event keeps the sequence of the one it replaces.
KeepsSequence(event) == [event EXCEPT !.id[2] = @ + 1]

Repaired(event) == [event EXCEPT !.id[2] = @ + 1, !.sequence = @ + 1]

derived_object_id(source, transformation, event) == <<source, transformation, event.id>>

-----------------------------------------------------------------------------
(* The compliance state *)

ComplianceState ==
    [objects |-> [o \in {} |-> Unclassified], lineage |-> {}, consents |-> {},
     approvals |-> {}, obligations |-> {}, violations |-> {}, last_sequence |-> -1]

DetectInto(object, event) ==
    LET content == IF event.payload = None THEN event.body ELSE event.payload
    IN  IF content = "none" THEN object ELSE Classification(content)

\* The target starts as the source, or as a non-personal copy of it; detection has the last word.
Transform(event, objects) ==
    LET d == event.derives
    IN  DetectInto([v \in ObjectVariables |->
                        IF ~d.preserves /\ v \in {Personal, Sensitive} THEN "false"
                        ELSE objects[d.source][v]], event)

Introduces(event) == event.introduces # None
Derives(event) == event.derives # None

\* Faulty variant: an object may be created again under an id that is taken.
OverwritesObject(event, state) ==
    \/ event.sequence <= state.last_sequence
    \/ Derives(event) /\ event.derives.source \notin DOMAIN state.objects

\* What makes apply raise; it then restores the state it started from.
ApplyRaises(event, state) ==
    \/ event.sequence <= state.last_sequence
    \/ Introduces(event) /\ event.introduces \in DOMAIN state.objects
    \/ Derives(event) /\ \/ event.derives.source \notin DOMAIN state.objects
                         \/ event.derives.target \in DOMAIN state.objects

Applied(event, state) ==
    [state EXCEPT
        !.objects =
            IF Introduces(event)
            THEN Put(@, event.introduces, DetectInto(Unclassified, event))
            ELSE IF Derives(event)
            THEN Put(@, event.derives.target, Transform(event, @)) ELSE @,
        !.lineage = IF Derives(event)
                    THEN @ \cup {<<event.derives.source, event.derives.target>>} ELSE @,
        !.consents = IF event.type = "CONSENT_UPDATE" THEN @ \cup {event.grant} ELSE @,
        !.approvals = IF event.type = "HUMAN_APPROVAL" THEN @ \cup {event.grant} ELSE @,
        !.last_sequence = event.sequence]

\* The facts that drive the lookup of affected rules.
EventFacts ==
    {"recipient_type", "is_minimized", "side_effectful", "trust_boundary", "has_lawful_basis",
     "purpose_compatible", "special_category_condition_confirmed", "retention_bounded",
     "recipient_disclosed", "recipient_notified", "specific_purpose", "strictly_necessary",
     "protective_measures_confirmed", "cross_border", "cross_border_mechanism_confirmed"}

\* Only an object's own fields are listed, never a path into its attributes.
ChangedVariables(event) ==
    {Fact(n) : n \in EventFacts \cap DOMAIN event.facts}
    \cup (IF event.recipient # None THEN {Fact("recipient")} ELSE {})
    \cup (IF Introduces(event) \/ Derives(event) THEN {Personal, Sensitive} ELSE {})
    \cup (IF event.type = "CONSENT_UPDATE" THEN {<<"authorization", "consent">>} ELSE {})
    \cup (IF event.type = "HUMAN_APPROVAL" THEN {<<"authorization", "approval">>} ELSE {})

-----------------------------------------------------------------------------
(* The pass *)

RecordDecision(state, event, d) ==
    [state EXCEPT
        !.violations = IF d.violated = {} THEN @
                       ELSE @ \cup {[event |-> event.id, rules |-> d.violated]},
        !.obligations = IF d.decision \notin {"REQUIRE_CONSENT", "REQUIRE_APPROVAL"} THEN @
                        ELSE @ \cup {[event |-> event.id, type |-> d.decision,
                                      objects |-> event.objects,
                                      recipient |-> event.recipient]}]

\* The state after the pass and the decision it made.
Enforced(policy, event, state) ==
    LET applied == Applied(event, state)
        d == IF ApplyRaises(event, state)
             THEN [decision |-> "BLOCK", intervention |-> None, violated |-> {}]
             ELSE Decide(policy, event, applied, ChangedVariables(event))
    IN  [state |-> RecordDecision(IF ApplyRaises(event, state) THEN state ELSE applied, event, d),
         decision |-> d.decision, intervention |-> d.intervention]

Redacted(event) ==
    [Repaired(event) EXCEPT !.body = redact_payload(event.body),
                            !.facts = Put(event.facts, "is_minimized", "true")]

Aggregated(event, source) ==
    LET content == IF event.aggregate = None THEN "stub" ELSE event.aggregate
        target == derived_object_id(source, "aggregate", event)
    IN  [Repaired(event) EXCEPT
            !.body = content, !.payload = content, !.objects = {target},
            !.derives = [source |-> source, target |-> target, preserves |-> FALSE],
            !.facts = Put(event.facts, "is_minimized", "true")]

\* The events that may replace one whose decision is a repair: one, or none.
Intervene(event, intervention) ==
    IF intervention = "REDACT" THEN {Redacted(event)}
    ELSE {Aggregated(event, o) : o \in {p \in event.objects : Cardinality(event.objects) = 1}}

\* Faulty variant: the bound is compared after the repair it should have stopped.
RepairsOnceMore(event, verdict, repairs) ==
    IF verdict.decision = "REPAIR" /\ repairs <= MaxRepairs
    THEN Intervene(event, verdict.intervention) ELSE {}

\* What becomes of the loop after a pass: it goes on with a repaired event or ends.
Continues(event, verdict, repairs) ==
    IF verdict.decision = "REPAIR" /\ repairs < MaxRepairs
    THEN Intervene(event, verdict.intervention) ELSE {}

Outcome(verdict) == IF verdict.decision = "REPAIR" THEN "BLOCK" ELSE verdict.decision

Allowed(outcome) == outcome \in {"ALLOW", "AUDIT_ONLY"}
=============================================================================
