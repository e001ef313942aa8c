-------------------------- MODULE SessionProperties --------------------------
(***************************************************************************)
(* What a runtime session should guarantee.  An effect is about to happen  *)
(* when a frame is at "execute": its event is the one verified last, and   *)
(* Disclosed is what leaves with it.                                       *)
(***************************************************************************)
EXTENDS Session

\* The types of the variables that live as long as a process does.
TypeOK ==
    /\ host \in Hosts /\ mode \in {"enforce", "audit"} /\ selection \in Selections
    /\ \A t \in DOMAIN requests :
        /\ requests[t].tool \in ToolNames \cup {"response.release"}
        /\ requests[t].references \subseteq DOMAIN held \/ host = "wrap"
        /\ requests[t].body \in Body
        /\ requests[t].status \in {"CHECKING", "WAITING_APPROVAL", "BLOCKED", "EXECUTED",
                                   "FAILED", "RAISED"}
    /\ \A o \in DOMAIN state.objects :
        state.objects[o] \in [ObjectVariables -> {"true", "false", "unknown"}]
    /\ DOMAIN session.payloads \subseteq DOMAIN state.objects \/ ~At("idle")
    /\ frame.at \in {"idle", "hydrate", "grant", "check", "verify", "escalate", "decided",
                     "execute", "raised", "over"}
    /\ frame.event # None => frame.event.type \in EventTypes
    /\ counts.sessions <= MaxSessions /\ counts.approvals <= MaxApprovals

Enforcing == At("execute") /\ mode = "enforce"
Transfers == frame.op = "call" /\ frame.event.type = "EXTERNAL_TRANSFER"
PersonalBody(body) == Classification(body)[Personal] = "true"

\* Every rule of the loaded packages, as it is written and whatever the index says of it.
LoadedRules ==
    UNION {{p.rules[i] : i \in DOMAIN p.rules} : p \in {q \in Packages : Regulated(q.id)}}

Violates(event, rule) ==
    /\ event.type \in rule.stages
    /\ \A p \in rule.applicability : Evaluate(p, event, state) = "true"
    /\ \E p \in rule.requirements : Evaluate(p, event, state) # "true"

\* What the packages are expected to be.  The loader finds a package by its id and refuses two
\* rules of one id in a package; the index would also lose one of two packages' (ByStage), and
\* looks at a rule of calls only where it depends on something every call says.
SoundPackages ==
    /\ \A p, q \in Packages : p.id = q.id => p = q
    /\ \A s \in Selections : /\ DOMAIN s \subseteq Nat
                            /\ \A i \in DOMAIN s : \E p \in Packages : p.id = s[i]
    /\ \A p \in Packages :
        /\ DOMAIN p.rules \subseteq Nat
        /\ \A i \in DOMAIN p.rules :
            /\ ComplianceRule(p.rules[i])
            /\ "TOOL_CALL" \in p.rules[i].stages =>
                Dependencies(p.rules[i]) \cap {Fact("recipient_type"), Fact("side_effectful"),
                                              Fact("trust_boundary")} # {}
    /\ \A p, q \in Packages : \A i \in DOMAIN p.rules : \A j \in DOMAIN q.rules :
        p.rules[i].rule_id = q.rules[j].rule_id => p.rules[i] = q.rules[j]

\* The bundled regulations are loaded under their own ids.
BundledPackages ==
    \A p \in Packages : (p.id = "GDPR" => p = GDPR) /\ (p.id = "PIPL" => p = PIPL)

\* What executes violates no rule of any selected package: neither the merging of duplicate
\* rules, nor the lookup of affected rules by changed variable, nor a repair that removes
\* one violation and leaves another, lets an effect past a rule that applies to it.
AdmittedComplies ==
    Enforcing => \A rule \in LoadedRules : ~Violates(frame.event, rule)

\* Sensitive data leaves only in a transaction that was itself approved, with the consent
\* for its objects and recipient on record in the session: the evidence of one approval
\* does not carry another proposal of the same transfer through.
SensitiveNeedsItsApproval ==
    (Enforcing /\ Transfers /\ Disclosed = "diagnoses"
        /\ (Regulated("GDPR") \/ Regulated("PIPL"))) =>
            /\ Request.approved
            /\ \E g \in state.consents : /\ frame.event.objects \subseteq g.objects
                                         /\ g.recipient = Request.recipient

\* Raw personal rows do not leave under GDPR: they are aggregated, or the transfer is
\* stopped, whatever failed, restarted or was approved before.
RawPersonalNeverLeaves ==
    (Enforcing /\ Transfers /\ Regulated("GDPR") /\ ~Regulated("PIPL"))
        => ~PersonalBody(Disclosed)

\* A released response holds no identifier that redaction would remove, and none at all
\* where a regulation is selected, although what is released is the text as it was before
\* the release event was verified, and repaired.
ReleasedIsClean ==
    (Enforcing /\ frame.op = "release") =>
        /\ redact_payload(Disclosed) = Disclosed
        /\ Regulated("GDPR") \/ Regulated("PIPL") => ~PersonalBody(Disclosed)

\* Every version of an event that was replaced by a repair is in the audit log as such, there
\* are never more versions than the harness allows, and an effect runs only on a version
\* whose acceptance is in the log too.
AuditedBeforeEffect ==
    frame.event # None =>
        /\ \A i \in 0 .. frame.event.id[2] - 1 :
            <<[frame.event.id EXCEPT ![2] = i], "REPAIR">> \in audit
        /\ frame.event.id[2] <= MaxRepairs
        /\ Enforcing => \E outcome \in {"ALLOW", "AUDIT_ONLY"} :
                            <<frame.event.id, outcome>> \in audit

\* No event is refused for its sequence: the adapter's counter and the repaired events of
\* the harness, which number themselves, stay behind one another's back in step.
SequencesAccepted ==
    (At("verify") \/ At("escalate")) => frame.event.sequence > state.last_sequence

\* An object whose classification does not describe what the session holds under its id is
\* marked uncertain, so a transfer of it waits for a human: ingestion that was refused
\* leaves the classification of whatever had the id before.
UncertainIsMarked ==
    At("idle") => \A o \in DOMAIN session.payloads :
        (o \notin DOMAIN state.objects \/ state.objects[o] # Classification(session.payloads[o]))
            => o \in session.uncertain

\* Within a session an object is classified once: no later result, repair, derivation or
\* rehydration under the same id changes or removes what verification knows of it.
ClassificationIsFinal ==
    [][counts'.sessions = counts.sessions =>
        \A o \in DOMAIN state.objects :
            o \in DOMAIN state'.objects /\ state'.objects[o] = state.objects[o]]_vars

\* docs/capability_broker.md: a paused transaction that is approved in a new process is
\* verified again against its own objects.
ReverifiedAgainstItsObject ==
    (Enforcing /\ Transfers /\ Request.approved /\ frame.repairs = 0) =>
        \A o \in frame.event.objects : state.objects[o] = Classification(Request.body)
=============================================================================
