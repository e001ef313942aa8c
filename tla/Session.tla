------------------------------- MODULE Session -------------------------------
(***************************************************************************)
(* The runtime session of one trajectory: adapters/langgraph.py, driven by *)
(* the capability broker (host "broker") or by an agent wrapped in process *)
(* (host "wrap"), over the compliance harness.                             *)
(*                                                                         *)
(* An operation of the session is a frame: what it is at, the request it   *)
(* serves, the event under verification and the event it started from.     *)
(* One action is one pass of the enforcement loop or one piece of adapter  *)
(* code between two passes, so an audit failure, an exception of a tool or *)
(* the end of the process may come between any two.  Calls do not overlap: *)
(* the broker holds its lock and a wrapped agent is one thread.            *)
(*                                                                         *)
(* The agent refers to what it sends: the body of a request is what it     *)
(* holds under the ids it refers to, or text of its own that nothing was   *)
(* read for.  A registered read returns any body of Reads.                 *)
(*                                                                         *)
(* SkipsRehydration, TrustsTool, ReleasesAsGiven, KeepsCertain and         *)
(* HeldAsDecided are faulty variants; no action uses them.                 *)
(***************************************************************************)
EXTENDS Harness

CONSTANTS
    Packages,          \* the regulation packages that can be loaded
    Selections,        \* the selections of them, sequences of ids
    Hosts,             \* some of "broker", "wrap"
    Reads,             \* prefix of a read's objects -> bodies it may return
    Recipients,
    Proposals,         \* the tools the agent uses
    MaxRequests,       \* bound: requests of the agent
    MaxSessions,       \* bound: processes, or invocations, one after the other
    MaxReferences,     \* bound: objects one request refers to
    MaxApprovals,      \* bound: decisions to approve
    MaxFaults,         \* bound: exceptions of tools and failing appends to the audit log
    IdReuse            \* whether a read may mint an id the agent has and the session does not

ASSUME SessionAssumption ==
    /\ {MaxRequests, MaxSessions, MaxReferences, MaxApprovals, MaxFaults} \subseteq Nat
    /\ MaxSessions > 0
    /\ IdReuse \in BOOLEAN

\* A registered read returns something.
ASSUME ReadsAssumption == Reads \in [{"rows", "page"} -> SUBSET (Body \ {"none"})]

\* The ids a session mints for reads and responses, and what is derived from them.
Minted == {"rows", "page", "response"} \X Nat
Derivation ==
    [source : Minted \cup {None}, target : Minted \cup Minted \X {"redact", "copy"} \X (Int \X Nat),
     preserves : BOOLEAN]

\* Python's None is neither.
ASSUME NoneAssumption == None \notin Minted \cup Derivation

VARIABLES
    host, mode, selection, \* deployment: fixed after Init
    requests,    \* what the agent asked for, in order
    held,        \* the agent's objects: id -> body
    state,       \* ComplianceState of the current session
    session,     \* [sequence, minted, payloads, uncertain] of the current session
    audit,       \* <<event id, outcome>> of the entries the current session appended
    frame,       \* the operation under way, or that there is none
    counts       \* [sessions, approvals, faults] so far

deployment == <<host, mode, selection>>
vars == <<host, mode, selection, requests, held, state, session, audit, frame, counts>>

-----------------------------------------------------------------------------
(* Deployment and tools *)

Load(id) == CHOOSE p \in Packages : p.id = id

\* Evaluated once per selection: AgentShield loads the packages and compiles them.
Policies == [s \in Selections |-> Compile([i \in DOMAIN s |-> Load(s[i])])]

Policy == Policies[selection]
Regulated(id) == \E i \in DOMAIN selection : selection[i] = id

Tool(side_effect, source, sink, persistent, boundary, prefix) ==
    [side_effect |-> side_effect, source |-> source, sink |-> sink,
     persistent |-> persistent, boundary |-> boundary, prefix |-> prefix]

ToolNames == {"customer.read", "web.page.read", "web.action.submit", "email.send",
              "memory.write", "unspecified"}

Registry ==
    [n \in ToolNames |->
        CASE n = "customer.read" -> Tool("false", TRUE, FALSE, FALSE, "internal", "rows")
          [] n = "web.page.read" -> Tool("false", TRUE, FALSE, FALSE, "external", "page")
          [] n = "memory.write" -> Tool("true", FALSE, TRUE, TRUE, "internal", None)
          [] n = "unspecified" -> Tool("unknown", FALSE, FALSE, FALSE, "unknown", None)
          [] OTHER -> Tool("true", FALSE, TRUE, FALSE, "external", None)]

HighRiskUnknown(tool) ==
    tool.side_effect = "unknown" /\ \/ tool.sink \/ tool.persistent
                                    \/ tool.boundary \in {"external", "unknown"}

\* The facts a tool is registered with.
PolicyMetadata(name) ==
    CASE name \in {"web.action.submit", "email.send"} ->
            [has_lawful_basis |-> "true", purpose_compatible |-> "true",
             recipient_disclosed |-> "true", recipient_notified |-> "true",
             is_minimized |-> Truth(name = "email.send" /\ Regulated("PIPL")),
             cross_border |-> "false"]
      [] name = "memory.write" ->
            [has_lawful_basis |-> "true", purpose_compatible |-> "true",
             retention_bounded |-> "false"]
      [] OTHER -> NoFacts

RiskFacts(tool) ==
    [side_effectful |-> Truth(tool.side_effect # "false"), trust_boundary |-> tool.boundary,
     recipient_type |-> IF tool.boundary = "external" THEN "external" ELSE "internal"]

\* Faulty variant: the facts of an approval are taken for granted.
TrustsTool(request, approved) ==
    [has_lawful_basis |-> "true", specific_purpose |-> "true", strictly_necessary |-> "true",
     protective_measures_confirmed |-> "true"]

ApprovalFacts(request, approved) ==
    IF approved THEN [has_lawful_basis |-> "true", specific_purpose |-> "true",
                      strictly_necessary |-> "true", protective_measures_confirmed |-> "true"]
    ELSE NoFacts

\* What the broker, and never the agent, adds to a proposal.
TrustedFacts(request, approved) ==
    IF host # "broker" THEN NoFacts
    ELSE IF request.tool # "web.action.submit" THEN ApprovalFacts(request, approved)
    ELSE Put(ApprovalFacts(request, approved), "is_minimized",
             Truth(~\E o \in request.references \cap DOMAIN state.objects :
                        state.objects[o][Personal] = "true"))

-----------------------------------------------------------------------------
(* Frames *)

\* grants is what an approval still has to record before the request is verified.
Frame(at, request, approved, grants) ==
    [at |-> at, op |-> "none", request |-> request, approved |-> approved,
     grants |-> grants, event |-> None, original |-> None, repairs |-> 0, outcome |-> None]

Idle == Frame("idle", 0, FALSE, <<>>)

At(label) == frame.at = label
Request == requests[frame.request]

FreshSession ==
    [sequence |-> -1, minted |-> [p \in DOMAIN Reads \cup {"response"} |-> 0],
     payloads |-> [o \in {} |-> "none"], uncertain |-> {}]

NextSequence ==
    (IF session.sequence > state.last_sequence THEN session.sequence
     ELSE state.last_sequence) + 1

Event(type) == LifecycleEvent(type, NextSequence)

\* The frame turns to the verification of an event of its own.
Verifying(op, event) ==
    [frame EXCEPT !.at = "verify", !.op = op, !.event = event, !.original = event,
                  !.repairs = 0, !.outcome = None]

Consumed == [session EXCEPT !.sequence = NextSequence]

Settle(status) == [requests EXCEPT ![frame.request].status = status]

Quiet == UNCHANGED <<deployment, held, audit, counts>>

-----------------------------------------------------------------------------
(* Requests of the agent *)

\* A body put together of several objects is as telling as the most telling of them.
BodyOf(references) ==
    LET kinds == {held[o] : o \in references}
    IN  CASE "diagnoses" \in kinds -> "diagnoses" [] "rows" \in kinds -> "rows"
          [] "contact" \in kinds -> "contact" [] OTHER -> "plain"

Wording(tool, references) ==
    IF tool = "response.release" \/ Registry[tool].sink THEN BodyOf(references) ELSE "none"

\* lead is the object named first.
Propose(tool, references, lead, recipient) ==
    /\ At("idle")
    /\ Len(requests) < MaxRequests
    /\ requests' = Append(requests,
            [tool |-> tool, references |-> references, lead |-> lead, recipient |-> recipient,
             body |-> Wording(tool, references), status |-> "CHECKING", approved |-> FALSE])
    /\ frame' = Frame(IF host = "broker" THEN "hydrate" ELSE "check",
                      Len(requests) + 1, FALSE, <<>>)
    /\ UNCHANGED <<deployment, held, state, session, audit, counts>>

ProposeRead ==
    \E tool \in Proposals \cap {"customer.read", "web.page.read"} :
        Propose(tool, {}, None, None)

ProposeSend ==
    \E tool \in Proposals \cap {"web.action.submit", "email.send", "memory.write",
                                "response.release"} :
    \E references \in SUBSET DOMAIN held, recipient \in Recipients :
    \E lead \in references \cup {None} :
        /\ Cardinality(references) <= MaxReferences
        /\ lead = None <=> references = {}
        /\ Propose(tool, references, lead,
                   IF tool \in {"web.action.submit", "email.send"} THEN recipient ELSE None)

\* A tool registered without risk metadata, which only a wrapped agent can have.
ProposeUnspecified ==
    /\ host = "wrap"
    /\ "unspecified" \in Proposals
    /\ Propose("unspecified", {}, None, None)

\* The broker approves a waiting transaction: the evidence is recorded in the session, and
\* the transaction, which only then leaves its status, is verified again.
Approve(t) ==
    /\ host = "broker"
    /\ At("idle")
    /\ requests[t].status = "WAITING_APPROVAL"
    /\ counts.approvals < MaxApprovals
    /\ counts' = [counts EXCEPT !.approvals = @ + 1]
    /\ frame' = Frame("hydrate", t, TRUE,
                      <<"HUMAN_APPROVAL">> \o
                      (IF Regulated("PIPL") THEN <<"CONSENT_UPDATE">> ELSE <<>>))
    /\ UNCHANGED <<deployment, requests, held, state, session, audit>>

Deny(t) ==
    /\ host = "broker"
    /\ At("idle")
    /\ requests[t].status = "WAITING_APPROVAL"
    /\ requests' = [requests EXCEPT ![t].status = "BLOCKED"]
    /\ UNCHANGED <<deployment, held, state, session, audit, frame, counts>>

-----------------------------------------------------------------------------
(* Before verification: rehydration, approval evidence, the event of the request *)

\* Faulty variant: objects the session does not know stay unknown.
SkipsRehydration(request) == {}

\* The referenced objects the session has to be given before the request is verified.
Unhydrated(request) ==
    {o \in request.references \ DOMAIN state.objects : request.body # "none"}

HydrateReferencedObjects ==
    /\ At("hydrate")
    /\ \E o \in Unhydrated(Request) :
        /\ session' = [Consumed EXCEPT !.payloads = Put(@, o, Request.body)]
        /\ frame' = Verifying("hydrate",
                [Event("TOOL_RESULT") EXCEPT !.body = Request.body, !.objects = {o},
                                             !.introduces = o])
    /\ UNCHANGED <<requests, state>> /\ Quiet

Hydrated ==
    /\ At("hydrate")
    /\ Unhydrated(Request) = {}
    /\ IF frame.grants # <<>>
       THEN /\ frame' = [frame EXCEPT !.at = "grant"]
            /\ UNCHANGED requests
       ELSE /\ frame' = [frame EXCEPT !.at = "check"]
            /\ requests' = [requests EXCEPT ![frame.request].status = "CHECKING",
                                            ![frame.request].approved = frame.approved]
    /\ UNCHANGED <<state, session>> /\ Quiet

\* The approval, and under PIPL the separate consent, for exactly what was proposed.
RecordApproval ==
    /\ At("grant")
    /\ session' = Consumed
    /\ frame' = [Verifying("grant",
            [Event(Head(frame.grants)) EXCEPT
                !.objects = Request.references, !.recipient = Request.recipient,
                !.grant = [type |-> "EXTERNAL_TRANSFER", objects |-> Request.references,
                           recipient |-> Request.recipient, approved |-> TRUE,
                           separate |-> TRUE]])
        EXCEPT !.grants = Tail(@)]
    /\ UNCHANGED <<requests, state>> /\ Quiet

\* The ids found in the arguments: the broker names only the first reference there.
ResolvedObjects(request) ==
    (IF host = "broker" THEN request.references \cap {request.lead} ELSE request.references)
    \cap (DOMAIN state.objects \cup session.uncertain)

ProposalType(tool) ==
    IF tool.persistent THEN "MEMORY_WRITE"
    ELSE IF tool.sink /\ tool.boundary = "external" THEN "EXTERNAL_TRANSFER" ELSE "TOOL_CALL"

AggregateReplacement(objects) ==
    IF \E o \in objects : /\ Cardinality(objects) = 1
                          /\ o \in DOMAIN session.payloads
                          /\ Aggregable(session.payloads[o])
    THEN "count" ELSE None

ProposedEvent(request, approved) ==
    LET tool == Registry[request.tool]
        objects == ResolvedObjects(request)
        type == ProposalType(tool)
    IN  [Event(type) EXCEPT
            !.body = request.body, !.objects = objects, !.recipient = request.recipient,
            !.facts = Merged(RiskFacts(tool),
                             Merged(PolicyMetadata(request.tool),
                                    TrustedFacts(request, approved))),
            !.aggregate = IF type = "EXTERNAL_TRANSFER" THEN AggregateReplacement(objects)
                          ELSE None]

Escalates(event, tool) ==
    \/ HighRiskUnknown(tool)
    \/ event.type = "EXTERNAL_TRANSFER" /\ event.objects \cap session.uncertain # {}

Precheck ==
    /\ At("check")
    /\ Request.tool \in ToolNames
    /\ LET event == ProposedEvent(Request, frame.approved)
       IN  frame' = IF Escalates(event, Registry[Request.tool])
                    THEN [Verifying("call", event) EXCEPT !.at = "escalate"]
                    ELSE Verifying("call", event)
    /\ session' = Consumed
    /\ UNCHANGED <<requests, state>> /\ Quiet

\* An approved response goes the way of a tool and is not registered: KeyError.
UnregisteredTool ==
    /\ At("check")
    /\ Request.tool \notin ToolNames
    /\ frame.approved
    /\ requests' = Settle("RAISED")
    /\ frame' = Idle
    /\ UNCHANGED <<state, session>> /\ Quiet

\* The response is first taken in as a result of the agent, derived from a known source.
GenerateResponse ==
    /\ At("check")
    /\ Request.tool = "response.release"
    /\ ~frame.approved
    /\ LET id == <<"response", session.minted["response"] + 1>>
           sources == {Request.lead} \cap DOMAIN state.objects
           event == [Event("TOOL_RESULT") EXCEPT !.body = Request.body, !.objects = {id}]
       IN  /\ session' = [Consumed EXCEPT !.minted["response"] = @ + 1]
           /\ frame' = Verifying("generation",
                IF sources = {} THEN [event EXCEPT !.introduces = id]
                ELSE [event EXCEPT !.derives = [source |-> Request.lead, target |-> id,
                                                preserves |-> TRUE]])
    /\ UNCHANGED <<requests, state>> /\ Quiet

-----------------------------------------------------------------------------
(* Verification *)

Appended(outcome) == audit' = audit \cup {<<frame.event.id, outcome>>}

\* One pass of the enforcement loop.
EnforcementPass ==
    /\ At("verify")
    /\ LET v == Enforced(Policy, frame.event, state)
           repaired == Continues(frame.event, v, frame.repairs)
       IN  /\ state' = v.state
           /\ \/ /\ \E e \in repaired :
                        frame' = [frame EXCEPT !.event = e, !.repairs = @ + 1]
                 /\ Appended("REPAIR")
              \/ /\ repaired = {}
                 /\ frame' = [frame EXCEPT !.at = "decided", !.outcome = Outcome(v)]
                 /\ Appended(Outcome(v))
    /\ UNCHANGED <<deployment, requests, held, session, counts>>

\* A call that no rule is asked about: it waits for a human whatever the policy.
RuntimeEscalation ==
    /\ At("escalate")
    /\ state' = Applied(frame.event, state)
    /\ frame' = [frame EXCEPT !.at = "decided", !.outcome = "REQUIRE_APPROVAL"]
    /\ Appended("REQUIRE_APPROVAL")
    /\ UNCHANGED <<deployment, requests, held, session, counts>>

-----------------------------------------------------------------------------
(* The end of an operation *)

\* A wrapped agent's invocation is over; the broker waits for the next message.
Over == IF host = "wrap" THEN Frame("over", frame.request, FALSE, <<>>) ELSE Idle

\* An exception reaches the wrapped agent, or the caller of the broker.
Raised == IF host = "wrap" THEN Frame("raised", frame.request, FALSE, <<>>) ELSE Idle

\* What has begun to execute fails; an approval not recorded leaves its transaction waiting.
RequestRaises ==
    CASE frame.op \in {"request", "escape"} \/ Request.status # "CHECKING" -> requests
      [] frame.op \in {"result", "error"} -> Settle("FAILED")
      [] OTHER -> Settle("RAISED")

\* The audit log fails closed: the event has been applied, nothing after it happens.
AuditFails ==
    /\ frame.at \in {"verify", "escalate"}
    /\ counts.faults < MaxFaults
    /\ counts' = [counts EXCEPT !.faults = @ + 1]
    /\ state' = IF frame.at = "escalate" THEN Applied(frame.event, state)
                ELSE Enforced(Policy, frame.event, state).state
    /\ requests' = RequestRaises
    /\ frame' = IF frame.op \in {"call", "result", "error"} THEN Raised ELSE Over
    /\ UNCHANGED <<deployment, held, session, audit>>

\* The wrapped agent's code lets the exception through, or catches it and goes on.
AgentErrors ==
    /\ At("raised")
    /\ session' = Consumed
    /\ frame' = Verifying("escape", Event("AGENT_ERROR"))
    /\ UNCHANGED <<requests, state>> /\ Quiet

AgentCatches ==
    /\ At("raised")
    /\ frame' = Idle
    /\ UNCHANGED <<requests, state, session>> /\ Quiet

\* What the adapter does with a decision depends on the operation it was about.
Decided(op) == At("decided") /\ frame.op = op

PreparationDecided ==
    /\ \/ Decided("hydrate") \/ Decided("grant")
    /\ frame' = [frame EXCEPT !.at = IF frame.op = "grant" /\ frame.grants # <<>>
                                     THEN "grant" ELSE "hydrate"]
    /\ UNCHANGED <<requests, state, session>> /\ Quiet

ReportDecided ==
    /\ \/ Decided("request") \/ Decided("error") \/ Decided("escape")
    /\ frame' = CASE frame.op = "error" -> Raised [] frame.op = "escape" -> Over
                  [] OTHER -> Idle
    /\ UNCHANGED <<requests, state, session>> /\ Quiet

Runs(outcome) == Allowed(outcome) \/ mode = "audit"

\* Faulty variant: the status of the transaction is the decision itself.
HeldAsDecided(outcome) == outcome

\* The broker keeps what needs a human waiting and blocks the rest.
Held(outcome) ==
    IF host = "broker" /\ outcome \in {"REQUIRE_APPROVAL", "REQUIRE_CONSENT"}
    THEN "WAITING_APPROVAL" ELSE "BLOCKED"

CallDecided ==
    /\ Decided("call")
    /\ IF Runs(frame.outcome)
       THEN /\ frame' = [frame EXCEPT !.at = "execute"]
            /\ UNCHANGED requests
       ELSE /\ frame' = Idle
            /\ requests' = Settle(Held(frame.outcome))
    /\ UNCHANGED <<state, session>> /\ Quiet

\* Faulty variant: an object whose ingestion was refused is used like any other.
KeepsCertain(id, outcome) == session.uncertain

Uncertain(id, outcome) == session.uncertain \cup (IF Allowed(outcome) THEN {} ELSE {id})

\* The observation reaches the agent, whatever was decided of it.
ResultDecided ==
    /\ Decided("result")
    /\ LET id == frame.original.introduces
           body == frame.original.body
       IN  IF id = None
           THEN UNCHANGED <<session, held>>
           ELSE /\ session' = [session EXCEPT !.payloads = Put(@, id, body),
                                              !.uncertain = Uncertain(id, frame.outcome)]
                /\ held' = Put(held, id, body)
    /\ requests' = Settle("EXECUTED")
    /\ frame' = Idle
    /\ UNCHANGED <<deployment, state, audit, counts>>

-----------------------------------------------------------------------------
(* Release of a response *)

\* Faulty variant: the response is released as it was generated.
ReleasesAsGiven(body, personal) == body

Released(body, personal) == IF personal THEN redact_payload(body) ELSE body

\* A response that is not released waits in the broker, and ends a wrapped invocation.
RefuseResponse ==
    /\ requests' = Settle(IF host = "broker" THEN "WAITING_APPROVAL" ELSE "BLOCKED")
    /\ frame' = Over

GenerationRefused ==
    /\ Decided("generation")
    /\ ~Allowed(frame.outcome)
    /\ RefuseResponse
    /\ UNCHANGED <<state, session>> /\ Quiet

\* The candidate for release is redacted first where the response holds personal data.
OfferResponse ==
    /\ Decided("generation")
    /\ Allowed(frame.outcome)
    /\ \E source \in frame.original.objects :
        LET personal == state.objects[source][Personal] = "true"
            target == <<source, IF personal THEN "redact" ELSE "copy", frame.original.id>>
        IN  frame' = Verifying("release",
                [Event("RESPONSE_GENERATED") EXCEPT
                    !.body = Released(Request.body, personal), !.objects = {target},
                    !.facts = [trust_boundary |-> "user", recipient_type |-> "requesting_user"],
                    !.derives = [source |-> source, target |-> target,
                                 preserves |-> ~personal]])
    /\ session' = Consumed
    /\ UNCHANGED <<requests, state>> /\ Quiet

ReleaseDecided ==
    /\ Decided("release")
    /\ IF Runs(frame.outcome)
       THEN /\ frame' = [frame EXCEPT !.at = "execute"]
            /\ UNCHANGED requests
       ELSE RefuseResponse
    /\ UNCHANGED <<state, session>> /\ Quiet

-----------------------------------------------------------------------------
(* Effects *)

Executing(op) == At("execute") /\ frame.op = op

\* What leaves with the effect: an audited call or response goes out as it was proposed, and
\* a response never as its verification repaired it.
Disclosed ==
    IF mode = "audit" THEN Request.body
    ELSE IF frame.op = "release" THEN frame.original.body ELSE frame.event.body

ReleaseResponse ==
    /\ Executing("release")
    /\ requests' = Settle("EXECUTED")
    /\ frame' = Over
    /\ UNCHANGED <<state, session>> /\ Quiet

\* An id the agent has from an earlier process, and which this session does not know.
Stale(id) == id \in DOMAIN held \ DOMAIN state.objects

ExecuteRead ==
    /\ Executing("call")
    /\ Registry[Request.tool].source
    /\ LET prefix == Registry[Request.tool].prefix
           id == <<prefix, session.minted[prefix] + 1>>
       IN  /\ IdReuse \/ ~Stale(id)
           /\ session' = [Consumed EXCEPT !.minted[prefix] = @ + 1]
           /\ \E body \in Reads[prefix] :
                frame' = Verifying("result",
                    [Event("TOOL_RESULT") EXCEPT !.body = body, !.objects = {id},
                                                 !.introduces = id])
    /\ UNCHANGED <<requests, state>> /\ Quiet

\* A call whose input was replaced by a bare stub lacks the tool's arguments.
ExecuteEffect ==
    /\ Executing("call")
    /\ ~Registry[Request.tool].source
    /\ Disclosed # "stub"
    /\ session' = Consumed
    /\ frame' = Verifying("result",
            [Event("TOOL_RESULT") EXCEPT
                !.body = "plain",
                !.objects = IF mode = "audit" THEN frame.original.objects
                            ELSE frame.event.objects])
    /\ UNCHANGED <<requests, state>> /\ Quiet

ToolFails ==
    /\ Executing("call")
    /\ Disclosed = "stub" \/ counts.faults < MaxFaults
    /\ counts' = [counts EXCEPT !.faults = IF Disclosed = "stub" THEN @ ELSE @ + 1]
    /\ session' = Consumed
    /\ requests' = Settle("FAILED")
    /\ frame' = Verifying("error", Event("AGENT_ERROR"))
    /\ UNCHANGED <<deployment, held, state, audit>>

-----------------------------------------------------------------------------
(* Sessions, and the specification *)

NewSession ==
    /\ counts.sessions < MaxSessions
    /\ counts' = [counts EXCEPT !.sessions = @ + 1]
    /\ session' = [FreshSession EXCEPT !.sequence = IF host = "wrap" THEN 0 ELSE -1]
    /\ state' = ComplianceState
    /\ audit' = {}

\* Every invocation of a wrapped agent has a session, and begins with the user's request.
Invoke ==
    /\ host = "wrap"
    /\ At("idle") \/ At("over")
    /\ NewSession
    /\ LET request == LifecycleEvent("USER_REQUEST", 0)
       IN  frame' = [Frame("verify", 0, FALSE, <<>>) EXCEPT !.op = "request", !.event = request,
                                                           !.original = request]
    /\ held' = [o \in {} |-> "none"]
    /\ UNCHANGED <<deployment, requests>>

\* The broker's process ends anywhere and another one opens its store: the agent and the
\* transactions remain, the session and what was under way do not.
Restart ==
    /\ host = "broker"
    /\ NewSession
    /\ requests' = [t \in DOMAIN requests |->
            IF requests[t].status = "CHECKING" THEN [requests[t] EXCEPT !.status = "RAISED"]
            ELSE requests[t]]
    /\ frame' = Idle
    /\ UNCHANGED <<deployment, held>>

Init ==
    /\ host \in Hosts
    /\ mode \in {"enforce"} \cup (IF host = "wrap" THEN {"audit"} ELSE {})
    /\ selection \in Selections
    /\ requests = <<>>
    /\ held = [o \in {} |-> "none"]
    /\ state = ComplianceState
    /\ session = FreshSession
    /\ audit = {}
    /\ frame = IF host = "wrap" THEN Frame("over", 0, FALSE, <<>>) ELSE Idle
    /\ counts = [sessions |-> IF host = "wrap" THEN 0 ELSE 1, approvals |-> 0,
                 faults |-> 0]

Next ==
    \/ ProposeRead \/ ProposeSend \/ ProposeUnspecified
    \/ \E t \in DOMAIN requests : Approve(t) \/ Deny(t)
    \/ HydrateReferencedObjects \/ Hydrated \/ RecordApproval
    \/ Precheck \/ UnregisteredTool \/ GenerateResponse
    \/ EnforcementPass \/ RuntimeEscalation \/ AuditFails
    \/ AgentErrors \/ AgentCatches
    \/ PreparationDecided \/ ReportDecided \/ CallDecided \/ ResultDecided
    \/ GenerationRefused \/ OfferResponse \/ ReleaseDecided
    \/ ReleaseResponse \/ ExecuteRead \/ ExecuteEffect \/ ToolFails
    \/ Invoke \/ Restart

Spec == Init /\ [][Next]_vars
=============================================================================
