--------------------------- MODULE TransferProofs ---------------------------
(***************************************************************************)
(* Requests of one object each, in a session: what is verified is what the *)
(* agent sends, so raw personal data does not leave under GDPR, nor        *)
(* sensitive data without the approval and the consent of its transaction. *)
(* It needs that no id stands for two bodies when a process takes over the *)
(* store, which the second process of a trajectory can rely on.            *)
(***************************************************************************)
EXTENDS SessionProofs, FiniteSetTheorems

External == {"web.action.submit", "email.send"}
Proposes == ProposeRead \/ ProposeSend \/ ProposeUnspecified

-----------------------------------------------------------------------------
(* The inductive invariant *)

\* A transaction can be taken up again as long as its broker's store is there; a request of a
\* wrapped agent is over with its invocation.
Live(t) == host = "broker" \/ (Serves /\ t = frame.request)

\* A request says what the agent holds under an id it refers to, as far as detection goes.
Says(t, o) == Classification(requests[t].body) = Classification(held[o])

\* No id stands for two bodies: what a transaction refers to is still what it says.
OneBody == \A t \in DOMAIN requests : \A o \in requests[t].references :
                o \in DOMAIN held /\ Says(t, o)

\* Requests name one object or none, and first.
Single ==
    /\ IsFiniteSet(DOMAIN held)
    /\ \A t \in DOMAIN requests :
        /\ requests[t].references \in {{}, {requests[t].lead}}
        /\ requests[t].tool \in External => requests[t].body # "none"
        /\ requests[t].tool \in External /\ requests[t].references = {}
                => requests[t].body = "plain"

\* Where a body is not what a live request says of it, the id is marked.
Agreement ==
    \A t \in DOMAIN requests : Live(t) =>
        \A o \in requests[t].references :
            o \in DOMAIN held /\ (Says(t, o) \/ o \in session.uncertain)

\* A read under an id the agent has is one the session knows, so its ingestion is refused.
Arriving ==
    InFlight /\ frame.op = "result" /\ frame.original.introduces \in DOMAIN held =>
        /\ frame.repairs = 0
        /\ frame.original.introduces \in DOMAIN state.objects
        /\ At("decided") => ~Allowed(frame.outcome)

\* What is known of an object the agent has is what it holds, or the id is marked.
Known ==
    /\ host # "broker" => DOMAIN held \subseteq DOMAIN state.objects
    /\ \A o \in DOMAIN held \cap DOMAIN state.objects :
            o \in session.uncertain \/ state.objects[o] = Classification(held[o])

\* Nothing is derived under the id of a read.
Derived == InFlight /\ frame.event.derives # None => frame.event.derives.target \notin ReadId

\* A rehydration brings what its transaction refers to, as the transaction says it.
Rehydrating ==
    InFlight /\ frame.op = "hydrate" =>
        /\ frame.original.introduces \in Request.references
        /\ frame.original.body = Request.body

\* What is about to be verified is marked as approved, or not, and known to a broker's session.
Ready ==
    At("check") =>
        /\ Request.approved = frame.approved
        /\ host = "broker" /\ Request.body # "none" => Request.references \subseteq DOMAIN state.objects

\* A rule is asked about the event, or none that was asked objects.
Weighs == At("verify") \/ (frame.at \in {"decided", "execute"} /\ Allowed(frame.outcome))

\* The facts a call to an external recipient gives, which no agent chooses.
Stated(facts) ==
    /\ "recipient_type" \in DOMAIN facts /\ facts["recipient_type"] = "external"
    /\ "special_category_condition_confirmed" \notin DOMAIN facts
    /\ "specific_purpose" \in DOMAIN facts => Request.approved

\* A call is said to be minimized only where PIPL's metadata say so, or nothing personal is sent.
Minimized(facts) ==
    "is_minimized" \in DOMAIN facts /\ facts["is_minimized"] = "true" =>
        \/ Regulated("PIPL")
        \/ \A o \in Request.references :
                o \in DOMAIN state.objects /\ state.objects[o][Personal] # "true"

\* A transfer is verified against what its request refers to, and by what the request says.
Sent ==
    InFlight /\ frame.op = "call" /\ frame.event.type = "EXTERNAL_TRANSFER" =>
        LET e == frame.event
        IN  /\ Request.tool \in External
            /\ e.recipient = Request.recipient
            /\ e.aggregate \in {None, "count"}
            /\ Stated(e.facts)
            /\ PersonalBody(e.body) => /\ e.body = Request.body
                                       /\ e.body = "diagnoses" \/ Minimized(e.facts)
            /\ Weighs =>
                /\ frame.repairs = 0 \/ PersonalBody(e.body) => e.objects = Request.references
                /\ \A o \in Request.references :
                        o \in DOMAIN state.objects
                        /\ state.objects[o] = Classification(Request.body)

TransferInv ==
    /\ Single
    /\ Agreement
    /\ Arriving
    /\ Known
    /\ Derived
    /\ Rehydrating
    /\ Ready
    /\ Sent

\* The first process mints every id once, so what it reads never replaces what was read.
FirstProcess ==
    host = "broker" => /\ counts.sessions >= 1
                       /\ counts.sessions = 1 =>
                            /\ OneBody
                            /\ \A o \in DOMAIN held : o[2] <= session.minted[o[1]]
                            /\ InFlight /\ frame.op = "result"
                                /\ frame.original.introduces # None =>
                                    LET o == frame.original.introduces
                                    IN  o \notin DOMAIN held /\ o[2] <= session.minted[o[1]]
-----------------------------------------------------------------------------
(* What a step does to the agent's objects, to the marks and to the operation under way *)

LEMMA HeldIs ==
    ASSUME [Next]_vars
    PROVE  \/ held' = held
           \/ ResultDecided \/ Invoke
<1>1. CASE \/ ProposeRead \/ ProposeSend \/ ProposeUnspecified
           \/ \E t \in DOMAIN requests : Approve(t) \/ Deny(t)
  BY <1>1 DEF ProposeRead, ProposeSend, ProposeUnspecified, Propose, Approve, Deny
<1>2. CASE \/ HydrateReferencedObjects \/ RecordApproval \/ Precheck \/ AgentErrors
           \/ GenerateResponse \/ OfferResponse \/ ExecuteRead \/ ExecuteEffect \/ ToolFails
           \/ Hydrated \/ UnregisteredTool \/ AgentCatches \/ PreparationDecided
           \/ ReportDecided \/ CallDecided \/ GenerationRefused \/ ReleaseDecided
           \/ ReleaseResponse \/ EnforcementPass \/ RuntimeEscalation \/ AuditFails \/ Restart
  BY <1>2 DEF HydrateReferencedObjects, RecordApproval, Precheck, AgentErrors, GenerateResponse,
              OfferResponse, ExecuteRead, ExecuteEffect, ToolFails, Hydrated, UnregisteredTool,
              AgentCatches, PreparationDecided, ReportDecided, CallDecided, GenerationRefused,
              ReleaseDecided, ReleaseResponse, EnforcementPass, RuntimeEscalation, AuditFails,
              Restart, Quiet
<1>3. CASE UNCHANGED vars
  BY <1>3 DEF vars
<1>4. QED
  BY <1>1, <1>2, <1>3 DEF Next

LEMMA UncertainIs ==
    ASSUME SessionInv, [Next]_vars
    PROVE  \/ session'.uncertain = session.uncertain
           \/ ResultDecided \/ Invoke \/ Restart
<1>1. DOMAIN session = {"sequence", "minted", "payloads", "uncertain"}
  BY DEF SessionInv, Shape
<1>2. DOMAIN Consumed = DOMAIN session /\ Consumed.uncertain = session.uncertain
  BY <1>1, ConsumedIs
<1>3. CASE \/ session' = session
           \/ session' = Consumed
           \/ \E payloads : session' = [Consumed EXCEPT !.payloads = payloads]
           \/ \E minted : session' = [Consumed EXCEPT !.minted = minted]
  BY <1>1, <1>2, <1>3
<1>4. CASE \/ ProposeRead \/ ProposeSend \/ ProposeUnspecified
           \/ \E t \in DOMAIN requests : Approve(t) \/ Deny(t)
  BY <1>3, <1>4 DEF ProposeRead, ProposeSend, ProposeUnspecified, Propose, Approve, Deny
<1>5. CASE \/ HydrateReferencedObjects \/ RecordApproval \/ Precheck \/ AgentErrors
           \/ OfferResponse \/ ExecuteEffect \/ ToolFails
  BY <1>3, <1>5 DEF HydrateReferencedObjects, RecordApproval, Precheck, AgentErrors,
                    OfferResponse, ExecuteEffect, ToolFails
<1>6. CASE GenerateResponse \/ ExecuteRead
  <2>1. \E minted : session' = [Consumed EXCEPT !.minted = minted]
    BY <1>6 DEF GenerateResponse, ExecuteRead
  <2>2. QED
    BY <1>3, <2>1
<1>7. CASE \/ Hydrated \/ UnregisteredTool \/ AgentCatches \/ PreparationDecided
           \/ ReportDecided \/ CallDecided \/ GenerationRefused \/ ReleaseDecided
           \/ ReleaseResponse \/ EnforcementPass \/ RuntimeEscalation \/ AuditFails
  BY <1>3, <1>7 DEF Hydrated, UnregisteredTool, AgentCatches, PreparationDecided,
                    ReportDecided, CallDecided, GenerationRefused, ReleaseDecided,
                    ReleaseResponse, EnforcementPass, RuntimeEscalation, AuditFails
<1>8. CASE UNCHANGED vars
  BY <1>3, <1>8 DEF vars
<1>9. QED
  BY <1>4, <1>5, <1>6, <1>7, <1>8 DEF Next

LEMMA StateIs ==
    ASSUME [Next]_vars
    PROVE  \/ state' = state
           \/ EnforcementPass \/ RuntimeEscalation \/ AuditFails \/ Invoke \/ Restart
<1>1. CASE \/ ProposeRead \/ ProposeSend \/ ProposeUnspecified
           \/ \E t \in DOMAIN requests : Approve(t) \/ Deny(t)
  BY <1>1 DEF ProposeRead, ProposeSend, ProposeUnspecified, Propose, Approve, Deny
<1>2. CASE \/ HydrateReferencedObjects \/ Hydrated \/ RecordApproval
           \/ Precheck \/ UnregisteredTool \/ GenerateResponse \/ AgentErrors \/ AgentCatches
           \/ PreparationDecided \/ ReportDecided \/ CallDecided
           \/ GenerationRefused \/ OfferResponse \/ ReleaseDecided
           \/ ReleaseResponse \/ ExecuteRead \/ ExecuteEffect \/ ResultDecided \/ ToolFails
  BY <1>2 DEF HydrateReferencedObjects, Hydrated, RecordApproval, Precheck, UnregisteredTool,
              GenerateResponse, AgentErrors, AgentCatches, PreparationDecided, ReportDecided,
              CallDecided, GenerationRefused, OfferResponse, ReleaseDecided, ReleaseResponse,
              ExecuteRead, ExecuteEffect, ResultDecided, ToolFails
<1>3. CASE UNCHANGED vars
  BY <1>3 DEF vars
<1>4. QED
  BY <1>1, <1>2, <1>3 DEF Next

\* What a result leaves the agent with.
LEMMA ResultIs ==
    ASSUME SessionInv, ResultDecided
    PROVE  /\ At("decided") /\ InFlight /\ frame.op = "result"
           /\ frame'.at = "idle"
           /\ state' = state
           /\ frame.original.introduces = None => UNCHANGED <<session, held>>
           /\ frame.original.introduces # None =>
                /\ DOMAIN held' = DOMAIN held \cup {frame.original.introduces}
                /\ held'[frame.original.introduces] = frame.original.body
                /\ \A o \in DOMAIN held : o # frame.original.introduces => held'[o] = held[o]
                /\ session.uncertain \subseteq session'.uncertain
                /\ ~Allowed(frame.outcome) =>
                    session'.uncertain = session.uncertain \cup {frame.original.introduces}
<1> DEFINE id == frame.original.introduces
<1>1. At("decided") /\ InFlight /\ frame.op = "result" /\ frame'.at = "idle" /\ state' = state
  BY DEF ResultDecided, Decided, InFlight, At, Idle, Frame
<1>2. CASE id = None
  BY <1>1, <1>2 DEF ResultDecided
<1>3. CASE id # None
  <2>1. /\ held' = Put(held, id, frame.original.body)
        /\ \E payloads : session' = [session EXCEPT !.payloads = payloads,
                                                    !.uncertain = Uncertain(id, frame.outcome)]
    BY <1>3 DEF ResultDecided
  <2>2. session'.uncertain = Uncertain(id, frame.outcome)
    BY <2>1 DEF SessionInv, Shape
  <2>3. /\ DOMAIN held' = DOMAIN held \cup {id}
        /\ held'[id] = frame.original.body
        /\ \A o \in DOMAIN held : o # id => held'[o] = held[o]
    BY <2>1 DEF Put
  <2>4. QED
    BY <1>1, <1>3, <2>2, <2>3 DEF Uncertain
<1>4. QED
  BY <1>2, <1>3

\* The steps that turn the frame to the verification of an event, and the operation of each.
Beginnings ==
    \/ HydrateReferencedObjects \/ RecordApproval \/ Precheck \/ GenerateResponse
    \/ AgentErrors \/ OfferResponse \/ ExecuteRead \/ ExecuteEffect \/ ToolFails \/ Invoke

Turns(op) ==
    /\ frame'.op = op
    /\ frame'.at \in {"verify", "escalate"}
    /\ op # "request" => frame'.request = frame.request

LEMMA VerifyingTurns ==
    ASSUME SessionInv, NEW op, NEW e,
           \/ frame' = Verifying(op, e)
           \/ frame' = [Verifying(op, e) EXCEPT !.at = "escalate"]
           \/ \E grants : frame' = [Verifying(op, e) EXCEPT !.grants = grants]
    PROVE  Turns(op) /\ frame'.event = e /\ frame'.original = e /\ frame'.repairs = 0
<1> DEFINE f == Verifying(op, e)
<1>1. /\ DOMAIN f = {"at", "op", "request", "approved", "grants", "event", "original",
                     "repairs", "outcome"}
      /\ f.at = "verify" /\ f.op = op /\ f.event = e /\ f.original = e /\ f.repairs = 0
      /\ f.request = frame.request
  BY DEF Verifying, SessionInv, Shape
<1> HIDE DEF f
<1>2. QED
  BY <1>1 DEF f, Turns

LEMMA OperationIs ==
    ASSUME SessionInv
    PROVE  /\ HydrateReferencedObjects => Turns("hydrate")
           /\ RecordApproval => Turns("grant")
           /\ Precheck => Turns("call")
           /\ GenerateResponse => Turns("generation")
           /\ AgentErrors => Turns("escape")
           /\ OfferResponse => Turns("release")
           /\ ExecuteRead \/ ExecuteEffect => Turns("result")
           /\ ToolFails => Turns("error")
           /\ Invoke => Turns("request")
<1>1. HydrateReferencedObjects => Turns("hydrate")
  BY VerifyingTurns DEF HydrateReferencedObjects
<1>2. RecordApproval => Turns("grant")
  <2>1. ASSUME RecordApproval
        PROVE  \E e, grants : frame' = [Verifying("grant", e) EXCEPT !.grants = grants]
    BY <2>1 DEF RecordApproval
  <2>2. QED
    BY <2>1, VerifyingTurns
<1>3. Precheck => Turns("call")
  BY VerifyingTurns DEF Precheck
<1>4. GenerateResponse => Turns("generation")
  BY VerifyingTurns DEF GenerateResponse
<1>5. AgentErrors => Turns("escape")
  BY VerifyingTurns DEF AgentErrors
<1>6. OfferResponse => Turns("release")
  BY VerifyingTurns DEF OfferResponse
<1>7. ExecuteRead \/ ExecuteEffect => Turns("result")
  BY VerifyingTurns DEF ExecuteRead, ExecuteEffect
<1>8. ToolFails => Turns("error")
  BY VerifyingTurns DEF ToolFails
<1>9. Invoke => Turns("request")
  BY FrameIs DEF Invoke, Frame, Turns
<1>10. QED
  BY <1>1, <1>2, <1>3, <1>4, <1>5, <1>6, <1>7, <1>8, <1>9

\* How an event comes to be in flight.
LEMMA FlightIs ==
    ASSUME SessionInv, [Next]_vars, InFlight'
    PROVE  \/ UNCHANGED vars
           \/ Beginnings
           \/ EnforcementPass \/ RuntimeEscalation
           \/ CallDecided /\ Runs(frame.outcome)
           \/ ReleaseDecided /\ Runs(frame.outcome)
<1>1. ASSUME NEW at \in {"idle", "hydrate", "check", "raised", "over"}, NEW request, NEW approved,
             NEW grants, frame' = Frame(at, request, approved, grants)
      PROVE  FALSE
  BY <1>1, FrameIs DEF InFlight
<1>2. CASE \/ ProposeRead \/ ProposeSend \/ ProposeUnspecified
           \/ \E t \in DOMAIN requests : Approve(t) \/ Deny(t)
  BY <1>1, <1>2 DEF ProposeRead, ProposeSend, ProposeUnspecified, Propose, Approve, Deny,
                    InFlight, At
<1>3. CASE \/ UnregisteredTool \/ AgentCatches \/ ReportDecided \/ GenerationRefused
           \/ ReleaseResponse \/ ResultDecided \/ AuditFails \/ Restart
           \/ (CallDecided /\ ~Runs(frame.outcome)) \/ (ReleaseDecided /\ ~Runs(frame.outcome))
  <2>1. frame' \in {Idle, Over, Raised}
    BY <1>3 DEF UnregisteredTool, AgentCatches, ReportDecided, GenerationRefused, CallDecided,
                ReleaseDecided, ReleaseResponse, ResultDecided, AuditFails, Restart,
                RefuseResponse
  <2>2. QED
    BY <1>1, <2>1, EndingIs
<1>4. CASE Hydrated \/ PreparationDecided
  <2>1. \E at \in {"hydrate", "grant", "check"} : frame' = [frame EXCEPT !.at = at]
    BY <1>4 DEF Hydrated, PreparationDecided
  <2>2. QED
    BY <2>1 DEF SessionInv, Shape, InFlight
<1>5. QED
  BY <1>2, <1>3, <1>4 DEF Next, Beginnings

\* How a request comes to be checked.
LEMMA CheckIs ==
    ASSUME SessionInv, [Next]_vars, At("check")'
    PROVE  \/ UNCHANGED vars
           \/ Hydrated
           \/ ProposeRead \/ ProposeSend \/ ProposeUnspecified
<1>1. ~InFlight'
  BY DEF InFlight, At
<1>2. ASSUME NEW at \in {"idle", "hydrate", "raised", "over"}, NEW request, NEW approved,
             NEW grants, frame' = Frame(at, request, approved, grants)
      PROVE  frame'.at # "check"
  BY <1>2, FrameIs
<1>3. CASE Beginnings
  BY <1>1, <1>3, OperationIs DEF Beginnings, Turns, InFlight
<1>4. CASE EnforcementPass \/ RuntimeEscalation
  BY <1>1, <1>4 DEF EnforcementPass, RuntimeEscalation, SessionInv, Shape, InFlight, At
<1>5. CASE \/ UnregisteredTool \/ AgentCatches \/ ReportDecided \/ GenerationRefused
           \/ ReleaseResponse \/ ResultDecided \/ AuditFails \/ Restart
           \/ CallDecided \/ ReleaseDecided
  <2>1. frame' \in {Idle, Over, Raised} \/ frame' = [frame EXCEPT !.at = "execute"]
    BY <1>5 DEF UnregisteredTool, AgentCatches, ReportDecided, GenerationRefused, CallDecided,
                ReleaseDecided, ReleaseResponse, ResultDecided, AuditFails, Restart,
                RefuseResponse
  <2>2. frame' = [frame EXCEPT !.at = "execute"] => frame'.at # "check"
    BY DEF SessionInv, Shape
  <2>3. QED
    BY <1>2, <2>1, <2>2, EndingIs DEF At
<1>6. CASE PreparationDecided
  BY <1>6 DEF PreparationDecided, At, SessionInv, Shape
<1>7. CASE \E t \in DOMAIN requests : Approve(t) \/ Deny(t)
  BY <1>7, <1>2 DEF Approve, Deny, At
<1>8. QED
  BY <1>3, <1>4, <1>5, <1>6, <1>7 DEF Next, Beginnings

\* Without a broker, a request is served from its proposal on.
LEMMA ServesStays ==
    ASSUME SessionInv, [Next]_vars, host # "broker", Serves',
           ~(ProposeRead \/ ProposeSend \/ ProposeUnspecified)
    PROVE  Serves /\ frame'.request = frame.request
<1>1. ASSUME NEW at \in {"idle", "raised", "over"}, NEW request, NEW approved,
             NEW grants, frame' = Frame(at, request, approved, grants)
      PROVE  FALSE
  BY <1>1, FrameIs DEF Serves, InFlight
<1>2. CASE Hydrated \/ PreparationDecided \/ CallDecided \/ ReleaseDecided
  <2>1. \/ frame' \in {Idle, Over}
        \/ Serves /\ \E at : frame' = [frame EXCEPT !.at = at]
    BY <1>2 DEF Hydrated, PreparationDecided, CallDecided, ReleaseDecided, RefuseResponse,
                Decided, Serves, InFlight, At
  <2>2. QED
    BY <1>1, <2>1, EndingIs DEF SessionInv, Shape
<1>3. CASE \/ UnregisteredTool \/ AgentCatches \/ ReportDecided \/ GenerationRefused
           \/ ReleaseResponse \/ ResultDecided \/ AuditFails
  <2>1. frame' \in {Idle, Over, Raised}
    BY <1>3 DEF UnregisteredTool, AgentCatches, ReportDecided, GenerationRefused,
                ReleaseResponse, ResultDecided, AuditFails, RefuseResponse
  <2>2. QED
    BY <1>1, <2>1, EndingIs
<1>4. CASE \/ HydrateReferencedObjects \/ RecordApproval \/ Precheck \/ GenerateResponse
           \/ OfferResponse \/ ExecuteRead \/ ExecuteEffect \/ ToolFails
  <2>1. Serves
    BY <1>4 DEF HydrateReferencedObjects, RecordApproval, Precheck, GenerateResponse,
                OfferResponse, ExecuteRead, ExecuteEffect, ToolFails, Executing, Decided,
                Serves, InFlight, At
  <2>2. QED
    BY <1>4, <2>1, OperationIs DEF Turns
<1>5. CASE EnforcementPass \/ RuntimeEscalation
  BY <1>5 DEF EnforcementPass, RuntimeEscalation, SessionInv, Shape, Serves, InFlight, At
<1>6. CASE AgentErrors \/ Invoke
  BY <1>6, OperationIs DEF Turns, Serves
<1>7. CASE (\E t \in DOMAIN requests : Approve(t) \/ Deny(t)) \/ Restart
  BY <1>7 DEF Approve, Deny, Restart
<1>8. CASE UNCHANGED vars
  BY <1>8 DEF vars, Serves, InFlight
<1>9. QED
  BY <1>2, <1>3, <1>4, <1>5, <1>6, <1>7, <1>8 DEF Next
-----------------------------------------------------------------------------
(* Requests of one object, and what they say of it *)

LEMMA OneReference ==
    ASSUME MaxReferences <= 1, IsFiniteSet(DOMAIN held),
           NEW references \in SUBSET DOMAIN held, NEW lead \in references \cup {None},
           Cardinality(references) <= MaxReferences, lead = None <=> references = {}
    PROVE  references \in {{}, {lead}}
<1>1. IsFiniteSet(references) /\ Cardinality(references) \in Nat
  BY FS_Subset, FS_CardinalityType
<1>2. Cardinality(references) = 0 \/ Cardinality(references) = 1
  BY <1>1, SessionAssumption
<1>3. CASE Cardinality(references) = 0
  BY <1>1, <1>3, FS_EmptySet
<1>4. CASE Cardinality(references) = 1
  <2>1. PICK x : references = {x}
    BY <1>1, <1>4, FS_Singleton
  <2>2. QED
    BY <2>1
<1>5. QED
  BY <1>2, <1>3, <1>4

\* A body put together of one object is that object's, as far as detection goes.
LEMMA BodyOfOne ==
    /\ BodyOf({}) = "plain"
    /\ \A o \in DOMAIN held : Classification(BodyOf({o})) = Classification(held[o])
<1>1. BodyOf({}) = "plain"
  BY DEF BodyOf
<1>2. ASSUME NEW o \in DOMAIN held
      PROVE  Classification(BodyOf({o})) = Classification(held[o])
  <2>1. {held[p] : p \in {o}} = {held[o]}
    OBVIOUS
  <2>2. BodyOf({o}) = held[o] \/ (held[o] \notin {"rows", "diagnoses", "contact"}
                                  /\ BodyOf({o}) = "plain")
    BY <2>1 DEF BodyOf
  <2>3. CASE held[o] \notin {"rows", "diagnoses", "contact"} /\ BodyOf({o}) = "plain"
    BY <2>3 DEF Classification, FieldCategories, PatternCategories
  <2>4. QED
    BY <2>2, <2>3
<1>3. QED
  BY <1>1, <1>2

\* What the agent proposes names one object or none, and says what is held of it.
LEMMA ProposalIs ==
    ASSUME MaxReferences <= 1, SessionInv, Single, Proposes
    PROVE  \E tool, references, lead, recipient :
            /\ Propose(tool, references, lead, recipient)
            /\ references \in SUBSET DOMAIN held
            /\ references \in {{}, {lead}}
            /\ references # {} \/ tool \in External => Wording(tool, references) = BodyOf(references)
<1>1. CASE ProposeRead \/ ProposeUnspecified
  <2>1. PICK tool \in {"customer.read", "web.page.read", "unspecified"} :
            Propose(tool, {}, None, None)
    BY <1>1 DEF ProposeRead, ProposeUnspecified
  <2>2. tool \notin External
    BY DEF External
  <2>3. QED
    BY <2>1, <2>2
<1>2. CASE ProposeSend
  <2>1. PICK tool, references, lead, recipient :
            /\ tool \in {"web.action.submit", "email.send", "memory.write", "response.release"}
            /\ references \in SUBSET DOMAIN held
            /\ lead \in references \cup {None}
            /\ Cardinality(references) <= MaxReferences
            /\ lead = None <=> references = {}
            /\ Propose(tool, references, lead, recipient)
    BY <1>2 DEF ProposeSend
  <2>2. references \in {{}, {lead}}
    BY <2>1, OneReference DEF Single
  <2>3. tool = "response.release" \/ Registry[tool].sink
    BY <2>1 DEF Registry, ToolNames, Tool
  <2>4. Wording(tool, references) = BodyOf(references)
    BY <2>3 DEF Wording
  <2>5. QED
    BY <2>1, <2>2, <2>4
<1>3. QED
  BY <1>1, <1>2 DEF Proposes

LEMMA SingleStays ==
    ASSUME MaxReferences <= 1, SessionInv, Single, [Next]_vars
    PROVE  Single'
<1>1. IsFiniteSet(DOMAIN held')
  <2>1. IsFiniteSet(DOMAIN held)
    BY DEF Single
  <2>2. ResultDecided => IsFiniteSet(DOMAIN held')
    BY <2>1, ResultIs, FS_AddElement
  <2>3. Invoke => IsFiniteSet(DOMAIN held')
    BY FS_EmptySet DEF Invoke
  <2>4. QED
    BY <2>1, <2>2, <2>3, HeldIs
<1> DEFINE Good(r) ==
             /\ r.references \in {{}, {r.lead}}
             /\ r.tool \in External => r.body # "none"
             /\ r.tool \in External /\ r.references = {} => r.body = "plain"
<1>2. \A t \in DOMAIN requests : Good(requests[t])
  BY DEF Single
<1>3. CASE ~Proposes
  <2>1. /\ DOMAIN requests' = DOMAIN requests
        /\ \A t \in DOMAIN requests : Asks(requests'[t], requests[t])
    BY <1>3, RequestsStay DEF Proposes
  <2>2. ASSUME NEW q, NEW r, Asks(q, r), Good(r)
        PROVE  Good(q)
    BY <2>2 DEF Asks
  <2>3. \A t \in DOMAIN requests' : Good(requests'[t])
    BY <1>2, <2>1, <2>2
  <2>4. QED
    BY <1>1, <2>3 DEF Single
<1>4. CASE Proposes
  <2>1. PICK tool, references, lead, recipient :
            /\ Propose(tool, references, lead, recipient)
            /\ references \in {{}, {lead}}
            /\ tool \in External => Wording(tool, references) = BodyOf(references)
    BY <1>4, ProposalIs
  <2>2. tool \in External => /\ Wording(tool, references) # "none"
                             /\ references = {} => Wording(tool, references) = "plain"
    BY <2>1, BodyOfType, BodyOfOne
  <2>3. Good(requests'[Len(requests) + 1])
    BY <2>1, <2>2, ProposalIsAppended
  <2>4. \A t \in DOMAIN requests' : Good(requests'[t])
    <3>1. /\ DOMAIN requests' = DOMAIN requests \cup {Len(requests) + 1}
          /\ \A u \in DOMAIN requests : requests'[u] = requests[u]
      BY <2>1, ProposalIsAppended
    <3> HIDE DEF Good
    <3>2. QED
      BY <1>2, <2>3, <3>1
  <2>5. QED
    BY <1>1, <2>4 DEF Single
<1>5. QED
  BY <1>3, <1>4

\* A repeated id is marked when its ingestion is refused, and a new one is of no live request.
LEMMA AgreementStays ==
    ASSUME MaxReferences <= 1, SessionInv, Single, Agreement, Arriving, [Next]_vars,
           Restart => OneBody
    PROVE  Agreement'
<1>1. UNCHANGED host
  BY StaysDeployed DEF deployment
<1>2. CASE Proposes
  <2>1. PICK tool, references, lead, recipient :
            /\ Propose(tool, references, lead, recipient)
            /\ references \in SUBSET DOMAIN held
            /\ references \in {{}, {lead}}
            /\ references # {} => Wording(tool, references) = BodyOf(references)
    BY <1>2, ProposalIs
  <2> DEFINE n == Len(requests) + 1
  <2>2. /\ UNCHANGED <<held, session>>
        /\ DOMAIN requests' = DOMAIN requests \cup {n}
        /\ requests'[n].references = references
        /\ requests'[n].body = Wording(tool, references)
        /\ \A u \in DOMAIN requests : requests'[u] = requests[u]
        /\ frame'.request = n
    BY <2>1, ProposalIsAppended DEF Propose
  <2>3. ASSUME NEW o \in references
        PROVE  o \in DOMAIN held /\ Classification(requests'[n].body) = Classification(held[o])
    <3>1. references = {o} /\ o \in DOMAIN held
      BY <2>1
    <3>2. QED
      BY <2>1, <2>2, <3>1, BodyOfOne
  <2>4. ASSUME NEW t \in DOMAIN requests, t # n, Live(t)'
        PROVE  Live(t)
    BY <1>1, <2>2, <2>4 DEF Live
  <2>5. QED
    BY <2>2, <2>3, <2>4 DEF Agreement, Says
<1>3. CASE ~Proposes
  <2>1. /\ DOMAIN requests' = DOMAIN requests
        /\ \A t \in DOMAIN requests : requests'[t].references = requests[t].references
                                      /\ requests'[t].body = requests[t].body
    BY <1>3, RequestsStay DEF Proposes, Asks
  <2>2. ASSUME NEW t, Live(t)'
        PROVE  Live(t)
    <3>1. host = "broker" \/ (host # "broker" /\ Serves' /\ t = frame'.request)
      BY <1>1, <2>2 DEF Live
    <3>2. QED
      BY <1>3, <3>1, ServesStays DEF Live, Proposes
  <2>3. ASSUME NEW t \in DOMAIN requests, Live(t), NEW o \in requests[t].references
        PROVE  o \in DOMAIN held /\ (Says(t, o) \/ o \in session.uncertain)
    BY <2>3 DEF Agreement
  <2>4. CASE Restart
    <3>1. held' = held
      BY <2>4 DEF Restart
    <3>2. QED
      BY <2>1, <2>4, <3>1 DEF Agreement, OneBody, Says
  <2>5. CASE Invoke
    <3>1. host = "wrap" /\ ~Serves'
      BY <2>5, OperationIs DEF Invoke, Turns, Serves
    <3>2. QED
      BY <1>1, <3>1 DEF Agreement, Live
  <2>6. CASE held' = held /\ session'.uncertain = session.uncertain
    BY <2>1, <2>2, <2>3, <2>6 DEF Agreement, Says
  <2>7. CASE ResultDecided
    <3> DEFINE id == frame.original.introduces
    <3>1. At("decided") /\ InFlight /\ frame.op = "result" /\ frame'.at = "idle"
      BY <2>7, ResultIs
    <3>2. CASE id = None
      BY <2>1, <2>2, <2>3, <2>7, <3>2, ResultIs DEF Agreement, Says
    <3>3. CASE id # None /\ id \in DOMAIN held
      <4>1. ~Allowed(frame.outcome)
        BY <3>1, <3>3 DEF Arriving
      <4>2. session'.uncertain = session.uncertain \cup {id}
        BY <2>7, <3>3, <4>1, ResultIs
      <4>3. DOMAIN held' = DOMAIN held /\ \A o \in DOMAIN held : o # id => held'[o] = held[o]
        BY <2>7, <3>3, ResultIs
      <4>4. QED
        BY <2>1, <2>2, <2>3, <4>2, <4>3 DEF Agreement, Says
    <3>4. CASE id # None /\ id \notin DOMAIN held
      <4>1. session.uncertain \subseteq session'.uncertain
        BY <2>7, <3>4, ResultIs
      <4>2. DOMAIN held \subseteq DOMAIN held' /\ \A o \in DOMAIN held : held'[o] = held[o]
        BY <2>7, <3>4, ResultIs
      <4>3. QED
        BY <2>1, <2>2, <2>3, <4>1, <4>2 DEF Agreement, Says
    <3>5. QED
      BY <3>2, <3>3, <3>4
  <2>8. QED
    BY <2>4, <2>5, <2>6, <2>7, HeldIs, UncertainIs
<1>4. QED
  BY <1>2, <1>3
-----------------------------------------------------------------------------
(* What is known of what the agent holds *)

\* A pass adds the object its event brings or derives, and no other.
LEMMA PassAdds ==
    ASSUME SessionInv, At("verify"), NEW o, o \notin DOMAIN state.objects,
           o \in DOMAIN Enforced(Policy, frame.event, state).state.objects
    PROVE  \/ frame.original.introduces # None /\ o = frame.original.introduces
           \/ frame.event.derives # None /\ o = frame.event.derives.target
<1> DEFINE e == frame.event
           v == Enforced(Policy, e, state)
<1>1. StateRecord(state) /\ EventRecord(e) /\ e.introduces = frame.original.introduces
  BY IsVerifying DEF SessionInv, Origins, InFlight, At
<1>2. v.state.objects = state.objects \/ v.state.objects = Applied(e, state).objects
  BY <1>1, EnforcedIs
<1>3. Applied(e, state).objects = IF Introduces(e)
            THEN Put(state.objects, e.introduces, DetectInto(Unclassified, e))
            ELSE IF Derives(e)
            THEN Put(state.objects, e.derives.target, Transform(e, state.objects))
            ELSE state.objects
  BY <1>1 DEF Applied, StateRecord
<1>4. o \notin DOMAIN state.objects /\ o \in DOMAIN v.state.objects
  OBVIOUS
<1>5. ASSUME NEW key, NEW value, o \in DOMAIN Put(state.objects, key, value)
      PROVE  o = key
  BY <1>4, <1>5 DEF Put
<1> HIDE DEF e, v
<1>6. \/ Introduces(e) /\ o = e.introduces
      \/ Derives(e) /\ o = e.derives.target
  <2>1. CASE Introduces(e)
    BY <1>2, <1>3, <1>4, <1>5, <2>1
  <2>2. CASE ~Introduces(e) /\ Derives(e)
    BY <1>2, <1>3, <1>4, <1>5, <2>2
  <2>3. QED
    BY <1>2, <1>3, <1>4, <2>1, <2>2
<1>7. QED
  BY <1>1, <1>6 DEF Introduces, Derives, e

LEMMA PassKnows ==
    ASSUME SessionInv, Identified, Admission, TransferInv, At("verify"),
           state' = Enforced(Policy, frame.event, state).state,
           UNCHANGED host, held' = held, session'.uncertain = session.uncertain
    PROVE  Known'
<1> DEFINE v == Enforced(Policy, frame.event, state)
<1>1. InFlight /\ SessionInv /\ Preserved(state, v.state)
  BY IsVerifying, EnforcedIs DEF InFlight, At
<1>2. ASSUME NEW o \in DOMAIN held, o \in DOMAIN state.objects
      PROVE  o \in session.uncertain \/ v.state.objects[o] = Classification(held[o])
  BY <1>1, <1>2 DEF TransferInv, Known, Preserved
<1>3. ASSUME NEW o \in DOMAIN held, o \notin DOMAIN state.objects, o \in DOMAIN v.state.objects
      PROVE  o \in session.uncertain \/ v.state.objects[o] = Classification(held[o])
  <2>1. o \in ReadId /\ o # None
    BY ReadIdIs DEF Identified
  <2>2. frame.original.introduces = o
    BY <1>1, <1>3, <2>1, PassAdds DEF TransferInv, Derived
  <2>3. frame.op \in {"hydrate", "result", "generation"}
    BY <1>1, <2>1, <2>2 DEF SessionInv, Brought
  <2>4. frame.op # "result"
    BY <1>1, <1>3, <2>2 DEF TransferInv, Arriving
  <2>5. frame.op # "generation"
    <3>1. ASSUME frame.op = "generation"
          PROVE  o \in {"response"} \X Nat
      BY <1>1, <2>1, <2>2, <3>1 DEF Admission, Generated
    <3>2. QED
      BY <2>1, <3>1 DEF ReadId
  <2>6. /\ frame.op = "hydrate"
        /\ o \in Request.references
        /\ frame.original.body = Request.body
    BY <1>1, <2>2, <2>3, <2>4, <2>5 DEF TransferInv, Rehydrating
  <2>7. v.state.objects[o] = Classification(Request.body)
    <3>1. frame.repairs > 0 \/ Pending
      BY <2>6 DEF Pending, SessionInv, Shape
    <3>2. QED
      BY <2>1, <2>2, <2>6, <3>1, PassBrings
  <2>8. /\ frame.request \in DOMAIN requests
        /\ Live(frame.request)
    BY <1>1, <2>6 DEF SessionInv, RequestsOK, Serves, Live
  <2>9. Says(frame.request, o) \/ o \in session.uncertain
    BY <2>6, <2>8 DEF TransferInv, Agreement, Request
  <2>10. QED
    BY <2>7, <2>9 DEF Says, Request
<1>4. host # "broker" => DOMAIN held \subseteq DOMAIN v.state.objects
  BY <1>1 DEF TransferInv, Known, Preserved
<1>5. QED
  BY <1>2, <1>3, <1>4 DEF Known

\* Where the marks, what the agent holds and the objects known stay, so does what is known of it.
LEMMA KnownKept ==
    ASSUME Known, UNCHANGED host, held' = held, session'.uncertain = session.uncertain,
           state'.objects = state.objects
    PROVE  Known'
  BY DEF Known

LEMMA KnownStays ==
    ASSUME SessionInv, Identified, Admission, TransferInv, [Next]_vars
    PROVE  Known'
<1>1. UNCHANGED host /\ Known
  BY StaysDeployed DEF deployment, TransferInv
<1>2. CASE EnforcementPass \/ (AuditFails /\ At("verify"))
  <2>1. /\ At("verify")
        /\ state' = Enforced(Policy, frame.event, state).state
        /\ held' = held /\ session' = session
    BY <1>2 DEF EnforcementPass, AuditFails, At
  <2>2. QED
    BY <1>1, <2>1, PassKnows
<1>3. CASE RuntimeEscalation \/ (AuditFails /\ At("escalate"))
  <2>1. /\ At("escalate")
        /\ state' = Applied(frame.event, state)
        /\ held' = held /\ session' = session
    BY <1>3 DEF RuntimeEscalation, AuditFails, At
  <2>2. Applied(frame.event, state).objects = state.objects
    <3>1. /\ frame.event.introduces = None /\ frame.event.derives = None
          /\ StateRecord(state)
      BY <2>1, EscalationApplies DEF SessionInv, EscalatedBringsNothing, Shape
    <3>2. QED
      BY <3>1 DEF Applied, Introduces, Derives, StateRecord
  <2>3. QED
    BY <1>1, <2>1, <2>2, KnownKept
<1>4. CASE ResultDecided
  <2> DEFINE id == frame.original.introduces
  <2>1. At("decided") /\ InFlight /\ state' = state
    BY <1>4, ResultIs
  <2>2. CASE id = None
    BY <1>1, <1>4, <2>1, <2>2, ResultIs, KnownKept
  <2>3. CASE id # None
    <3>1. /\ DOMAIN held' = DOMAIN held \cup {id}
          /\ held'[id] = frame.original.body
          /\ \A o \in DOMAIN held : o # id => held'[o] = held[o]
          /\ session.uncertain \subseteq session'.uncertain
          /\ ~Allowed(frame.outcome) => id \in session'.uncertain
      BY <1>4, <2>3, ResultIs
    <3>2. /\ id \in DOMAIN state.objects
          /\ Allowed(frame.outcome) => state.objects[id] = Classification(frame.original.body)
      BY <2>1, <2>3 DEF SessionInv, Brought
    <3>3. QED
      BY <1>1, <2>1, <3>1, <3>2 DEF Known
  <2>4. QED
    BY <2>2, <2>3
<1>5. CASE Invoke \/ Restart
  <2>1. DOMAIN state'.objects = {}
    BY <1>5 DEF Invoke, Restart, NewSession, ComplianceState
  <2>2. host # "broker" => DOMAIN held' = {}
    BY <1>5 DEF Invoke, Restart
  <2>3. QED
    BY <1>1, <2>1, <2>2 DEF Known
<1>6. CASE ~(ResultDecided \/ Invoke \/ Restart) /\ state' = state
  BY <1>1, <1>6, HeldIs, UncertainIs, KnownKept
<1>7. CASE ~(EnforcementPass \/ RuntimeEscalation \/ AuditFails \/ Invoke \/ Restart)
  BY <1>4, <1>6, <1>7, StateIs
<1>8. QED
  BY <1>2, <1>3, <1>5, <1>7 DEF AuditFails, At
-----------------------------------------------------------------------------
(* What is in flight brings, and what is about to be verified *)

LEMMA ArrivingStays ==
    ASSUME ~IdReuse, SessionInv, Identified, Arriving, [Next]_vars
    PROVE  Arriving'
<1> SUFFICES ASSUME InFlight', frame'.op = "result", frame'.original.introduces \in DOMAIN held'
             PROVE  /\ frame'.repairs = 0
                    /\ frame'.original.introduces \in DOMAIN state'.objects
                    /\ frame'.at = "decided" => ~Allowed(frame'.outcome)
  BY DEF Arriving, At
<1>1. frame'.original.introduces # None
  BY StepKeeps DEF SessionInv, RequestsOK
<1>2. CASE UNCHANGED vars
  BY <1>2 DEF vars, Arriving, InFlight, At
<1>3. CASE EnforcementPass
  <2> DEFINE v == Enforced(Policy, frame.event, state)
             repaired == Continues(frame.event, v, frame.repairs)
             o == frame.original.introduces
  <2>1. /\ At("verify") /\ InFlight
        /\ state' = v.state
        /\ held' = held
        /\ \/ \E e \in repaired : frame' = [frame EXCEPT !.event = e, !.repairs = @ + 1]
           \/ frame' = [frame EXCEPT !.at = "decided", !.outcome = Outcome(v)]
    BY <1>3 DEF EnforcementPass, InFlight, At
  <2>2. frame'.op = frame.op /\ frame'.original = frame.original
    BY <2>1 DEF SessionInv, Shape
  <2>3. frame.repairs = 0 /\ o \in DOMAIN state.objects
    BY <2>1, <2>2 DEF Arriving
  <2>4. v.decision = "BLOCK" /\ v.state.objects = state.objects
    <3>1. StateRecord(state) /\ EventRecord(frame.event)
      BY <2>1, IsVerifying
    <3>2. frame.event = frame.original
      BY <2>1, <2>3 DEF SessionInv, Origins
    <3>3. ApplyRaises(frame.event, state)
      BY <1>1, <2>2, <2>3, <3>2 DEF ApplyRaises, Introduces
    <3>4. QED
      BY <3>1, <3>3, EnforcedIs
  <2>5. repaired = {}
    BY <2>4 DEF Continues
  <2>6. frame' = [frame EXCEPT !.at = "decided", !.outcome = Outcome(v)]
    BY <2>1, <2>5
  <2>7. frame'.repairs = 0 /\ frame'.outcome = "BLOCK"
    BY <2>3, <2>4, <2>6 DEF SessionInv, Shape, Outcome
  <2>8. QED
    BY <2>1, <2>2, <2>3, <2>4, <2>7 DEF Allowed
<1>4. CASE RuntimeEscalation
  <2>1. frame'.original = frame.original
    BY <1>4 DEF RuntimeEscalation, SessionInv, Shape
  <2>2. QED
    BY <1>1, <1>4, <2>1, EscalationApplies DEF RuntimeEscalation
<1>5. CASE ExecuteRead
  <2> DEFINE prefix == Registry[Request.tool].prefix
             id == <<prefix, session.minted[prefix] + 1>>
  <2>1. ~Stale(id) /\ UNCHANGED <<held, state>>
    BY <1>5 DEF ExecuteRead, Quiet
  <2>2. \E body : frame' = Verifying("result",
            [Event("TOOL_RESULT") EXCEPT !.body = body, !.objects = {id}, !.introduces = id])
    BY <1>5 DEF ExecuteRead
  <2>3. frame'.original.introduces = id /\ frame'.repairs = 0 /\ frame'.at = "verify"
    <3>1. PICK body : frame' = Verifying("result",
            [Event("TOOL_RESULT") EXCEPT !.body = body, !.objects = {id}, !.introduces = id])
      BY <2>2
    <3> DEFINE e == [Event("TOOL_RESULT") EXCEPT !.body = body, !.objects = {id},
                                                 !.introduces = id]
    <3>2. e.introduces = id
      BY DEF Event, LifecycleEvent
    <3>3. frame' = Verifying("result", e)
      BY <3>1
    <3> HIDE DEF e, id
    <3>4. QED
      BY <3>2, <3>3, VerifyingTurns, VerifyingAt
  <2>4. QED
    BY <2>1, <2>3 DEF Stale
<1>6. CASE ExecuteEffect
  <2>1. PICK objects : frame' = Verifying("result",
            [Event("TOOL_RESULT") EXCEPT !.body = "plain", !.objects = objects])
    BY <1>6 DEF ExecuteEffect
  <2> DEFINE e == [Event("TOOL_RESULT") EXCEPT !.body = "plain", !.objects = objects]
  <2>2. frame' = Verifying("result", e) /\ e.introduces = None
    BY <2>1 DEF Event, LifecycleEvent
  <2> HIDE DEF e
  <2>3. QED
    BY <1>1, <2>2, VerifyingTurns
<1>7. CASE (CallDecided \/ ReleaseDecided) /\ Runs(frame.outcome)
  BY <1>7 DEF CallDecided, ReleaseDecided, Decided, SessionInv, Shape
<1>8. QED
  BY <1>2, <1>3, <1>4, <1>5, <1>6, <1>7, FlightIs, OperationIs DEF Beginnings, Turns

LEMMA RehydratingStays ==
    ASSUME SessionInv, Rehydrating, [Next]_vars
    PROVE  Rehydrating'
<1> SUFFICES ASSUME InFlight', frame'.op = "hydrate"
             PROVE  /\ frame'.original.introduces \in Request'.references
                    /\ frame'.original.body = Request'.body
  BY DEF Rehydrating
<1>1. CASE UNCHANGED vars
  BY <1>1 DEF vars, Rehydrating, InFlight, Request
<1>2. CASE EnforcementPass \/ RuntimeEscalation
  <2>1. /\ frame.at \in {"verify", "escalate"}
        /\ frame'.op = frame.op /\ frame'.original = frame.original
        /\ frame'.request = frame.request /\ requests' = requests
    BY <1>2 DEF EnforcementPass, RuntimeEscalation, SessionInv, Shape, At
  <2>2. QED
    BY <2>1 DEF Rehydrating, InFlight, Request
<1>3. CASE HydrateReferencedObjects
  <2>1. PICK o \in Unhydrated(Request) :
        frame' = Verifying("hydrate",
            [Event("TOOL_RESULT") EXCEPT !.body = Request.body, !.objects = {o}, !.introduces = o])
    BY <1>3 DEF HydrateReferencedObjects
  <2> DEFINE e == [Event("TOOL_RESULT") EXCEPT !.body = Request.body, !.objects = {o},
                                               !.introduces = o]
  <2>2. e.body = Request.body /\ e.introduces = o
    BY DEF Event, LifecycleEvent
  <2>3. frame' = Verifying("hydrate", e)
    BY <2>1
  <2> HIDE DEF e
  <2>4. frame'.original = e /\ frame'.request = frame.request
    BY <2>3, VerifyingTurns DEF Turns
  <2>5. Request' = Request
    BY <1>3, <2>4 DEF HydrateReferencedObjects, Request
  <2>6. QED
    BY <2>2, <2>4, <2>5 DEF Unhydrated
<1>4. CASE (CallDecided \/ ReleaseDecided) /\ Runs(frame.outcome)
  BY <1>4 DEF CallDecided, ReleaseDecided, Decided, SessionInv, Shape
<1>5. QED
  BY <1>1, <1>2, <1>3, <1>4, FlightIs, OperationIs DEF Beginnings, Turns

\* What a repair derives, and what a release does, has an id of three parts; a read's has two.
LEMMA DerivedId ==
    ASSUME NEW a, NEW b, NEW c
    PROVE  <<a, b, c>> \notin ReadId
<1>1. ASSUME NEW x \in ReadId
      PROVE  DOMAIN x = 1 .. 2
  BY DEF ReadId
<1>2. DOMAIN <<a, b, c>> = 1 .. 3
  OBVIOUS
<1>3. 3 \in 1 .. 3 /\ 3 \notin 1 .. 2
  OBVIOUS
<1>4. QED
  BY <1>1, <1>2, <1>3

\* A repair derives what its event derived, or an object of its own.
LEMMA IntervenesDerives ==
    ASSUME NEW e, EventRecord(e), NEW intervention, NEW r \in Intervene(e, intervention)
    PROVE  \/ r.derives = e.derives
           \/ \E a, b, c : r.derives.target = <<a, b, c>>
<1>1. DOMAIN Repaired(e) = DOMAIN e /\ Repaired(e).derives = e.derives
  BY DEF Repaired, EventRecord
<1>2. ASSUME NEW body, NEW facts, r = [Repaired(e) EXCEPT !.body = body, !.facts = facts]
      PROVE  r.derives = e.derives
  BY <1>1, <1>2 DEF EventRecord
<1>3. ASSUME NEW content, NEW target, NEW derives, NEW facts,
             r = [Repaired(e) EXCEPT !.body = content, !.payload = content,
                                     !.objects = {target}, !.derives = derives,
                                     !.facts = facts]
      PROVE  r.derives = derives
  BY <1>1, <1>3 DEF EventRecord
<1>4. r = Redacted(e) => r.derives = e.derives
  BY <1>2 DEF Redacted
<1>5. ASSUME NEW o, r = Aggregated(e, o)
      PROVE  \E a, b, c : r.derives.target = <<a, b, c>>
  <2>1. r.derives = [source |-> o, target |-> derived_object_id(o, "aggregate", e),
                     preserves |-> FALSE]
    BY <1>3, <1>5 DEF Aggregated
  <2>2. r.derives.target = <<o, "aggregate", e.id>>
    BY <2>1 DEF derived_object_id
  <2>3. QED
    BY <2>2
<1>6. QED
  BY <1>4, <1>5 DEF Intervene

LEMMA OthersDeriveNothing ==
    ASSUME SessionInv,
           \/ HydrateReferencedObjects \/ RecordApproval \/ Precheck \/ AgentErrors
           \/ ExecuteRead \/ ExecuteEffect \/ ToolFails \/ Invoke
    PROVE  frame'.event.derives = None
<1>1. ASSUME NEW op, NEW e, e.derives = None,
             \/ frame' = Verifying(op, e)
             \/ frame' = [Verifying(op, e) EXCEPT !.at = "escalate"]
             \/ \E grants : frame' = [Verifying(op, e) EXCEPT !.grants = grants]
      PROVE  frame'.event.derives = None
  BY <1>1, VerifyingTurns
<1>2. \A type : Event(type).derives = None
  BY DEF Event, LifecycleEvent
<1>3. CASE HydrateReferencedObjects \/ ExecuteRead
  <2>1. PICK op, body, objects, introduces :
            frame' = Verifying(op, [Event("TOOL_RESULT") EXCEPT
                        !.body = body, !.objects = objects, !.introduces = introduces])
    BY <1>3 DEF HydrateReferencedObjects, ExecuteRead
  <2> DEFINE e == [Event("TOOL_RESULT") EXCEPT !.body = body, !.objects = objects,
                                               !.introduces = introduces]
  <2>2. e.derives = None /\ frame' = Verifying(op, e)
    BY <2>1 DEF Event, LifecycleEvent
  <2> HIDE DEF e
  <2>3. QED
    BY <1>1, <2>2
<1>4. CASE ExecuteEffect
  <2>1. PICK objects : frame' = Verifying("result",
            [Event("TOOL_RESULT") EXCEPT !.body = "plain", !.objects = objects])
    BY <1>4 DEF ExecuteEffect
  <2> DEFINE e == [Event("TOOL_RESULT") EXCEPT !.body = "plain", !.objects = objects]
  <2>2. e.derives = None /\ frame' = Verifying("result", e)
    BY <2>1 DEF Event, LifecycleEvent
  <2> HIDE DEF e
  <2>3. QED
    BY <1>1, <2>2
<1>5. CASE AgentErrors \/ ToolFails
  BY <1>1, <1>2, <1>5 DEF AgentErrors, ToolFails
<1>6. CASE RecordApproval
  <2>1. PICK grant : frame' = [Verifying("grant", [Event(Head(frame.grants)) EXCEPT
                                !.objects = Request.references, !.recipient = Request.recipient,
                                !.grant = grant])
                               EXCEPT !.grants = Tail(@)]
    BY <1>6 DEF RecordApproval
  <2> DEFINE e == [Event(Head(frame.grants)) EXCEPT
                        !.objects = Request.references, !.recipient = Request.recipient,
                        !.grant = grant]
  <2>2. e.derives = None /\ frame' = [Verifying("grant", e) EXCEPT !.grants = Tail(@)]
    BY <2>1 DEF Event, LifecycleEvent
  <2> HIDE DEF e
  <2>3. \E grants : frame' = [Verifying("grant", e) EXCEPT !.grants = grants]
    BY <2>2
  <2>4. QED
    BY <1>1, <2>2, <2>3
<1>7. CASE Precheck
  <2>1. \/ frame' = Verifying("call", ProposedEvent(Request, frame.approved))
        \/ frame' = [Verifying("call", ProposedEvent(Request, frame.approved))
                      EXCEPT !.at = "escalate"]
    BY <1>7 DEF Precheck
  <2>2. ProposedEvent(Request, frame.approved).derives = None
    BY DEF ProposedEvent, Event, LifecycleEvent
  <2>3. QED
    BY <1>1, <2>1, <2>2
<1>8. CASE Invoke
  BY <1>8 DEF Invoke, LifecycleEvent, Frame
<1>9. QED
  BY <1>3, <1>4, <1>5, <1>6, <1>7, <1>8

LEMMA DerivedStays ==
    ASSUME SessionInv, Identified, Derived, [Next]_vars
    PROVE  Derived'
<1> SUFFICES ASSUME InFlight', frame'.event.derives # None
             PROVE  frame'.event.derives.target \notin ReadId
  BY DEF Derived
<1>1. CASE UNCHANGED vars
  BY <1>1 DEF vars, Derived, InFlight
<1>2. CASE EnforcementPass
  <2> DEFINE v == Enforced(Policy, frame.event, state)
             repaired == Continues(frame.event, v, frame.repairs)
  <2>1. /\ At("verify") /\ InFlight
        /\ \/ \E e \in repaired : frame' = [frame EXCEPT !.event = e, !.repairs = @ + 1]
           \/ frame' = [frame EXCEPT !.at = "decided", !.outcome = Outcome(v)]
    BY <1>2 DEF EnforcementPass, InFlight, At
  <2>2. frame.event.derives # None => frame.event.derives.target \notin ReadId
    BY <2>1 DEF Derived
  <2>3. CASE \E e \in repaired : frame' = [frame EXCEPT !.event = e, !.repairs = @ + 1]
    <3>1. PICK e \in repaired : frame' = [frame EXCEPT !.event = e, !.repairs = @ + 1]
      BY <2>3
    <3>2. e \in Intervene(frame.event, v.intervention) /\ frame'.event = e
      BY <3>1 DEF Continues, SessionInv, Shape
    <3>3. e.derives = frame.event.derives \/ \E a, b, c : e.derives.target = <<a, b, c>>
      <4>1. EventRecord(frame.event)
        BY <2>1, IsVerifying
      <4> HIDE DEF v
      <4>2. QED
        BY <3>2, <4>1, IntervenesDerives
    <3>4. QED
      BY <2>2, <3>2, <3>3, DerivedId
  <2>4. CASE frame' = [frame EXCEPT !.at = "decided", !.outcome = Outcome(v)]
    BY <2>2, <2>4 DEF SessionInv, Shape
  <2>5. QED
    BY <2>1, <2>3, <2>4
<1>3. CASE RuntimeEscalation \/ ((CallDecided \/ ReleaseDecided) /\ Runs(frame.outcome))
  <2>1. frame'.event = frame.event /\ InFlight
    BY <1>3 DEF RuntimeEscalation, CallDecided, ReleaseDecided, Decided, SessionInv, Shape,
                InFlight, At
  <2>2. QED
    BY <2>1 DEF Derived
<1>4. CASE GenerateResponse
  <2>1. Generated' /\ frame'.op = "generation"
    BY <1>4, GenerateResponseAdmits, OperationIs DEF Admission, Turns
  <2>2. frame'.event = frame'.original
    BY <1>4, VerifyingTurns DEF GenerateResponse
  <2>3. frame'.event.derives.target \in {"response"} \X Nat
    BY <2>1, <2>2 DEF Generated
  <2>4. QED
    BY <2>3 DEF ReadId
<1>5. CASE OfferResponse
  <2>1. PICK source \in frame.original.objects :
            LET personal == state.objects[source][Personal] = "true"
                target == <<source, IF personal THEN "redact" ELSE "copy", frame.original.id>>
            IN  frame' = Verifying("release",
                    [Event("RESPONSE_GENERATED") EXCEPT
                        !.body = Released(Request.body, personal), !.objects = {target},
                        !.facts = [trust_boundary |-> "user",
                                   recipient_type |-> "requesting_user"],
                        !.derives = [source |-> source, target |-> target,
                                     preserves |-> ~personal]])
    BY <1>5 DEF OfferResponse
  <2> DEFINE personal == state.objects[source][Personal] = "true"
             target == <<source, IF personal THEN "redact" ELSE "copy", frame.original.id>>
             derives == [source |-> source, target |-> target, preserves |-> ~personal]
             e == [Event("RESPONSE_GENERATED") EXCEPT
                        !.body = Released(Request.body, personal), !.objects = {target},
                        !.facts = [trust_boundary |-> "user",
                                   recipient_type |-> "requesting_user"],
                        !.derives = derives]
  <2>2. e.derives = derives
    BY DEF Event, LifecycleEvent
  <2>3. frame' = Verifying("release", e)
    BY <2>1
  <2>4. frame'.event.derives.target = target
    <3> HIDE DEF e
    <3>1. QED
      BY <2>2, <2>3, VerifyingTurns
  <2>5. QED
    BY <2>4, DerivedId
<1>6. CASE HydrateReferencedObjects \/ RecordApproval \/ Precheck \/ AgentErrors \/ ExecuteRead
           \/ ExecuteEffect \/ ToolFails \/ Invoke
  BY <1>6, OthersDeriveNothing
<1>7. QED
  BY <1>1, <1>2, <1>3, <1>4, <1>5, <1>6, FlightIs DEF Beginnings
-----------------------------------------------------------------------------
(* What is about to be verified *)

LEMMA ReadyStays ==
    ASSUME SessionInv, Ready, [Next]_vars
    PROVE  Ready'
<1> SUFFICES ASSUME frame'.at = "check"
             PROVE  /\ Request'.approved = frame'.approved
                    /\ host' = "broker" /\ Request'.body # "none"
                            => Request'.references \subseteq DOMAIN state'.objects
  BY DEF Ready, At
<1>1. UNCHANGED host
  BY StaysDeployed DEF deployment
<1>2. CASE UNCHANGED vars
  BY <1>2 DEF vars, Ready, At, Request
<1>3. CASE Hydrated
  <2>1. /\ frame.at = "hydrate" /\ Unhydrated(Request) = {} /\ state' = state
        /\ \/ frame' = [frame EXCEPT !.at = "grant"]
           \/ /\ frame' = [frame EXCEPT !.at = "check"]
              /\ requests' = [requests EXCEPT ![frame.request].status = "CHECKING",
                                              ![frame.request].approved = frame.approved]
    BY <1>3 DEF Hydrated, At
  <2>2. /\ frame' = [frame EXCEPT !.at = "check"]
        /\ requests' = [requests EXCEPT ![frame.request].status = "CHECKING",
                                        ![frame.request].approved = frame.approved]
    BY <2>1 DEF SessionInv, Shape
  <2>3. frame'.request = frame.request /\ frame'.approved = frame.approved
    BY <2>2 DEF SessionInv, Shape
  <2>4. frame.request \in DOMAIN requests
    BY <2>1 DEF SessionInv, RequestsOK, Serves
  <2>5. RequestRecord(requests[frame.request])
    BY <2>4 DEF SessionInv, RequestsOK
  <2>6. requests'[frame.request] =
            [[requests[frame.request] EXCEPT !.status = "CHECKING"]
                EXCEPT !.approved = frame.approved]
    BY <2>2, <2>4
  <2>7. /\ requests'[frame.request].approved = frame.approved
        /\ requests'[frame.request].body = Request.body
        /\ requests'[frame.request].references = Request.references
    BY <2>5, <2>6 DEF RequestRecord, Request
  <2>8. Request.body # "none" => Request.references \subseteq DOMAIN state.objects
    BY <2>1 DEF Unhydrated
  <2>9. QED
    BY <2>1, <2>3, <2>7, <2>8 DEF Request
<1>4. CASE Proposes
  <2>1. PICK tool, references, lead, recipient : Propose(tool, references, lead, recipient)
    BY <1>4 DEF Proposes, ProposeRead, ProposeSend, ProposeUnspecified
  <2>2. host # "broker"
    <3>1. host = "broker" => frame' = Frame("hydrate", Len(requests) + 1, FALSE, <<>>)
      BY <2>1 DEF Propose
    <3>2. QED
      BY <3>1 DEF Frame
  <2>3. requests'[frame'.request].approved = frame'.approved
    BY <2>1, ProposalIsAppended
  <2>4. QED
    BY <1>1, <2>2, <2>3 DEF Request
<1>5. QED
  BY <1>2, <1>3, <1>4, CheckIs DEF Proposes, At
-----------------------------------------------------------------------------
(* A transfer is what its request says *)

LEMMA MergedIs ==
    ASSUME NEW f, NEW g, NEW k
    PROVE  /\ k \in DOMAIN Merged(f, g) <=> k \in DOMAIN f \cup DOMAIN g
           /\ k \in DOMAIN g => Merged(f, g)[k] = g[k]
           /\ k \in DOMAIN f /\ k \notin DOMAIN g => Merged(f, g)[k] = f[k]
  BY DEF Merged

\* The broker adds what an approval stands for, and whether what a form says is minimized.
LEMMA TrustedIs ==
    ASSUME NEW request, NEW approved
    PROVE  /\ DOMAIN TrustedFacts(request, approved)
                \subseteq {"has_lawful_basis", "specific_purpose", "strictly_necessary",
                           "protective_measures_confirmed", "is_minimized"}
           /\ "specific_purpose" \in DOMAIN TrustedFacts(request, approved) => approved
           /\ "is_minimized" \in DOMAIN TrustedFacts(request, approved) =>
                /\ host = "broker"
                /\ TrustedFacts(request, approved)["is_minimized"] = "true" =>
                    ~\E o \in request.references \cap DOMAIN state.objects :
                        state.objects[o][Personal] = "true"
<1> DEFINE facts == ApprovalFacts(request, approved)
           given == {"has_lawful_basis", "specific_purpose", "strictly_necessary",
                     "protective_measures_confirmed"}
<1>1. DOMAIN facts \subseteq given /\ ("specific_purpose" \in DOMAIN facts => approved)
  BY DEF ApprovalFacts, NoFacts
<1> HIDE DEF facts
<1>2. CASE host # "broker"
  BY <1>2 DEF TrustedFacts, NoFacts
<1>3. CASE host = "broker" /\ request.tool # "web.action.submit"
  BY <1>1, <1>3 DEF TrustedFacts, facts
<1>4. CASE host = "broker" /\ request.tool = "web.action.submit"
  <2> DEFINE personal == \E o \in request.references \cap DOMAIN state.objects :
                            state.objects[o][Personal] = "true"
  <2>1. TrustedFacts(request, approved) = Put(facts, "is_minimized", Truth(~personal))
    BY <1>4 DEF TrustedFacts, facts
  <2> HIDE DEF personal
  <2>2. /\ DOMAIN TrustedFacts(request, approved) = DOMAIN facts \cup {"is_minimized"}
        /\ TrustedFacts(request, approved)["is_minimized"] = Truth(~personal)
    BY <2>1 DEF Put
  <2>3. Truth(~personal) = "true" => ~personal
    BY DEF Truth
  <2>4. QED
    BY <1>1, <1>4, <2>2, <2>3 DEF personal
<1>5. QED
  BY <1>2, <1>3, <1>4

\* What verification is told of a transfer.
LEMMA TransferFacts ==
    ASSUME NEW request, request.tool \in External, NEW approved
    PROVE  LET facts == Merged(RiskFacts(Registry[request.tool]),
                               Merged(PolicyMetadata(request.tool), TrustedFacts(request, approved)))
           IN  /\ "recipient_type" \in DOMAIN facts /\ facts["recipient_type"] = "external"
               /\ "special_category_condition_confirmed" \notin DOMAIN facts
               /\ "specific_purpose" \in DOMAIN facts => approved
               /\ "is_minimized" \in DOMAIN facts /\ facts["is_minimized"] = "true" =>
                    \/ Regulated("PIPL")
                    \/ /\ host = "broker"
                       /\ ~\E o \in request.references \cap DOMAIN state.objects :
                            state.objects[o][Personal] = "true"
<1> DEFINE trusted == TrustedFacts(request, approved)
           risk == RiskFacts(Registry[request.tool])
           metadata == PolicyMetadata(request.tool)
           known == Merged(metadata, trusted)
           facts == Merged(risk, known)
<1>1. /\ DOMAIN risk = {"side_effectful", "trust_boundary", "recipient_type"}
      /\ risk["recipient_type"] = "external"
  BY DEF RiskFacts, Registry, External, ToolNames, Tool
<1>2. /\ DOMAIN metadata = {"has_lawful_basis", "purpose_compatible", "recipient_disclosed",
                            "recipient_notified", "is_minimized", "cross_border"}
      /\ metadata["is_minimized"] = "true" => Regulated("PIPL")
  BY DEF PolicyMetadata, External, Truth
<1>3. /\ DOMAIN trusted \subseteq {"has_lawful_basis", "specific_purpose", "strictly_necessary",
                                   "protective_measures_confirmed", "is_minimized"}
      /\ "specific_purpose" \in DOMAIN trusted => approved
      /\ "is_minimized" \in DOMAIN trusted =>
            /\ host = "broker"
            /\ trusted["is_minimized"] = "true" =>
                    ~\E o \in request.references \cap DOMAIN state.objects :
                        state.objects[o][Personal] = "true"
  BY TrustedIs
<1> HIDE DEF trusted, risk, metadata
<1>4. /\ \A k : k \in DOMAIN known <=> k \in DOMAIN metadata \cup DOMAIN trusted
      /\ \A k : k \in DOMAIN facts <=> k \in DOMAIN risk \cup DOMAIN known
      /\ "is_minimized" \in DOMAIN trusted => known["is_minimized"] = trusted["is_minimized"]
      /\ "is_minimized" \notin DOMAIN trusted => known["is_minimized"] = metadata["is_minimized"]
      /\ "is_minimized" \in DOMAIN known => facts["is_minimized"] = known["is_minimized"]
      /\ "recipient_type" \notin DOMAIN known => facts["recipient_type"] = risk["recipient_type"]
  <2>1. /\ \A k : k \in DOMAIN known <=> k \in DOMAIN metadata \cup DOMAIN trusted
        /\ "is_minimized" \in DOMAIN trusted => known["is_minimized"] = trusted["is_minimized"]
        /\ "is_minimized" \notin DOMAIN trusted
                => known["is_minimized"] = metadata["is_minimized"]
    BY <1>2, MergedIs
  <2> HIDE DEF known
  <2>2. /\ \A k : k \in DOMAIN facts <=> k \in DOMAIN risk \cup DOMAIN known
        /\ "is_minimized" \in DOMAIN known => facts["is_minimized"] = known["is_minimized"]
        /\ "recipient_type" \notin DOMAIN known
                => facts["recipient_type"] = risk["recipient_type"]
    BY <1>1, MergedIs
  <2>3. QED
    BY <2>1, <2>2
<1> HIDE DEF known, facts
<1>5. /\ "recipient_type" \in DOMAIN facts /\ facts["recipient_type"] = "external"
      /\ "special_category_condition_confirmed" \notin DOMAIN facts
      /\ "specific_purpose" \in DOMAIN facts => approved
  BY <1>1, <1>2, <1>3, <1>4
<1>6. "is_minimized" \in DOMAIN facts /\ facts["is_minimized"] = "true" =>
            \/ Regulated("PIPL")
            \/ /\ host = "broker"
               /\ ~\E o \in request.references \cap DOMAIN state.objects :
                    state.objects[o][Personal] = "true"
  BY <1>2, <1>3, <1>4
<1>7. QED
  BY <1>5, <1>6 DEF facts, known, risk, metadata, trusted

\* A repair keeps the recipient and adds one fact; what it leaves of the body is redacted, or
\* an aggregate in place of it.
LEMMA IntervenesKeeps ==
    ASSUME NEW e, EventRecord(e), NEW intervention, NEW r \in Intervene(e, intervention)
    PROVE  /\ r.recipient = e.recipient
           /\ r.facts = Put(e.facts, "is_minimized", "true")
           /\ \/ r.body = redact_payload(e.body) /\ r.objects = e.objects
              \/ r.body = IF e.aggregate = None THEN "stub" ELSE e.aggregate
<1>1. /\ DOMAIN Repaired(e) = DOMAIN e
      /\ Repaired(e).recipient = e.recipient /\ Repaired(e).objects = e.objects
  BY DEF Repaired, EventRecord
<1>2. ASSUME NEW body, NEW facts, r = [Repaired(e) EXCEPT !.body = body, !.facts = facts]
      PROVE  /\ r.recipient = e.recipient /\ r.objects = e.objects
             /\ r.body = body /\ r.facts = facts
  BY <1>1, <1>2 DEF EventRecord
<1>3. ASSUME NEW content, NEW target, NEW derives, NEW facts,
             r = [Repaired(e) EXCEPT !.body = content, !.payload = content,
                                     !.objects = {target}, !.derives = derives,
                                     !.facts = facts]
      PROVE  r.recipient = e.recipient /\ r.body = content /\ r.facts = facts
  BY <1>1, <1>3 DEF EventRecord
<1> DEFINE facts == Put(e.facts, "is_minimized", "true")
           content == IF e.aggregate = None THEN "stub" ELSE e.aggregate
<1>4. r = Redacted(e) => /\ r.recipient = e.recipient /\ r.objects = e.objects
                         /\ r.body = redact_payload(e.body) /\ r.facts = facts
  <2> HIDE DEF facts
  <2>1. QED
    BY <1>2 DEF Redacted, facts
<1>5. ASSUME NEW o, r = Aggregated(e, o)
      PROVE  r.recipient = e.recipient /\ r.body = content /\ r.facts = facts
  <2>1. PICK target, derives : r = [Repaired(e) EXCEPT !.body = content, !.payload = content,
                                     !.objects = {target}, !.derives = derives,
                                     !.facts = facts]
    BY <1>5 DEF Aggregated
  <2> HIDE DEF facts, content
  <2>2. QED
    BY <1>3, <2>1
<1>6. QED
  BY <1>4, <1>5 DEF Intervene

\* What redaction leaves is personal only where it left it as it was; an aggregate never is.
LEMMA RedactedIs ==
    /\ \A body : PersonalBody(redact_payload(body)) =>
            body = "diagnoses" /\ redact_payload(body) = body
    /\ ~PersonalBody("stub") /\ ~PersonalBody("count") /\ ~PersonalBody("plain")
    /\ PersonalBody("diagnoses")
<1>1. ASSUME NEW body
      PROVE  PersonalBody(body) <=> body \in {"rows", "diagnoses", "contact"}
  <2>1. Personal \in ObjectVariables
    BY DEF ObjectVariables
  <2>2. Classification(body)[Personal] = Truth(FieldCategories(body) \cup PatternCategories(body) # {})
    BY <2>1 DEF Classification
  <2>3. FieldCategories(body) \cup PatternCategories(body) # {}
            <=> body \in {"rows", "diagnoses", "contact"}
    BY DEF FieldCategories, PatternCategories
  <2>4. QED
    BY <2>2, <2>3 DEF PersonalBody, Truth
<1>2. QED
  BY <1>1 DEF redact_payload

\* A transfer stays what its request says where its event stays and what is known stays known.
LEMMA SentKept ==
    ASSUME SessionInv, Sent, InFlight, Preserved(state, state'), UNCHANGED <<deployment, requests>>,
           frame'.op = frame.op, frame'.event = frame.event, frame'.request = frame.request,
           frame'.repairs = frame.repairs, Weighs' => Weighs
    PROVE  Sent'
<1>1. Request' = Request /\ (Regulated("PIPL")' <=> Regulated("PIPL"))
  BY RulesStay DEF Request
<1>2. ASSUME NEW facts, Minimized(facts)
      PROVE  Minimized(facts)'
  BY <1>1, <1>2 DEF Minimized, Preserved
<1>3. ASSUME frame.op = "call", frame.event.type = "EXTERNAL_TRANSFER"
      PROVE  LET e == frame.event
             IN  /\ Request.tool \in External
                 /\ e.recipient = Request.recipient
                 /\ e.aggregate \in {None, "count"}
                 /\ Stated(e.facts)
                 /\ PersonalBody(e.body) => /\ e.body = Request.body
                                            /\ e.body = "diagnoses" \/ Minimized(e.facts)
                 /\ Weighs' =>
                    /\ frame.repairs = 0 \/ PersonalBody(e.body) => e.objects = Request.references
                    /\ \A o \in Request.references :
                            o \in DOMAIN state'.objects
                            /\ state'.objects[o] = Classification(Request.body)
  BY <1>3 DEF Sent, Preserved
<1>4. QED
  BY <1>1, <1>2, <1>3 DEF Sent, Stated

\* A transfer is first verified against what its request refers to; where a mark is on that, a
\* human is asked instead.
LEMMA PrecheckSends ==
    ASSUME SessionInv, TransferInv, Precheck
    PROVE  Sent'
<1> DEFINE e == ProposedEvent(Request, frame.approved)
           tool == Registry[Request.tool]
           facts == Merged(RiskFacts(tool), Merged(PolicyMetadata(Request.tool),
                                                   TrustedFacts(Request, frame.approved)))
<1>1. /\ frame.at = "check" /\ Request.tool \in ToolNames
      /\ UNCHANGED <<host, selection, requests, held, state>>
      /\ IF Escalates(e, tool) THEN frame' = [Verifying("call", e) EXCEPT !.at = "escalate"]
         ELSE frame' = Verifying("call", e)
  BY DEF Precheck, Quiet, deployment, At
<1>2. /\ e.type = ProposalType(tool) /\ e.body = Request.body
      /\ e.recipient = Request.recipient /\ e.facts = facts
      /\ e.objects = ResolvedObjects(Request)
      /\ e.aggregate \in {None, "count"}
  <2> DEFINE base == Event(ProposalType(tool))
             objects == ResolvedObjects(Request)
             aggregate == IF ProposalType(tool) = "EXTERNAL_TRANSFER"
                          THEN AggregateReplacement(objects) ELSE None
  <2>1. /\ DOMAIN base = {"type", "id", "sequence", "body", "payload", "objects", "recipient",
                          "facts", "introduces", "derives", "aggregate", "grant"}
        /\ base.type = ProposalType(tool)
    BY DEF Event, LifecycleEvent
  <2>2. e = [base EXCEPT
                !.body = Request.body, !.objects = objects, !.recipient = Request.recipient,
                !.facts = facts, !.aggregate = aggregate]
    BY DEF ProposedEvent
  <2>3. aggregate \in {None, "count"}
    BY DEF AggregateReplacement
  <2> HIDE DEF base, objects, facts, e, tool, aggregate
  <2>4. QED
    BY <2>1, <2>2, <2>3 DEF objects
<1>3. Request.tool \in External => Stated(facts)
  <2>1. Request.approved = frame.approved
    BY <1>1 DEF TransferInv, Ready, At
  <2>2. QED
    BY <2>1, TransferFacts DEF Stated
<1>4. Request.tool \in External =>
        ("is_minimized" \in DOMAIN facts /\ facts["is_minimized"] = "true" =>
            \/ Regulated("PIPL")
            \/ /\ host = "broker"
               /\ ~\E o \in Request.references \cap DOMAIN state.objects :
                    state.objects[o][Personal] = "true")
  BY TransferFacts
<1> HIDE DEF facts, e
<1> SUFFICES ASSUME ProposalType(tool) = "EXTERNAL_TRANSFER"
             PROVE  Sent'
  <2>1. /\ frame'.event = e
    BY <1>1, VerifyingTurns
  <2>2. QED
    BY <1>2, <2>1 DEF Sent
<1>5. Request.tool \in External
  BY <1>1 DEF ProposalType, Registry, ToolNames, Tool, External
<1> HIDE DEF tool
<1>6. /\ frame'.event = e /\ frame'.request = frame.request /\ frame'.repairs = 0
      /\ ~Escalates(e, tool) => frame'.at = "verify"
      /\ Escalates(e, tool) => frame'.at = "escalate"
  <2>1. frame'.event = e /\ frame'.request = frame.request /\ frame'.repairs = 0
    BY <1>1, VerifyingTurns DEF Turns
  <2>2. DOMAIN Verifying("call", e) = DOMAIN frame /\ Verifying("call", e).at = "verify"
    BY DEF Verifying, SessionInv, Shape
  <2>3. QED
    BY <1>1, <2>1, <2>2 DEF SessionInv, Shape
<1>7. Request' = Request /\ (Regulated("PIPL")' <=> Regulated("PIPL"))
  BY <1>1, <1>6 DEF Request, Regulated
<1>8. /\ frame.request \in DOMAIN requests /\ Live(frame.request)
      /\ Request.references \in {{}, {Request.lead}}
      /\ Request.body # "none"
  BY <1>1, <1>5 DEF SessionInv, RequestsOK, Serves, Live, TransferInv, Single, Request
<1>9. \A o \in Request.references :
        o \in DOMAIN held /\ (Says(frame.request, o) \/ o \in session.uncertain)
  BY <1>8 DEF TransferInv, Agreement, Request
<1>10. Request.references \subseteq DOMAIN state.objects
  <2>1. CASE host = "broker"
    BY <1>1, <1>8, <2>1 DEF TransferInv, Ready, At
  <2>2. CASE host # "broker"
    BY <1>9, <2>2 DEF TransferInv, Known
  <2>3. QED
    BY <2>1, <2>2
<1>11. e.objects = Request.references
  BY <1>2, <1>8, <1>10 DEF ResolvedObjects
<1>12. frame'.at = "verify" =>
        \A o \in Request.references : state.objects[o] = Classification(Request.body)
  <2>1. SUFFICES ASSUME frame'.at = "verify", NEW o \in Request.references
                 PROVE  state.objects[o] = Classification(Request.body)
    OBVIOUS
  <2>2. o \notin session.uncertain
    BY <1>2, <1>6, <1>11, <2>1 DEF Escalates
  <2>3. /\ Classification(Request.body) = Classification(held[o])
        /\ o \in DOMAIN held /\ o \in DOMAIN state.objects
    BY <1>9, <1>10, <2>2 DEF Says, Request
  <2>4. QED
    BY <2>2, <2>3 DEF TransferInv, Known
<1>13. frame'.at # "decided" /\ frame'.at # "execute"
  BY <1>6
<1> DEFINE f == frame'.event.facts
<1>14. /\ frame'.event.type = "EXTERNAL_TRANSFER" /\ frame'.event.body = Request.body
       /\ frame'.event.recipient = Request.recipient /\ frame'.event.objects = Request.references
       /\ frame'.event.aggregate \in {None, "count"} /\ f = facts
  BY <1>2, <1>6, <1>11
<1>15. /\ "recipient_type" \in DOMAIN f /\ f["recipient_type"] = "external"
       /\ "special_category_condition_confirmed" \notin DOMAIN f
       /\ "specific_purpose" \in DOMAIN f => Request'.approved
  BY <1>3, <1>5, <1>7, <1>14 DEF Stated
<1>16. "is_minimized" \in DOMAIN f /\ f["is_minimized"] = "true" =>
        \/ Regulated("PIPL")'
        \/ \A o \in Request'.references :
                o \in DOMAIN state'.objects /\ state'.objects[o][Personal] # "true"
  BY <1>1, <1>4, <1>5, <1>7, <1>10, <1>14
<1> HIDE DEF f
<1>17. QED
  BY <1>1, <1>5, <1>6, <1>7, <1>10, <1>12, <1>13, <1>14, <1>15, <1>16
     DEF Sent, Stated, Minimized, Weighs, At, f

\* A repair leaves a transfer personal only where it left it as it was.
LEMMA PassSends ==
    ASSUME SessionInv, Sent, EnforcementPass
    PROVE  Sent'
<1> DEFINE v == Enforced(Policy, frame.event, state)
           repaired == Continues(frame.event, v, frame.repairs)
<1>1. /\ At("verify") /\ InFlight /\ Weighs
      /\ state' = v.state /\ UNCHANGED <<deployment, requests>>
      /\ \/ \E e \in repaired : frame' = [frame EXCEPT !.event = e, !.repairs = @ + 1]
         \/ frame' = [frame EXCEPT !.at = "decided", !.outcome = Outcome(v)]
  BY DEF EnforcementPass, InFlight, Weighs, At
<1>2. EventRecord(frame.event) /\ Preserved(state, state') /\ frame.repairs \in Nat
  BY <1>1, IsVerifying, EnforcedIs
<1>3. CASE frame' = [frame EXCEPT !.at = "decided", !.outcome = Outcome(v)]
  <2>1. /\ frame'.op = frame.op /\ frame'.event = frame.event
        /\ frame'.request = frame.request /\ frame'.repairs = frame.repairs
    BY <1>3 DEF SessionInv, Shape
  <2>2. QED
    BY <1>1, <1>2, <2>1, SentKept
<1>4. CASE \E e \in repaired : frame' = [frame EXCEPT !.event = e, !.repairs = @ + 1]
  <2>1. PICK r \in repaired : frame' = [frame EXCEPT !.event = r, !.repairs = @ + 1]
    BY <1>4
  <2>2. /\ frame'.op = frame.op /\ frame'.event = r /\ frame'.request = frame.request
        /\ frame'.repairs = frame.repairs + 1
    BY <2>1 DEF SessionInv, Shape
  <2>3. r \in Intervene(frame.event, v.intervention)
    BY <2>1 DEF Continues
  <2> DEFINE e == frame.event
  <2> HIDE DEF v, e
  <2>4. /\ r.type = e.type
        /\ r.recipient = e.recipient
        /\ r.aggregate = e.aggregate
        /\ r.facts = Put(e.facts, "is_minimized", "true")
        /\ \/ r.body = redact_payload(e.body) /\ r.objects = e.objects
           \/ r.body = IF e.aggregate = None THEN "stub" ELSE e.aggregate
    BY <1>2, <2>3, IntervenesIs, IntervenesKeeps DEF e
  <2>5. Request' = Request
    BY <1>1, <2>2 DEF Request
  <2>6. SUFFICES ASSUME frame.op = "call", e.type = "EXTERNAL_TRANSFER"
                 PROVE  Sent'
    BY <2>2, <2>4 DEF Sent
  <2>7. /\ Request.tool \in External
        /\ e.recipient = Request.recipient
        /\ e.aggregate \in {None, "count"}
        /\ Stated(e.facts)
        /\ PersonalBody(e.body) => e.body = Request.body /\ e.objects = Request.references
        /\ \A o \in Request.references :
                o \in DOMAIN state'.objects
                /\ state'.objects[o] = Classification(Request.body)
    BY <1>1, <1>2, <2>6 DEF Sent, Preserved, e
  <2>8. Stated(r.facts)'
    BY <2>4, <2>5, <2>7 DEF Stated, Put
  <2>9. PersonalBody(r.body) =>
            /\ r.body = "diagnoses" /\ r.body = Request.body
            /\ r.objects = Request.references
    BY <2>4, <2>7, RedactedIs
  <2>10. frame'.repairs # 0
    BY <1>2, <2>2
  <2>11. QED
    BY <2>2, <2>4, <2>5, <2>7, <2>8, <2>9, <2>10 DEF Sent
<1>5. QED
  BY <1>1, <1>3, <1>4

LEMMA SentStays ==
    ASSUME SessionInv, TransferInv, [Next]_vars
    PROVE  Sent'
<1>1. Sent
  BY DEF TransferInv
<1> SUFFICES ASSUME InFlight', frame'.op = "call"
             PROVE  Sent'
  BY DEF Sent
<1>2. CASE UNCHANGED vars
  <2>1. InFlight
    BY <1>2 DEF vars, InFlight
  <2>2. QED
    BY <1>1, <1>2, <2>1, SentKept, PreservedItself DEF vars, deployment, Weighs, At
<1>3. CASE EnforcementPass
  BY <1>1, <1>3, PassSends
<1>4. CASE RuntimeEscalation
  <2>1. /\ frame' = [frame EXCEPT !.at = "decided", !.outcome = "REQUIRE_APPROVAL"]
        /\ UNCHANGED <<deployment, requests>> /\ At("escalate") /\ InFlight
        /\ state' = Applied(frame.event, state)
    BY <1>4 DEF RuntimeEscalation, InFlight, At
  <2>2. /\ frame'.op = frame.op /\ frame'.event = frame.event
        /\ frame'.request = frame.request /\ frame'.repairs = frame.repairs
        /\ frame'.at = "decided" /\ frame'.outcome = "REQUIRE_APPROVAL"
    BY <2>1 DEF SessionInv, Shape
  <2>3. ~Weighs'
    BY <2>2 DEF Weighs, At, Allowed
  <2>4. Preserved(state, state')
    BY <2>1, EscalationApplies
  <2>5. QED
    BY <1>1, <2>1, <2>2, <2>3, <2>4, SentKept
<1>5. CASE Precheck
  BY <1>5, PrecheckSends
<1>6. CASE (CallDecided \/ ReleaseDecided) /\ Runs(frame.outcome)
  <2>1. /\ frame' = [frame EXCEPT !.at = "execute"] /\ At("decided") /\ InFlight
        /\ UNCHANGED <<deployment, requests, state>>
    BY <1>6 DEF CallDecided, ReleaseDecided, Decided, Quiet, InFlight, At
  <2>2. /\ frame'.op = frame.op /\ frame'.event = frame.event
        /\ frame'.request = frame.request /\ frame'.repairs = frame.repairs
        /\ frame'.at = "execute" /\ frame'.outcome = frame.outcome
    BY <2>1 DEF SessionInv, Shape
  <2>3. Weighs' => Weighs
    BY <2>1, <2>2 DEF Weighs, At
  <2>4. QED
    BY <1>1, <2>1, <2>2, <2>3, SentKept, PreservedItself
<1>7. QED
  BY <1>2, <1>3, <1>4, <1>5, <1>6, FlightIs, OperationIs DEF Beginnings, Turns
-----------------------------------------------------------------------------
(* The invariant *)

LEMMA TransferStays ==
    ASSUME MaxReferences <= 1, ~IdReuse, SessionInv, Identified, Admission, TransferInv,
           [Next]_vars, Restart => OneBody
    PROVE  TransferInv'
<1>1. Single /\ Agreement /\ Arriving /\ Derived /\ Rehydrating /\ Ready
  BY DEF TransferInv
<1>2. Single' /\ Agreement' /\ Arriving' /\ Derived' /\ Rehydrating' /\ Ready'
  BY <1>1, SingleStays, AgreementStays, ArrivingStays, DerivedStays, RehydratingStays, ReadyStays
<1>3. Known' /\ Sent'
  BY KnownStays, SentStays
<1>4. QED
  BY <1>2, <1>3 DEF TransferInv

LEMMA TransferBegins ==
    ASSUME Init
    PROVE  TransferInv
<1>1. ~InFlight /\ ~At("check") /\ frame.op = "none"
  BY DEF Init, Idle, Frame, InFlight, At
<1>2. DOMAIN held = {} /\ DOMAIN requests = {}
  BY DEF Init
<1>3. Single
  BY <1>2, FS_EmptySet DEF Single
<1>4. Agreement /\ Arriving /\ Known /\ Derived /\ Rehydrating /\ Ready /\ Sent
  BY <1>1, <1>2 DEF Agreement, Arriving, Known, Derived, Rehydrating, Ready, Sent
<1>5. QED
  BY <1>3, <1>4 DEF TransferInv

\* A step that starts another process is none that leaves everything.
LEMMA RestartIsNew ==
    ASSUME SessionInv, Restart
    PROVE  counts'.sessions = counts.sessions + 1 /\ ~UNCHANGED vars
<1>1. counts'.sessions = counts.sessions + 1 /\ counts.sessions \in Nat
  BY NewSessionIs DEF Restart, SessionInv, Shape
<1>2. QED
  BY <1>1 DEF vars

LEMMA TransferInvariant ==
    ASSUME SoundPackages, BundledPackages, MaxReferences <= 1, ~IdReuse
    PROVE  Spec /\ [][Restart => OneBody]_vars => []TransferInv
<1>1. Init => TransferInv
  BY TransferBegins
<1>2. TransferInv /\ SessionInv /\ Identified /\ Admission /\ [Next]_vars
            /\ [Restart => OneBody]_vars
        => TransferInv'
  <2> SUFFICES ASSUME TransferInv, SessionInv, Identified, Admission,
                      [Next]_vars, [Restart => OneBody]_vars
               PROVE  TransferInv'
    OBVIOUS
  <2>1. Restart => OneBody
    BY RestartIsNew
  <2>2. QED
    BY <2>1, TransferStays
<1>3. QED
  BY <1>1, <1>2, IdentifiedAlways, AdmissionInvariant, PTL DEF Spec
-----------------------------------------------------------------------------
(* The first process *)

\* The read of a first process mints an id that nothing is held under.
LEMMA ReadIsNew ==
    ASSUME SessionInv, Identified, ExecuteRead, \A o \in DOMAIN held : o[2] <= session.minted[o[1]]
    PROVE  /\ held' = held
           /\ frame'.original.introduces \notin DOMAIN held
           /\ frame'.original.introduces[2]
                <= session'.minted[frame'.original.introduces[1]]
<1> DEFINE prefix == Registry[Request.tool].prefix
           n == session.minted[prefix] + 1
<1>1. Request.tool \in ToolNames /\ Registry[Request.tool].source
  BY DEF ExecuteRead, Executing, SessionInv, RequestsOK, InFlight, At
<1>2. prefix \in {"rows", "page"}
  BY <1>1 DEF Registry, ToolNames, Tool
<1>3. /\ session' = [Consumed EXCEPT !.minted[prefix] = @ + 1]
      /\ \E body : frame' = Verifying("result",
            [Event("TOOL_RESULT") EXCEPT !.body = body, !.objects = {<<prefix, n>>},
                                         !.introduces = <<prefix, n>>])
      /\ held' = held
  BY DEF ExecuteRead, Quiet
<1> HIDE DEF prefix
<1>4. session.minted[prefix] \in Nat /\ session'.minted[prefix] = n
  <2>1. DOMAIN session = {"sequence", "minted", "payloads", "uncertain"}
        /\ session.minted \in [{"rows", "page", "response"} -> Nat]
    BY DEF SessionInv, Shape, Identified
  <2>2. DOMAIN Consumed = DOMAIN session /\ Consumed.minted = session.minted
    BY <2>1 DEF Consumed
  <2>3. session'.minted = [session.minted EXCEPT ![prefix] = session.minted[prefix] + 1]
    BY <1>3, <2>1, <2>2
  <2>4. QED
    BY <1>2, <2>1, <2>3
<1>5. frame'.original.introduces = <<prefix, n>>
  <2>1. PICK body : frame' = Verifying("result",
            [Event("TOOL_RESULT") EXCEPT !.body = body, !.objects = {<<prefix, n>>},
                                         !.introduces = <<prefix, n>>])
    BY <1>3
  <2> DEFINE e == [Event("TOOL_RESULT") EXCEPT !.body = body, !.objects = {<<prefix, n>>},
                                               !.introduces = <<prefix, n>>]
  <2>2. e.introduces = <<prefix, n>>
    BY DEF Event, LifecycleEvent
  <2>3. frame' = Verifying("result", e)
    BY <2>1
  <2> HIDE DEF e
  <2>4. QED
    BY <2>2, <2>3, VerifyingTurns
<1>6. n \in Nat /\ ~(n <= session.minted[prefix]) /\ n <= session'.minted[prefix]
  BY <1>4
<1> HIDE DEF n
<1>7. <<prefix, n>>[1] = prefix /\ <<prefix, n>>[2] = n
  OBVIOUS
<1>8. <<prefix, n>> \notin DOMAIN held
  BY <1>6, <1>7
<1>9. QED
  BY <1>3, <1>5, <1>6, <1>7, <1>8

\* How the object of a result that is in flight came to be.
LEMMA ResultInFlight ==
    ASSUME SessionInv, [Next]_vars, InFlight', frame'.op = "result",
           frame'.original.introduces # None
    PROVE  \/ ExecuteRead
           \/ /\ InFlight /\ frame.op = "result"
              /\ frame.original.introduces = frame'.original.introduces
              /\ held' = held
              /\ session' = session
<1>1. CASE UNCHANGED vars
  BY <1>1 DEF vars, InFlight
<1>2. CASE EnforcementPass \/ RuntimeEscalation
  BY <1>2 DEF EnforcementPass, RuntimeEscalation, SessionInv, Shape, InFlight, At
<1>3. CASE ExecuteEffect
  <2>1. PICK objects : frame' = Verifying("result",
            [Event("TOOL_RESULT") EXCEPT !.body = "plain", !.objects = objects])
    BY <1>3 DEF ExecuteEffect
  <2> DEFINE e == [Event("TOOL_RESULT") EXCEPT !.body = "plain", !.objects = objects]
  <2>2. frame' = Verifying("result", e) /\ e.introduces = None
    BY <2>1 DEF Event, LifecycleEvent
  <2> HIDE DEF e
  <2>3. QED
    BY <2>2, VerifyingTurns
<1>4. CASE (CallDecided \/ ReleaseDecided) /\ Runs(frame.outcome)
  BY <1>4 DEF CallDecided, ReleaseDecided, Decided, SessionInv, Shape
<1>5. QED
  BY <1>1, <1>2, <1>3, <1>4, FlightIs, OperationIs DEF Beginnings, Turns

LEMMA SessionsStay ==
    ASSUME SessionInv, [Next]_vars
    PROVE  Invoke \/ Restart \/ counts'.sessions = counts.sessions
<1>1. DOMAIN counts = {"sessions", "approvals", "faults"}
  BY DEF SessionInv, Shape
<1>2. CASE \/ ProposeRead \/ ProposeSend \/ ProposeUnspecified
           \/ \E t \in DOMAIN requests : Approve(t) \/ Deny(t)
  BY <1>1, <1>2 DEF ProposeRead, ProposeSend, ProposeUnspecified, Propose, Approve, Deny
<1>3. CASE \/ HydrateReferencedObjects \/ Hydrated \/ RecordApproval
           \/ Precheck \/ UnregisteredTool \/ GenerateResponse \/ AgentErrors \/ AgentCatches
           \/ PreparationDecided \/ ReportDecided \/ CallDecided \/ RuntimeEscalation
           \/ GenerationRefused \/ OfferResponse \/ ReleaseDecided \/ EnforcementPass
           \/ ReleaseResponse \/ ExecuteRead \/ ExecuteEffect \/ ResultDecided
  BY <1>3 DEF HydrateReferencedObjects, Hydrated, RecordApproval, Precheck, UnregisteredTool,
              GenerateResponse, AgentErrors, AgentCatches, PreparationDecided, ReportDecided,
              CallDecided, RuntimeEscalation, GenerationRefused, OfferResponse, ReleaseDecided,
              EnforcementPass, ReleaseResponse, ExecuteRead, ExecuteEffect, ResultDecided, Quiet
<1>4. CASE AuditFails \/ ToolFails
  <2>1. \E faults : counts' = [counts EXCEPT !.faults = faults]
    BY <1>4 DEF AuditFails, ToolFails
  <2>2. QED
    BY <1>1, <2>1
<1>5. CASE UNCHANGED vars
  BY <1>5 DEF vars
<1>6. QED
  BY <1>2, <1>3, <1>4, <1>5 DEF Next

\* The bodies of the first process stay what was read: nothing is held under its id before.
LEMMA OneBodyStays ==
    ASSUME MaxReferences <= 1, SessionInv, Single, OneBody, [Next]_vars, ~Invoke,
           ResultDecided => frame.original.introduces \notin DOMAIN held
    PROVE  OneBody'
<1>1. CASE Proposes
  <2>1. PICK tool, references, lead, recipient :
            /\ Propose(tool, references, lead, recipient)
            /\ references \in SUBSET DOMAIN held
            /\ references \in {{}, {lead}}
            /\ references # {} => Wording(tool, references) = BodyOf(references)
    BY <1>1, ProposalIs
  <2> DEFINE n == Len(requests) + 1
  <2>2. /\ held' = held
        /\ DOMAIN requests' = DOMAIN requests \cup {n}
        /\ requests'[n].references = references
        /\ requests'[n].body = Wording(tool, references)
        /\ \A u \in DOMAIN requests : requests'[u] = requests[u]
    BY <2>1, ProposalIsAppended DEF Propose
  <2>3. ASSUME NEW o \in references
        PROVE  o \in DOMAIN held /\ Classification(requests'[n].body) = Classification(held[o])
    <3>1. references = {o} /\ o \in DOMAIN held
      BY <2>1
    <3>2. QED
      BY <2>1, <2>2, <3>1, BodyOfOne
  <2>4. QED
    BY <2>2, <2>3 DEF OneBody, Says
<1>2. CASE ~Proposes
  <2>1. /\ DOMAIN requests' = DOMAIN requests
        /\ \A t \in DOMAIN requests : requests'[t].references = requests[t].references
                                      /\ requests'[t].body = requests[t].body
    BY <1>2, RequestsStay DEF Proposes, Asks
  <2>2. DOMAIN held \subseteq DOMAIN held' /\ \A o \in DOMAIN held : held'[o] = held[o]
    BY HeldIs, ResultIs
  <2>3. QED
    BY <2>1, <2>2 DEF OneBody, Says
<1>3. QED
  BY <1>1, <1>2

LEMMA FirstProcessStays ==
    ASSUME MaxReferences <= 1, SessionInv, Identified, Single, FirstProcess, [Next]_vars
    PROVE  FirstProcess'
<1> SUFFICES ASSUME host = "broker"
             PROVE  FirstProcess'
  BY StaysDeployed DEF deployment, FirstProcess
<1>1. counts.sessions >= 1 /\ counts.sessions \in Nat /\ ~Invoke
  BY DEF FirstProcess, SessionInv, Shape, Invoke
<1>2. CASE Restart
  BY <1>1, <1>2, RestartIsNew DEF FirstProcess
<1>3. CASE ~Restart
  <2>1. counts'.sessions = counts.sessions
    BY <1>1, <1>3, SessionsStay
  <2>2. SUFFICES ASSUME counts.sessions = 1
                 PROVE  FirstProcess'
    BY <1>1, <2>1 DEF FirstProcess
  <2>3. /\ OneBody
        /\ \A o \in DOMAIN held : o[2] <= session.minted[o[1]]
        /\ InFlight /\ frame.op = "result" /\ frame.original.introduces # None =>
                /\ frame.original.introduces \notin DOMAIN held
                /\ frame.original.introduces[2]
                    <= session.minted[frame.original.introduces[1]]
    BY <2>2 DEF FirstProcess
  <2>4. ResultDecided => frame.original.introduces \notin DOMAIN held
    <3>1. None \notin DOMAIN held
      BY DEF SessionInv, RequestsOK
    <3>2. QED
      BY <2>3, <3>1, ResultIs
  <2>5. OneBody'
    BY <1>1, <2>3, <2>4, OneBodyStays
  <2>6. ASSUME NEW o \in ReadId, o[2] <= session.minted[o[1]]
        PROVE  o[2] <= session'.minted[o[1]]
    <3>1. session'.minted[o[1]] >= session.minted[o[1]]
      <4>1. ~NewSession
        BY <1>1, <2>1, NewSessionIs
      <4>2. o[1] \in {"rows", "page", "response"}
        BY DEF ReadId
      <4>3. QED
        BY <4>1, <4>2, MintedStays
    <3>2. /\ o[1] \in {"rows", "page", "response"} /\ o[2] \in Nat
      BY DEF ReadId
    <3>3. session.minted[o[1]] \in Nat /\ session'.minted[o[1]] \in Nat
      BY <3>2, MintedStays DEF Identified
    <3>4. QED
      BY <2>6, <3>1, <3>2, <3>3
  <2>7. \A o \in DOMAIN held' : o[2] <= session'.minted[o[1]]
    <3>1. SUFFICES ASSUME NEW o \in DOMAIN held'
                   PROVE  o \in ReadId /\ o[2] <= session.minted[o[1]]
      BY <2>6
    <3>2. o \in ReadId
      BY HeldStays
    <3>3. o \in DOMAIN held \/ (ResultDecided /\ frame.original.introduces # None
                                /\ o = frame.original.introduces)
      BY <1>1, HeldIs, ResultIs
    <3>4. QED
      BY <2>3, <3>2, <3>3, ResultIs
  <2>8. InFlight' /\ frame'.op = "result" /\ frame'.original.introduces # None =>
            /\ frame'.original.introduces \notin DOMAIN held'
            /\ frame'.original.introduces[2]
                <= session'.minted[frame'.original.introduces[1]]
    BY <2>3, ResultInFlight, ReadIsNew
  <2>9. QED
    BY <1>1, <2>1, <2>5, <2>7, <2>8 DEF FirstProcess
<1>4. QED
  BY <1>2, <1>3

LEMMA FirstProcessInvariant ==
    ASSUME SoundPackages, BundledPackages, MaxReferences <= 1, ~IdReuse, MaxSessions <= 2
    PROVE  Spec => [](TransferInv /\ FirstProcess)
<1>1. Init => TransferInv /\ FirstProcess
  <2> SUFFICES ASSUME Init
               PROVE  FirstProcess
    BY TransferBegins
  <2>1. ~InFlight /\ DOMAIN requests = {} /\ DOMAIN held = {}
    BY DEF Init, Idle, Frame, InFlight
  <2>2. host = "broker" => counts.sessions = 1
    BY DEF Init
  <2>3. QED
    BY <2>1, <2>2 DEF FirstProcess, OneBody
<1>2. TransferInv /\ FirstProcess /\ SessionInv /\ Identified /\ Admission /\ [Next]_vars
        => (TransferInv /\ FirstProcess)'
  <2> SUFFICES ASSUME TransferInv, FirstProcess, SessionInv, Identified, Admission, [Next]_vars
               PROVE  (TransferInv /\ FirstProcess)'
    OBVIOUS
  <2>1. FirstProcess'
    BY FirstProcessStays DEF TransferInv
  <2>2. Restart => OneBody
    <3>1. SUFFICES ASSUME Restart
                   PROVE  counts.sessions = 1 /\ host = "broker"
      BY DEF FirstProcess
    <3>2. counts.sessions < MaxSessions /\ host = "broker"
      BY <3>1 DEF Restart, NewSession
    <3>3. counts.sessions \in Nat /\ counts.sessions >= 1 /\ MaxSessions \in Nat
      BY <3>2, SessionAssumption DEF FirstProcess, SessionInv, Shape
    <3>4. QED
      BY <3>2, <3>3
  <2>3. QED
    BY <2>1, <2>2, TransferStays
<1>3. QED
  BY <1>1, <1>2, IdentifiedAlways, AdmissionInvariant, PTL DEF Spec
-----------------------------------------------------------------------------
(* What a transfer that takes effect has to meet *)

LEMMA RegulationIs ==
    ASSUME SoundPackages, BundledPackages, Deployed, NEW p \in {GDPR, PIPL}, Regulated(p.id),
           NEW i \in DOMAIN p.rules
    PROVE  p.rules[i] \in LoadedRules
<1>1. GDPR.id = "GDPR" /\ PIPL.id = "PIPL"
  BY DEF GDPR, PIPL
<1>2. PICK j \in DOMAIN selection : selection[j] = p.id
  BY DEF Regulated
<1>3. PICK q \in Packages : q.id = selection[j]
  BY <1>2 DEF SoundPackages, Deployed
<1>4. p \in Packages
  BY <1>1, <1>2, <1>3 DEF BundledPackages
<1>5. QED
  BY <1>4 DEF LoadedRules

\* The rules of the bundled regulations that a transfer of personal data depends on here.
LEMMA GdprTransferRules ==
    /\ 3 \in DOMAIN GDPR.rules /\ 4 \in DOMAIN GDPR.rules
    /\ "EXTERNAL_TRANSFER" \in GDPR.rules[3].stages
    /\ GDPR.rules[3].applicability = {Is(Personal, "true"), Is(Fact("recipient_type"), "external")}
    /\ GDPR.rules[3].requirements = {Is(Fact("is_minimized"), "true")}
    /\ GDPR.rules[3].intervention = "AGGREGATE"
    /\ "EXTERNAL_TRANSFER" \in GDPR.rules[4].stages
    /\ GDPR.rules[4].applicability = {Is(GdprCandidate, "true")}
    /\ GDPR.rules[4].requirements = {Is(Fact("special_category_condition_confirmed"), "true")}
    /\ GDPR.rules[4].intervention = "REQUIRE_APPROVAL"
<1>1. /\ 3 \in DOMAIN GDPR.rules /\ 4 \in DOMAIN GDPR.rules
      /\ GDPR.rules[3] = Rule("GDPR_DATA_MINIMIZATION_001", "DATA_MINIMIZATION",
            {"EXTERNAL_TRANSFER"},
            {Is(Personal, "true"), Is(Fact("recipient_type"), "external")},
            {Is(Fact("is_minimized"), "true")}, "HIGH", "AGGREGATE")
      /\ GDPR.rules[4] = Rule("GDPR_SPECIAL_CATEGORIES_001", "SPECIAL_CATEGORY_PROCESSING",
            Disclosing, {Is(GdprCandidate, "true")},
            {Is(Fact("special_category_condition_confirmed"), "true")},
            "CRITICAL", "REQUIRE_APPROVAL")
  BY DEF GDPR
<1>2. QED
  BY <1>1 DEF Rule, Disclosing

LEMMA PiplTransferRules ==
    /\ 6 \in DOMAIN PIPL.rules /\ 7 \in DOMAIN PIPL.rules
    /\ "EXTERNAL_TRANSFER" \in PIPL.rules[6].stages
    /\ PIPL.rules[6].applicability = {Is(PiplCandidate, "true")}
    /\ Is(Fact("specific_purpose"), "true") \in PIPL.rules[6].requirements
    /\ PIPL.rules[6].intervention = "REQUIRE_APPROVAL"
    /\ "EXTERNAL_TRANSFER" \in PIPL.rules[7].stages
    /\ PIPL.rules[7].applicability = {Is(PiplCandidate, "true")}
    /\ PIPL.rules[7].requirements = {Is(SeparateConsent, "true")}
    /\ PIPL.rules[7].intervention = "REQUIRE_CONSENT"
<1>1. /\ 6 \in DOMAIN PIPL.rules /\ 7 \in DOMAIN PIPL.rules
      /\ PIPL.rules[6] = Rule("PIPL_SENSITIVE_PROCESSING_001", "SENSITIVE_PERSONAL_INFORMATION",
            Disclosing, {Is(PiplCandidate, "true")},
            {Is(Fact("specific_purpose"), "true"), Is(Fact("strictly_necessary"), "true"),
             Is(Fact("protective_measures_confirmed"), "true")},
            "CRITICAL", "REQUIRE_APPROVAL")
      /\ PIPL.rules[7] = Rule("PIPL_SENSITIVE_SEPARATE_CONSENT_001", "SENSITIVE_SEPARATE_CONSENT",
            Disclosing, {Is(PiplCandidate, "true")}, {Is(SeparateConsent, "true")},
            "CRITICAL", "REQUIRE_CONSENT")
  BY DEF PIPL
<1>2. QED
  BY <1>1 DEF Rule, Disclosing

\* A fact is true of an event that says so.
LEMMA FactHolds ==
    ASSUME NEW e, NEW s, NEW value \in {"true", "external"},
           NEW name \in {"recipient_type", "is_minimized", "special_category_condition_confirmed",
                         "specific_purpose"}
    PROVE  Evaluate(Is(Fact(name), value), e, s) = "true"
                <=> name \in DOMAIN e.facts /\ e.facts[name] = value
<1>1. Resolve(Fact(name), e, s) = IF name \in DOMAIN e.facts THEN e.facts[name] ELSE "unknown"
  BY DEF Resolve, Fact
<1>2. Is(Fact(name), value).variable = Fact(name) /\ Is(Fact(name), value).operator = "EQ"
      /\ Is(Fact(name), value).value = value
  BY DEF Is, Predicate
<1> DEFINE p == Is(Fact(name), value)
           actual == Resolve(Fact(name), e, s)
<1>3. Evaluate(p, e, s) = IF actual = "unknown" THEN "unknown" ELSE Truth(Compare(p, actual))
  BY <1>2 DEF Evaluate
<1>4. Compare(p, actual) <=> actual = value
  BY <1>2 DEF Compare
<1> HIDE DEF p
<1>5. QED
  BY <1>1, <1>3, <1>4 DEF Truth, p

\* A variable is true of an event whose one object it is known to be true of.
LEMMA ObjectHolds ==
    ASSUME NEW e, NEW s, NEW o, NEW variable \in ObjectVariables,
           e.objects = {o}, o \in DOMAIN s.objects, s.objects[o][variable] = "true"
    PROVE  Evaluate(Is(variable, "true"), e, s) = "true"
<1>1. {s.objects[q][variable] : q \in e.objects \cap DOMAIN s.objects} = {"true"}
  OBVIOUS
<1>2. ObjectValue(variable, e, s) = "true"
  BY <1>1 DEF ObjectValue, Truth
<1>3. /\ variable[1] = "object"
      /\ variable # <<"event", "event_type">> /\ variable # <<"event", "recipient">>
      /\ \A name : variable # <<"authorization", name>>
  BY DEF ObjectVariables, Personal, Sensitive, GdprCandidate, PiplCandidate
<1>4. Resolve(variable, e, s) = "true"
  BY <1>2, <1>3 DEF Resolve
<1>5. QED
  BY <1>4 DEF Evaluate, Is, Predicate, Compare, Truth

LEMMA ConsentHolds ==
    ASSUME NEW e, NEW s, Evaluate(Is(SeparateConsent, "true"), e, s) = "true"
    PROVE  \E g \in s.consents : e.objects \subseteq g.objects /\ g.recipient = e.recipient
<1>1. Resolve(SeparateConsent, e, s) = Truth(MatchingConsent(s.consents, e, TRUE))
  BY DEF Resolve, SeparateConsent
<1>2. Is(SeparateConsent, "true").variable = SeparateConsent
      /\ Is(SeparateConsent, "true").operator = "EQ" /\ Is(SeparateConsent, "true").value = "true"
  BY DEF Is, Predicate
<1>3. MatchingConsent(s.consents, e, TRUE)
  BY <1>1, <1>2 DEF Evaluate, Compare, Truth
<1>4. QED
  BY <1>3 DEF MatchingConsent

\* What detection says of the two kinds of personal data that transfers are told apart by.
LEMMA DetectionIs ==
    /\ ObjectVariables = {Personal, Sensitive, GdprCandidate, PiplCandidate}
    /\ Classification("diagnoses")[GdprCandidate] = "true"
    /\ Classification("diagnoses")[PiplCandidate] = "true"
<1>1. "health" \in FieldCategories("diagnoses") \cup PatternCategories("diagnoses")
  BY DEF FieldCategories
<1>2. \A v : "health" \in CandidateCategories(v)
  BY DEF CandidateCategories, SensitiveCategories
<1>3. GdprCandidate # Personal /\ PiplCandidate # Personal
  BY DEF GdprCandidate, PiplCandidate, Personal
<1>4. GdprCandidate \in ObjectVariables /\ PiplCandidate \in ObjectVariables
  BY DEF ObjectVariables
<1>5. QED
  BY <1>1, <1>2, <1>3, <1>4 DEF Classification, ObjectVariables, Truth

\* A transfer of personal data that takes effect sends what its request says, of the one object
\* the request refers to, which is known for what it is.
LEMMA TransferIs ==
    ASSUME SessionInv, TransferInv, Enforcing, Transfers, PersonalBody(Disclosed)
    PROVE  /\ Disclosed = Request.body /\ frame.event.body = Request.body
           /\ Request.references # {} /\ frame.event.objects = Request.references
           /\ \E o : /\ frame.event.objects = {o}
                     /\ o \in DOMAIN state.objects
                     /\ state.objects[o] = Classification(Request.body)
           /\ frame.event.recipient = Request.recipient
           /\ Stated(frame.event.facts)
           /\ Request.body = "diagnoses" \/ Minimized(frame.event.facts)
           /\ Admits
<1>1. /\ At("execute") /\ mode = "enforce" /\ frame.op = "call" /\ InFlight
      /\ frame.event.type = "EXTERNAL_TRANSFER" /\ Disclosed = frame.event.body
  BY DEF Enforcing, Transfers, Disclosed, InFlight, At
<1>2. Weighs /\ Admits
  BY <1>1 DEF SessionInv, Decisions, Weighs, Admits, At
<1>3. /\ Request.tool \in External
      /\ frame.event.recipient = Request.recipient
      /\ Stated(frame.event.facts)
      /\ frame.event.body = Request.body
      /\ Request.body = "diagnoses" \/ Minimized(frame.event.facts)
      /\ frame.event.objects = Request.references
      /\ \A o \in Request.references :
            o \in DOMAIN state.objects /\ state.objects[o] = Classification(Request.body)
  BY <1>1, <1>2 DEF TransferInv, Sent
<1>4. frame.request \in DOMAIN requests
  BY <1>1 DEF SessionInv, RequestsOK, Serves
<1>5. Request.references \in {{}, {Request.lead}} /\ Request.references # {}
  BY <1>1, <1>3, <1>4, RedactedIs DEF TransferInv, Single, Request
<1>6. QED
  BY <1>1, <1>2, <1>3, <1>5

\* No rule of a bundled regulation has an intervention that is for the record only.
LEMMA NotViolated ==
    ASSUME Admission, Admits, NEW rule \in LoadedRules, rule.intervention # "AUDIT_ONLY",
           frame.event.type \in rule.stages,
           \A p \in rule.applicability : Evaluate(p, frame.event, state) = "true"
    PROVE  \A p \in rule.requirements : Evaluate(p, frame.event, state) = "true"
  BY DEF Admission, Complies, Violates

\* Under GDPR it would have to be minimized, which is never said of personal data alone, and a
\* special category has a condition that nothing confirms.
LEMMA GdprTransferIs ==
    ASSUME SoundPackages, BundledPackages, Deployed, SessionInv, Admission, TransferInv,
           Enforcing, Transfers, PersonalBody(Disclosed), Regulated("GDPR")
    PROVE  Disclosed # "diagnoses" /\ Regulated("PIPL")
<1> DEFINE e == frame.event
<1>1. PICK o : /\ e.objects = {o} /\ Request.references = {o}
               /\ o \in DOMAIN state.objects
               /\ state.objects[o] = Classification(Request.body)
  BY TransferIs
<1>2. /\ Disclosed = Request.body /\ Stated(e.facts) /\ Admits
      /\ Request.body = "diagnoses" \/ Minimized(e.facts)
      /\ e.type = "EXTERNAL_TRANSFER"
  BY TransferIs DEF Transfers
<1>3. GDPR.rules[3] \in LoadedRules /\ GDPR.rules[4] \in LoadedRules
  <2>1. GDPR.id = "GDPR"
    BY DEF GDPR
  <2>2. QED
    BY <2>1, RegulationIs, GdprTransferRules
<1> HIDE DEF e
<1>4. Disclosed # "diagnoses"
  <2>1. SUFFICES ASSUME Request.body = "diagnoses"
                 PROVE  FALSE
    BY <1>2
  <2>2. state.objects[o][GdprCandidate] = "true"
    BY <1>1, <2>1, DetectionIs
  <2>3. Evaluate(Is(GdprCandidate, "true"), e, state) = "true"
    BY <1>1, <2>2, ObjectHolds, DetectionIs
  <2>4. Evaluate(Is(Fact("special_category_condition_confirmed"), "true"), e, state) = "true"
    BY <1>2, <1>3, <2>3, NotViolated, GdprTransferRules DEF e
  <2>5. QED
    BY <1>2, <2>4, FactHolds DEF Stated
<1>5. Regulated("PIPL")
  <2>1. Minimized(e.facts)
    BY <1>2, <1>4
  <2>2. state.objects[o][Personal] = "true"
    BY <1>1, <1>2 DEF PersonalBody
  <2>3. Evaluate(Is(Personal, "true"), e, state) = "true"
    BY <1>1, <2>2, ObjectHolds, DetectionIs
  <2>4. Evaluate(Is(Fact("recipient_type"), "external"), e, state) = "true"
    BY <1>2, FactHolds DEF Stated
  <2>5. Evaluate(Is(Fact("is_minimized"), "true"), e, state) = "true"
    BY <1>2, <1>3, <2>3, <2>4, NotViolated, GdprTransferRules DEF e
  <2>6. "is_minimized" \in DOMAIN e.facts /\ e.facts["is_minimized"] = "true"
    BY <2>5, FactHolds
  <2>7. QED
    BY <1>1, <2>1, <2>2, <2>6 DEF Minimized
<1>6. QED
  BY <1>4, <1>5

\* Under PIPL sensitive data has a purpose only where its request is approved, and a separate
\* consent only where one is on record for what it sends and to whom.
LEMMA PiplTransferIs ==
    ASSUME SoundPackages, BundledPackages, Deployed, SessionInv, Admission, TransferInv,
           Enforcing, Transfers, Disclosed = "diagnoses", Regulated("PIPL")
    PROVE  /\ Request.approved
           /\ \E g \in state.consents : /\ frame.event.objects \subseteq g.objects
                                        /\ g.recipient = Request.recipient
<1> DEFINE e == frame.event
<1>1. PersonalBody(Disclosed)
  BY RedactedIs
<1>2. PICK o : /\ e.objects = {o}
               /\ o \in DOMAIN state.objects
               /\ state.objects[o] = Classification(Request.body)
  BY <1>1, TransferIs
<1>3. /\ Disclosed = Request.body /\ Stated(e.facts) /\ Admits
      /\ e.recipient = Request.recipient
      /\ e.type = "EXTERNAL_TRANSFER"
  BY <1>1, TransferIs DEF Transfers
<1>4. PIPL.rules[6] \in LoadedRules /\ PIPL.rules[7] \in LoadedRules
  <2>1. PIPL.id = "PIPL"
    BY DEF PIPL
  <2>2. QED
    BY <2>1, RegulationIs, PiplTransferRules
<1> HIDE DEF e
<1>5. Evaluate(Is(PiplCandidate, "true"), e, state) = "true"
  <2>1. state.objects[o][PiplCandidate] = "true"
    BY <1>2, <1>3, DetectionIs
  <2>2. QED
    BY <1>2, <2>1, ObjectHolds, DetectionIs
<1>6. Request.approved
  <2>1. Evaluate(Is(Fact("specific_purpose"), "true"), e, state) = "true"
    BY <1>3, <1>4, <1>5, NotViolated, PiplTransferRules DEF e
  <2>2. QED
    BY <1>3, <2>1, FactHolds DEF Stated
<1>7. Evaluate(Is(SeparateConsent, "true"), e, state) = "true"
  BY <1>3, <1>4, <1>5, NotViolated, PiplTransferRules DEF e
<1>8. QED
  BY <1>3, <1>6, <1>7, ConsentHolds DEF e

\* No raw personal data leaves under GDPR, and no sensitive data without its approval and
\* consent, in a session that is as its invariant says.
LEMMA TransfersComply ==
    ASSUME SoundPackages, BundledPackages, Deployed, SessionInv, Admission, TransferInv
    PROVE  RawPersonalNeverLeaves /\ SensitiveNeedsItsApproval /\ ReverifiedAgainstItsObject
<1>1. RawPersonalNeverLeaves
  BY GdprTransferIs DEF RawPersonalNeverLeaves
<1>2. SensitiveNeedsItsApproval
  <2>1. PersonalBody("diagnoses")
    BY RedactedIs
  <2>2. QED
    BY <2>1, GdprTransferIs, PiplTransferIs DEF SensitiveNeedsItsApproval
<1>3. ReverifiedAgainstItsObject
  <2>1. SUFFICES ASSUME Enforcing, Transfers, frame.repairs = 0
                 PROVE  \A o \in frame.event.objects :
                            state.objects[o] = Classification(Request.body)
    BY DEF ReverifiedAgainstItsObject
  <2>2. InFlight /\ Weighs
    BY <2>1 DEF Enforcing, InFlight, At, SessionInv, Decisions, Weighs
  <2>3. QED
    BY <2>1, <2>2 DEF Transfers, TransferInv, Sent
<1>4. QED
  BY <1>1, <1>2, <1>3

\* Where no id stands for two bodies when a process takes over the store, what leaves is what was
\* verified, whatever failed, restarted or was approved before: no raw personal data under GDPR,
\* nothing sensitive without the approval of its transaction and a consent for it, and nothing
\* that is verified again against another object than its own.
THEOREM TransfersComplyOnOneBody ==
    ASSUME SoundPackages, BundledPackages, MaxReferences <= 1, ~IdReuse
    PROVE  Spec /\ [][Restart => OneBody]_vars =>
                /\ []RawPersonalNeverLeaves
                /\ []SensitiveNeedsItsApproval
                /\ []ReverifiedAgainstItsObject
<1>1. Deployed /\ SessionInv /\ Admission /\ TransferInv =>
            /\ RawPersonalNeverLeaves
            /\ SensitiveNeedsItsApproval
            /\ ReverifiedAgainstItsObject
  BY TransfersComply
<1>2. QED
  BY <1>1, TransferInvariant, AdmissionInvariant, DeployedAlways, PTL

\* Raw personal rows do not leave under GDPR in a trajectory of one process and its successor:
\* the ids of the first stand for one body each, since it mints every one of them once.
THEOREM RawPersonalStays ==
    ASSUME SoundPackages, BundledPackages, MaxReferences <= 1, ~IdReuse, MaxSessions <= 2
    PROVE  Spec => []RawPersonalNeverLeaves
<1>1. Deployed /\ SessionInv /\ Admission /\ TransferInv => RawPersonalNeverLeaves
  BY TransfersComply
<1>2. QED
  BY <1>1, FirstProcessInvariant, AdmissionInvariant, DeployedAlways, PTL

\* Sensitive data leaves only in a transaction that was itself approved, with the consent for its
\* objects and recipient on record, before a restart and after it.
THEOREM SensitiveIsApproved ==
    ASSUME SoundPackages, BundledPackages, MaxReferences <= 1, ~IdReuse, MaxSessions <= 2
    PROVE  Spec => []SensitiveNeedsItsApproval
<1>1. Deployed /\ SessionInv /\ Admission /\ TransferInv => SensitiveNeedsItsApproval
  BY TransfersComply
<1>2. QED
  BY <1>1, FirstProcessInvariant, AdmissionInvariant, DeployedAlways, PTL
=============================================================================
