---------------------------- MODULE SessionProofs ----------------------------
(***************************************************************************)
(* A session, for every set of packages, every agent and every bound: what *)
(* is verified is in sequence and in the audit log, what is known of an    *)
(* object is final, and what it does not describe is marked; what executes *)
(* complies with every loaded rule, and what is released is clean.         *)
(***************************************************************************)
EXTENDS SessionProperties, PolicyProofs, TLAPS

-----------------------------------------------------------------------------
(* The inductive invariant *)

\* An event is being verified, was decided of or takes effect.
InFlight == frame.at \in {"verify", "escalate", "decided", "execute"}

HasEvent == InFlight \/ frame.event # None

\* The request an operation serves; the reports of a wrapped agent's session serve none.
Serves ==
    \/ frame.at \in {"hydrate", "grant", "check"}
    \/ InFlight /\ frame.op \notin {"request", "escape"}

Grants == {"HUMAN_APPROVAL", "CONSENT_UPDATE"}

Shape ==
    /\ StateRecord(state)
    /\ DOMAIN session = {"sequence", "minted", "payloads", "uncertain"}
    /\ session.sequence \in Int
    /\ DOMAIN counts = {"sessions", "approvals", "faults"}
    /\ counts.sessions \in 0 .. MaxSessions
    /\ counts.approvals \in 0 .. MaxApprovals
    /\ DOMAIN frame = {"at", "op", "request", "approved", "grants", "event", "original",
                       "repairs", "outcome"}
    /\ frame.at \in {"idle", "hydrate", "grant", "check", "verify", "escalate", "decided",
                     "execute", "raised", "over"}
    /\ frame.repairs \in Nat
    /\ frame.grants \in Seq(Grants)
    /\ At("grant") => frame.grants # <<>>
    /\ HasEvent => EventRecord(frame.event) /\ EventRecord(frame.original)

RequestRecord(r) ==
    /\ DOMAIN r = {"tool", "references", "lead", "recipient", "body", "status", "approved"}
    /\ r.tool \in ToolNames \cup {"response.release"}
    /\ r.references \subseteq DOMAIN held \/ host = "wrap"
    /\ None \notin r.references
    /\ r.body \in Body
    /\ r.tool = "response.release" => r.body # "none"
    /\ r.status \in {"CHECKING", "WAITING_APPROVAL", "BLOCKED", "EXECUTED", "FAILED", "RAISED"}

RequestsOK ==
    /\ \E S : requests \in Seq(S)
    /\ \A t \in DOMAIN requests : RequestRecord(requests[t])
    /\ None \notin DOMAIN held
    /\ Serves => frame.request \in DOMAIN requests
    /\ InFlight /\ frame.op = "call" => Request.tool \in ToolNames

\* The versions of an event are numbered by the repairs, and each that was replaced is logged.
Versions ==
    HasEvent =>
        /\ frame.event.id[2] = frame.repairs
        /\ frame.repairs <= MaxRepairs
        /\ \A i \in 0 .. frame.repairs - 1 : <<<<frame.event.id[1], i>>, "REPAIR">> \in audit

\* A decision is logged, and where it is enforced only an acceptance takes effect.
Decisions ==
    /\ frame.at \in {"decided", "execute"} => <<frame.event.id, frame.outcome>> \in audit
    /\ At("execute") /\ mode = "enforce" => Allowed(frame.outcome)

\* What a repair keeps of the event it replaces.
Origins ==
    InFlight => /\ frame.repairs = 0 => frame.event = frame.original
                /\ frame.event.introduces = frame.original.introduces

\* A call that no rule is asked about brings no object with it.
EscalatedBringsNothing ==
    At("escalate") => frame.original.introduces = None /\ frame.original.derives = None
                      /\ frame.repairs = 0

\* The object a rehydration brings, before the pass that classifies it.
Pending == At("verify") /\ frame.op = "hydrate" /\ frame.repairs = 0

\* The object an event brings is known after its first pass, and classified by what it held
\* unless the event was refused as a repetition.
Brought ==
    InFlight /\ frame.original.introduces # None =>
        LET o == frame.original.introduces
        IN  /\ frame.op \in {"hydrate", "result", "generation"}
            /\ frame.original.derives = None
            /\ frame.original.payload = None
            /\ frame.original.body # "none"
            /\ Pending => o \notin DOMAIN state.objects /\ o \in DOMAIN session.payloads
                          /\ session.payloads[o] = frame.original.body
            /\ frame.repairs > 0 \/ At("decided") => o \in DOMAIN state.objects
            /\ frame.repairs > 0 \/ (At("decided") /\ Allowed(frame.outcome))
                    => state.objects[o] = Classification(frame.original.body)

\* An object whose payload is kept is known, and is marked where what is known is not of that
\* payload; one that is being rehydrated is about to be.
Described ==
    \A o \in DOMAIN session.payloads :
        \/ /\ Pending /\ o = frame.original.introduces
           /\ o # None
        \/ /\ o \in DOMAIN state.objects
           /\ o \in session.uncertain \/ state.objects[o] = Classification(session.payloads[o])

SessionInv ==
    /\ Shape
    /\ RequestsOK
    /\ Versions
    /\ Decisions
    /\ SequencesAccepted
    /\ Origins
    /\ EscalatedBringsNothing
    /\ Brought
    /\ Described

\* Where an operation stands with its event; these parts do not look at the agent's requests,
\* and at the session only for what it keeps.
Verification ==
    /\ Versions
    /\ Decisions
    /\ SequencesAccepted
    /\ Origins
    /\ EscalatedBringsNothing
    /\ Brought

-----------------------------------------------------------------------------
(* Lemmas about the ways of a frame *)

\* The frame turns to the verification of an event of its own, numbered after everything.
Begins(op, e) ==
    /\ DOMAIN frame' = DOMAIN frame
    /\ frame'.at \in {"verify", "escalate"}
    /\ frame'.op = op
    /\ frame'.event = e
    /\ frame'.original = e
    /\ frame'.repairs = 0
    /\ frame'.request = frame.request
    /\ frame'.grants \in Seq(Grants)
    /\ EventRecord(e)
    /\ e.id = <<NextSequence, 0>>
    /\ e.sequence = NextSequence

LEMMA NextSequenceIsNew ==
    ASSUME SessionInv
    PROVE  NextSequence \in Int /\ NextSequence > state.last_sequence
  BY DEF NextSequence, SessionInv, Shape, StateRecord

LEMMA BeginningKeepsVerification ==
    ASSUME SessionInv, NEW op, NEW e, Begins(op, e), UNCHANGED <<state, audit>>,
           frame'.at = "escalate" => e.introduces = None /\ e.derives = None,
           e.introduces # None =>
                /\ op \in {"hydrate", "result", "generation"}
                /\ e.derives = None
                /\ e.payload = None
                /\ e.body # "none"
                /\ op = "hydrate" => /\ e.introduces \notin DOMAIN state.objects
                                     /\ e.introduces \in DOMAIN session'.payloads
                                     /\ session'.payloads[e.introduces] = e.body
    PROVE  Verification'
<1>1. Versions'
  BY MaxRepairsAssumption DEF Versions, Begins
<1>2. Decisions'
  BY DEF Decisions, Begins, At
<1>3. SequencesAccepted'
  BY NextSequenceIsNew DEF SequencesAccepted, Begins, At
<1>4. Origins'
  BY DEF Origins, Begins, InFlight
<1>5. EscalatedBringsNothing'
  BY DEF EscalatedBringsNothing, Begins, At
<1>6. Brought'
  BY DEF Brought, Begins, InFlight, Pending, At
<1>7. QED
  BY <1>1, <1>2, <1>3, <1>4, <1>5, <1>6 DEF Verification

LEMMA RestingKeepsVerification ==
    ASSUME frame'.event = None,
           frame'.at \in {"idle", "hydrate", "grant", "check", "raised", "over"}
    PROVE  Verification'
  BY DEF Verification, Versions, Decisions, SequencesAccepted, Origins,
         EscalatedBringsNothing, Brought, InFlight, HasEvent, At

LEMMA MovingKeepsVerification ==
    ASSUME SessionInv, UNCHANGED <<mode, state, audit>>,
           NEW label \in {"hydrate", "grant", "check", "execute"},
           frame' = [frame EXCEPT !.at = label],
           label = "execute" => At("decided") /\ (mode = "enforce" => Allowed(frame.outcome))
    PROVE  Verification'
<1>1. /\ frame'.at = label
      /\ frame'.op = frame.op
      /\ frame'.event = frame.event
      /\ frame'.original = frame.original
      /\ frame'.repairs = frame.repairs
      /\ frame'.outcome = frame.outcome
  BY DEF SessionInv, Shape
<1>2. Versions'
  BY <1>1 DEF SessionInv, Versions, HasEvent, InFlight, At
<1>3. Decisions'
  BY <1>1 DEF SessionInv, Decisions, At
<1>4. SequencesAccepted' /\ EscalatedBringsNothing'
  BY <1>1 DEF SequencesAccepted, EscalatedBringsNothing, At
<1>5. Origins'
  BY <1>1 DEF SessionInv, Origins, InFlight, At
<1>6. Brought'
  BY <1>1 DEF SessionInv, Brought, InFlight, Pending, At
<1>7. QED
  BY <1>2, <1>3, <1>4, <1>5, <1>6 DEF Verification
-----------------------------------------------------------------------------
(* One pass *)

LEMMA IsVerifying ==
    ASSUME SessionInv, At("verify")
    PROVE  /\ StateRecord(state)
           /\ EventRecord(frame.event) /\ EventRecord(frame.original)
           /\ frame.event.sequence > state.last_sequence
           /\ frame.event.id = <<frame.event.id[1], frame.repairs>>
           /\ frame.event.id[1] \in Int
           /\ frame.repairs \in Nat
  BY DEF SessionInv, Shape, HasEvent, InFlight, At, SequencesAccepted, Versions, EventRecord

\* What a pass makes known of the object its event brings.  A repaired version never gets as
\* far: its object is taken, by itself.
LEMMA PassBrings ==
    ASSUME SessionInv, At("verify"), frame.original.introduces # None
    PROVE  LET v == Enforced(Policy, frame.event, state)
               o == frame.original.introduces
           IN  /\ o \in DOMAIN v.state.objects
               /\ v.decision # "BLOCK" => frame.repairs = 0
               /\ v.decision # "BLOCK" \/ frame.repairs > 0 \/ Pending
                    => v.state.objects[o] = Classification(frame.original.body)
<1> DEFINE v == Enforced(Policy, frame.event, state)
           o == frame.original.introduces
<1>1. /\ StateRecord(state) /\ EventRecord(frame.event)
      /\ frame.event.sequence > state.last_sequence
      /\ frame.repairs \in Nat
      /\ state.last_sequence \in Int /\ frame.event.sequence \in Int
  BY IsVerifying DEF StateRecord, EventRecord
<1>2. /\ frame.event.introduces = o
      /\ frame.repairs = 0 => frame.event = frame.original
  BY DEF SessionInv, Origins, InFlight, At
<1>3. /\ frame.original.derives = None
      /\ frame.original.payload = None
      /\ frame.original.body # "none"
      /\ Pending => o \notin DOMAIN state.objects
      /\ frame.repairs > 0 => /\ o \in DOMAIN state.objects
                              /\ state.objects[o] = Classification(frame.original.body)
  BY DEF SessionInv, Brought, InFlight, At
<1>4. CASE frame.repairs > 0
  <2>1. ApplyRaises(frame.event, state)
    BY <1>2, <1>3, <1>4 DEF ApplyRaises, Introduces
  <2>2. v.decision = "BLOCK" /\ v.state.objects = state.objects
    BY <1>1, <2>1, EnforcedIs
  <2>3. QED
    BY <1>3, <1>4, <2>2
<1>5. CASE frame.repairs = 0 /\ o \in DOMAIN state.objects
  <2>1. ApplyRaises(frame.event, state)
    BY <1>2, <1>5 DEF ApplyRaises, Introduces
  <2>2. v.decision = "BLOCK" /\ v.state.objects = state.objects
    BY <1>1, <2>1, EnforcedIs
  <2>3. QED
    BY <1>3, <1>5, <2>2
<1>6. CASE frame.repairs = 0 /\ o \notin DOMAIN state.objects
  <2>1. ~ApplyRaises(frame.event, state) /\ Introduces(frame.event)
    BY <1>1, <1>2, <1>3, <1>6 DEF ApplyRaises, Introduces, Derives
  <2>2. v.state.objects = Applied(frame.event, state).objects
    BY <1>1, <2>1, EnforcedIs
  <2>3. o \in DOMAIN v.state.objects /\ v.state.objects[o] = DetectInto(Unclassified, frame.event)
    BY <1>1, <1>2, <2>1, <2>2, AppliedIs
  <2>4. DetectInto(Unclassified, frame.event) = Classification(frame.original.body)
    BY <1>2, <1>3, <1>6 DEF DetectInto
  <2>5. QED
    BY <1>6, <2>3, <2>4
<1>7. QED
  BY <1>1, <1>4, <1>5, <1>6

\* The event that replaces another, or is verified last, is in sequence, logged and the same
\* as far as the object it brings is concerned.
LEMMA PassKeepsVerification ==
    ASSUME SessionInv, EnforcementPass
    PROVE  Verification'
<1> DEFINE v == Enforced(Policy, frame.event, state)
           repaired == Continues(frame.event, v, frame.repairs)
<1>1. /\ At("verify")
      /\ state' = v.state
      /\ UNCHANGED <<host, mode, selection, requests, held, session, counts>>
  BY DEF EnforcementPass, deployment
<1>2. /\ StateRecord(state) /\ EventRecord(frame.event) /\ EventRecord(frame.original)
      /\ frame.event.sequence > state.last_sequence
      /\ frame.event.id = <<frame.event.id[1], frame.repairs>>
      /\ frame.event.id[1] \in Int
      /\ frame.repairs \in Nat
      /\ state.last_sequence \in Int /\ frame.event.sequence \in Int
  BY <1>1, IsVerifying DEF StateRecord, EventRecord
<1>3. /\ frame.event.introduces = frame.original.introduces
      /\ frame.repairs = 0 => frame.event = frame.original
      /\ frame.repairs <= MaxRepairs
      /\ \A i \in 0 .. frame.repairs - 1 : <<<<frame.event.id[1], i>>, "REPAIR">> \in audit
  BY <1>1 DEF SessionInv, Origins, Versions, HasEvent, InFlight, At
<1>4. frame.original.introduces # None =>
        /\ frame.op \in {"hydrate", "result", "generation"}
        /\ frame.original.derives = None
        /\ frame.original.payload = None
        /\ frame.original.body # "none"
  BY <1>1 DEF SessionInv, Brought, InFlight, At
<1>5. frame.original.introduces # None =>
        /\ frame.original.introduces \in DOMAIN v.state.objects
        /\ v.decision # "BLOCK" =>
                v.state.objects[frame.original.introduces] = Classification(frame.original.body)
        /\ frame.repairs > 0 =>
                v.state.objects[frame.original.introduces] = Classification(frame.original.body)
  BY <1>1, PassBrings
<1>6. CASE /\ \E e \in repaired : frame' = [frame EXCEPT !.event = e, !.repairs = @ + 1]
           /\ Appended("REPAIR")
  <2>1. PICK e \in repaired : frame' = [frame EXCEPT !.event = e, !.repairs = @ + 1]
    BY <1>6
  <2>2. v.decision = "REPAIR" /\ frame.repairs < MaxRepairs
        /\ e \in Intervene(frame.event, v.intervention)
    BY <2>1 DEF Continues
  <2>3. /\ EventRecord(e)
        /\ e.id = <<frame.event.id[1], frame.repairs + 1>>
        /\ e.sequence = frame.event.sequence + 1
        /\ e.introduces = frame.event.introduces
    BY <1>2, <2>2, IntervenesIs
  <2>4. v.state.last_sequence = frame.event.sequence
    BY <1>2, <2>2, EnforcedIs
  <2>5. /\ frame'.at = "verify"
        /\ frame'.op = frame.op
        /\ frame'.event = e
        /\ frame'.original = frame.original
        /\ frame'.repairs = frame.repairs + 1
    BY <1>1, <2>1 DEF SessionInv, Shape, At
  <2>6. audit' = audit \cup {<<<<frame.event.id[1], frame.repairs>>, "REPAIR">>}
    BY <1>2, <1>6 DEF Appended
  <2>7. Versions'
    <3>1. ASSUME NEW i \in 0 .. frame.repairs
          PROVE  <<<<frame.event.id[1], i>>, "REPAIR">> \in audit'
      BY <1>2, <1>3, <2>6
    <3>2. QED
      BY <1>2, <2>2, <2>3, <2>5, <3>1, MaxRepairsAssumption DEF Versions
  <2>8. Decisions'
    BY <2>5 DEF Decisions, At
  <2>9. SequencesAccepted'
    BY <1>1, <1>2, <2>3, <2>4, <2>5 DEF SequencesAccepted
  <2>10. Origins' /\ EscalatedBringsNothing'
    BY <1>2, <1>3, <2>3, <2>5 DEF Origins, EscalatedBringsNothing, At
  <2>11. Brought'
    BY <1>1, <1>2, <1>4, <1>5, <2>2, <2>5 DEF Brought, Pending, At
  <2>12. QED
    BY <2>7, <2>8, <2>9, <2>10, <2>11 DEF Verification
<1>7. CASE /\ frame' = [frame EXCEPT !.at = "decided", !.outcome = Outcome(v)]
           /\ Appended(Outcome(v))
  <2>1. /\ frame'.at = "decided"
        /\ frame'.op = frame.op
        /\ frame'.event = frame.event
        /\ frame'.original = frame.original
        /\ frame'.repairs = frame.repairs
        /\ frame'.outcome = Outcome(v)
    BY <1>7 DEF SessionInv, Shape
  <2>2. audit' = audit \cup {<<frame.event.id, Outcome(v)>>}
    BY <1>7 DEF Appended
  <2>3. Versions'
    BY <1>2, <1>3, <2>1, <2>2 DEF Versions
  <2>4. Decisions' /\ SequencesAccepted' /\ EscalatedBringsNothing'
    BY <2>1, <2>2 DEF Decisions, SequencesAccepted, EscalatedBringsNothing, At
  <2>5. Origins'
    BY <1>3, <2>1 DEF Origins
  <2>6. Allowed(Outcome(v)) => v.decision # "BLOCK"
    BY DEF Allowed, Outcome
  <2>7. Brought'
    BY <1>1, <1>4, <1>5, <2>1, <2>6 DEF Brought, Pending, At
  <2>8. QED
    BY <2>3, <2>4, <2>5, <2>7 DEF Verification
<1>8. QED
  BY <1>6, <1>7 DEF EnforcementPass
-----------------------------------------------------------------------------
(* Lemmas about what a step leaves alone *)

Statuses == {"CHECKING", "WAITING_APPROVAL", "BLOCKED", "EXECUTED", "FAILED", "RAISED"}

LEMMA SessionInvParts ==
    ASSUME Shape', RequestsOK', Verification', Described'
    PROVE  SessionInv'
  BY DEF SessionInv, Verification

LEMMA FrameIs ==
    ASSUME NEW at, NEW request, NEW approved, NEW grants
    PROVE  LET f == Frame(at, request, approved, grants)
           IN  /\ DOMAIN f = {"at", "op", "request", "approved", "grants", "event", "original",
                              "repairs", "outcome"}
               /\ f.at = at /\ f.request = request /\ f.event = None /\ f.repairs = 0
               /\ f.grants = grants
  BY DEF Frame

\* A frame that rests has the form of one.
LEMMA RestingShape ==
    ASSUME NEW at \in {"idle", "hydrate", "check", "raised", "over"}, NEW request,
           NEW approved, NEW grants \in Seq(Grants),
           frame' = Frame(at, request, approved, grants),
           StateRecord(state'), DOMAIN session' = {"sequence", "minted", "payloads", "uncertain"},
           session'.sequence \in Int, DOMAIN counts' = {"sessions", "approvals", "faults"},
           counts'.sessions \in 0 .. MaxSessions, counts'.approvals \in 0 .. MaxApprovals
    PROVE  Shape' /\ Verification'
<1>1. /\ DOMAIN frame' = {"at", "op", "request", "approved", "grants", "event", "original",
                          "repairs", "outcome"}
      /\ frame'.at = at /\ frame'.event = None /\ frame'.repairs = 0 /\ frame'.grants = grants
  BY FrameIs
<1>2. Verification'
  BY <1>1, RestingKeepsVerification
<1>3. Shape'
  BY <1>1 DEF Shape, HasEvent, InFlight, At
<1>4. QED
  BY <1>2, <1>3

LEMMA BeginningShape ==
    ASSUME SessionInv, NEW op, NEW e, Begins(op, e), state' = state,
           DOMAIN session' = DOMAIN session, session'.sequence \in Int,
           DOMAIN counts' = DOMAIN counts, counts'.sessions = counts.sessions,
           counts'.approvals = counts.approvals
    PROVE  Shape'
  BY DEF SessionInv, Shape, Begins, HasEvent, InFlight, At

LEMMA MovingShape ==
    ASSUME SessionInv, UNCHANGED <<state, session, counts>>,
           NEW label \in {"hydrate", "grant", "check", "execute"},
           label = "execute" => At("decided"), label = "grant" => frame.grants # <<>>,
           frame' = [frame EXCEPT !.at = label]
    PROVE  Shape'
<1>1. /\ DOMAIN frame' = DOMAIN frame
      /\ frame'.at = label
      /\ frame'.event = frame.event
      /\ frame'.original = frame.original
      /\ frame'.repairs = frame.repairs
      /\ frame'.grants = frame.grants
  BY DEF SessionInv, Shape
<1>2. HasEvent' => HasEvent
  BY <1>1 DEF HasEvent, InFlight, At
<1>3. QED
  BY <1>1, <1>2 DEF SessionInv, Shape, At

\* The list of requests, one of them with another status and approval.
LEMMA RequestsKept ==
    ASSUME SessionInv, UNCHANGED host, None \notin DOMAIN held',
           host = "wrap" \/ DOMAIN held \subseteq DOMAIN held',
           NEW i, NEW status \in Statuses, NEW approved,
           \/ requests' = requests
           \/ requests' = [requests EXCEPT ![i].status = status]
           \/ requests' = [requests EXCEPT ![i].status = status, ![i].approved = approved],
           Serves' => frame'.request \in DOMAIN requests,
           InFlight' /\ frame'.op = "call" =>
                /\ frame'.request \in DOMAIN requests
                /\ requests[frame'.request].tool \in ToolNames
    PROVE  RequestsOK'
<1>1. PICK S : requests \in Seq(S)
  BY DEF SessionInv, RequestsOK
<1>2. \A t \in DOMAIN requests : RequestRecord(requests[t])
  BY DEF SessionInv, RequestsOK
<1>3. CASE requests' = requests
  BY <1>1, <1>2, <1>3 DEF RequestsOK, RequestRecord, Request
<1>4. CASE i \in DOMAIN requests /\ requests' # requests
  <2> DEFINE r == requests[i]
             q == requests'[i]
  <2>1. /\ DOMAIN requests' = DOMAIN requests
        /\ \A t \in DOMAIN requests : t # i => requests'[t] = requests[t]
        /\ q = [r EXCEPT !.status = status]
           \/ q = [[r EXCEPT !.status = status] EXCEPT !.approved = approved]
    BY <1>1, <1>4
  <2>2. RequestRecord(r)
    BY <1>2, <1>4
  <2>3. RequestRecord(q)
    <3> HIDE DEF r, q
    <3> QED
      BY <2>1, <2>2 DEF RequestRecord, Statuses
  <2>4. requests' \in Seq(S \cup {q})
    <3>1. requests' = [t \in 1 .. Len(requests) |-> requests'[t]]
      BY <1>1, <1>4
    <3>2. \A t \in 1 .. Len(requests) : requests'[t] \in S \cup {q}
      BY <1>1, <2>1
    <3>3. QED
      BY <1>1, <3>1, <3>2
  <2>5. \A t \in DOMAIN requests' : RequestRecord(requests'[t])
    BY <1>2, <2>1, <2>3
  <2>6. (\A t \in DOMAIN requests : RequestRecord(requests[t]))'
    BY <2>5 DEF RequestRecord
  <2>7. ASSUME NEW t \in DOMAIN requests
        PROVE  requests'[t].tool = requests[t].tool
    <3> HIDE DEF r, q
    <3>1. q.tool = r.tool
      BY <2>1, <2>2 DEF RequestRecord
    <3>2. QED
      BY <2>1, <3>1 DEF r, q
  <2>8. QED
    BY <2>1, <2>4, <2>6, <2>7 DEF RequestsOK, Request
<1>5. CASE i \notin DOMAIN requests
  <2>1. requests' = requests
    BY <1>1, <1>5
  <2>2. QED
    BY <1>3, <2>1
<1>6. QED
  BY <1>3, <1>4, <1>5

\* What is known of an object is never lost, so what described it still does.
LEMMA DescribedKept ==
    ASSUME SessionInv, Preserved(state, state'),
           session'.payloads = session.payloads, session.uncertain \subseteq session'.uncertain,
           Pending => LET o == frame.original.introduces
                      IN  o # None /\ o \in DOMAIN session.payloads =>
                            /\ o \in DOMAIN state'.objects
                            /\ state'.objects[o] = Classification(session.payloads[o])
    PROVE  Described'
  BY DEF SessionInv, Described, Preserved

LEMMA PreservedItself ==
    ASSUME state' = state
    PROVE  Preserved(state, state')
  BY DEF Preserved
-----------------------------------------------------------------------------
(* Every step keeps the invariant: what the agent asks *)

LEMMA BodyOfType ==
    ASSUME NEW references
    PROVE  BodyOf(references) \in Body \ {"none"}
  BY DEF BodyOf, Body

LEMMA ProposeKeeps ==
    ASSUME SessionInv, NEW tool \in ToolNames \cup {"response.release"},
           NEW references, references \subseteq DOMAIN held, NEW lead, NEW recipient,
           Propose(tool, references, lead, recipient)
    PROVE  SessionInv'
<1> DEFINE r == [tool |-> tool, references |-> references, lead |-> lead,
                 recipient |-> recipient, body |-> Wording(tool, references),
                 status |-> "CHECKING", approved |-> FALSE]
<1>1. /\ At("idle")
      /\ requests' = Append(requests, r)
      /\ frame' = Frame(IF host = "broker" THEN "hydrate" ELSE "check",
                        Len(requests) + 1, FALSE, <<>>)
      /\ UNCHANGED <<host, mode, selection, held, state, session, audit, counts>>
  BY DEF Propose, deployment
<1>2. Shape' /\ Verification'
  <2>1. <<>> \in Seq(Grants)
    OBVIOUS
  <2>2. QED
    BY <1>1, <2>1, RestingShape DEF SessionInv, Shape
<1>3. RequestsOK'
  <2>1. PICK S : requests \in Seq(S)
    BY DEF SessionInv, RequestsOK
  <2>2. /\ requests' \in Seq(S \cup {r})
        /\ DOMAIN requests' = 1 .. Len(requests) + 1
        /\ requests'[Len(requests) + 1] = r
        /\ \A t \in DOMAIN requests : requests'[t] = requests[t]
        /\ DOMAIN requests = 1 .. Len(requests)
    <3> HIDE DEF r
    <3> QED
      BY <1>1, <2>1
  <2>3. RequestRecord(r)
    <3>1. /\ Wording(tool, references) \in Body
          /\ tool = "response.release" => Wording(tool, references) # "none"
      BY BodyOfType DEF Wording, Body
    <3>2. QED
      BY <3>1 DEF RequestRecord, SessionInv, RequestsOK
  <2>4. \A t \in DOMAIN requests' : RequestRecord(requests'[t])
    <3> HIDE DEF r
    <3> QED
      BY <2>1, <2>2, <2>3 DEF SessionInv, RequestsOK
  <2>5. (\A t \in DOMAIN requests : RequestRecord(requests[t]))'
    BY <1>1, <2>4 DEF RequestRecord
  <2>6. frame'.request \in DOMAIN requests'
    <3>1. Len(requests) + 1 \in 1 .. Len(requests) + 1
      BY <2>1
    <3>2. QED
      BY <1>1, <2>2, <3>1 DEF Frame
  <2>7. None \notin DOMAIN held'
    BY <1>1 DEF SessionInv, RequestsOK
  <2>8. QED
    BY <1>1, <2>2, <2>5, <2>6, <2>7 DEF RequestsOK, InFlight, Frame
<1>4. Described'
  BY <1>1, DescribedKept, PreservedItself DEF Pending, At
<1>5. QED
  BY <1>2, <1>3, <1>4, SessionInvParts

LEMMA ApproveKeeps ==
    ASSUME SessionInv, NEW t \in DOMAIN requests, Approve(t)
    PROVE  SessionInv'
<1>1. /\ At("idle")
      /\ counts.approvals < MaxApprovals
      /\ counts' = [counts EXCEPT !.approvals = @ + 1]
      /\ UNCHANGED <<host, mode, selection, requests, held, state, session, audit>>
      /\ \E grants \in Seq(Grants) : frame' = Frame("hydrate", t, TRUE, grants)
  <2> DEFINE grants == <<"HUMAN_APPROVAL">> \o
                       (IF Regulated("PIPL") THEN <<"CONSENT_UPDATE">> ELSE <<>>)
  <2>1. grants \in Seq(Grants)
    <3>1. <<"HUMAN_APPROVAL">> \in Seq(Grants) /\ <<"CONSENT_UPDATE">> \in Seq(Grants)
          /\ <<>> \in Seq(Grants)
      BY DEF Grants
    <3>2. \A a, b \in Seq(Grants) : a \o b \in Seq(Grants)
      OBVIOUS
    <3>3. QED
      BY <3>1, <3>2
  <2>2. frame' = Frame("hydrate", t, TRUE, grants)
    BY DEF Approve
  <2> HIDE DEF grants
  <2>3. QED
    BY <2>1, <2>2 DEF Approve, deployment
<1>2. /\ DOMAIN counts' = DOMAIN counts
      /\ counts'.sessions = counts.sessions
      /\ counts'.approvals \in 0 .. MaxApprovals
  BY <1>1, SessionAssumption DEF SessionInv, Shape
<1>3. Shape' /\ Verification'
  BY <1>1, <1>2, RestingShape DEF SessionInv, Shape
<1>4. RequestsOK'
  <2>1. frame'.request = t
    BY <1>1 DEF Frame
  <2>2. QED
    BY <1>1, <2>1 DEF SessionInv, RequestsOK, RequestRecord, InFlight, Frame
<1>5. Described'
  BY <1>1, DescribedKept, PreservedItself DEF Pending, At
<1>6. QED
  BY <1>3, <1>4, <1>5, SessionInvParts

\* A step that only changes the status of a request.
LEMMA SettledKeeps ==
    ASSUME SessionInv, UNCHANGED <<host, mode, held, state, session, audit, frame, counts>>,
           NEW i, NEW status \in Statuses,
           requests' = [requests EXCEPT ![i].status = status]
    PROVE  SessionInv'
<1>1. Shape' /\ Described' /\ Verification'
  BY DEF SessionInv, Shape, HasEvent, InFlight, Described, Pending, At, Verification, Versions,
         Decisions, SequencesAccepted, Origins, EscalatedBringsNothing, Brought
<1>2. /\ None \notin DOMAIN held'
      /\ Serves' => frame'.request \in DOMAIN requests
      /\ InFlight' /\ frame'.op = "call" => /\ frame'.request \in DOMAIN requests
                                            /\ requests[frame'.request].tool \in ToolNames
  BY DEF SessionInv, RequestsOK, Serves, InFlight, Request
<1>3. RequestsOK'
  BY <1>2, RequestsKept
<1>4. QED
  BY <1>1, <1>3, SessionInvParts

LEMMA AgentKeeps ==
    ASSUME SessionInv,
           \/ ProposeRead \/ ProposeSend \/ ProposeUnspecified
           \/ \E t \in DOMAIN requests : Approve(t) \/ Deny(t)
    PROVE  SessionInv'
<1>1. CASE ProposeRead
  BY <1>1, ProposeKeeps DEF ProposeRead, ToolNames
<1>2. CASE ProposeSend
  BY <1>2, ProposeKeeps DEF ProposeSend, ToolNames
<1>3. CASE ProposeUnspecified
  BY <1>3, ProposeKeeps DEF ProposeUnspecified, ToolNames
<1>4. CASE \E t \in DOMAIN requests : Approve(t)
  BY <1>4, ApproveKeeps
<1>5. CASE \E t \in DOMAIN requests : Deny(t)
  BY <1>5, SettledKeeps DEF Deny, deployment, Statuses
<1>6. QED
  BY <1>1, <1>2, <1>3, <1>4, <1>5
-----------------------------------------------------------------------------
(* Every step keeps the invariant: before and after a verification *)

LEMMA EventIs ==
    ASSUME SessionInv, NEW type \in EventTypes
    PROVE  /\ EventRecord(Event(type))
           /\ Event(type).type = type
           /\ Event(type).id = <<NextSequence, 0>>
           /\ Event(type).sequence = NextSequence
           /\ Event(type).introduces = None
           /\ Event(type).derives = None
           /\ Event(type).payload = None
  BY NextSequenceIsNew DEF Event, LifecycleEvent, EventRecord

\* The frame of a new verification, whatever else is kept with it.
LEMMA VerifyingBegins ==
    ASSUME SessionInv, NEW op, NEW e, EventRecord(e), e.id = <<NextSequence, 0>>,
           e.sequence = NextSequence,
           \/ frame' = Verifying(op, e)
           \/ frame' = [Verifying(op, e) EXCEPT !.at = "escalate"]
           \/ \E grants \in Seq(Grants) : frame' = [Verifying(op, e) EXCEPT !.grants = grants]
    PROVE  Begins(op, e)
<1> DEFINE f == Verifying(op, e)
<1>1. /\ DOMAIN f = DOMAIN frame
      /\ f.at = "verify" /\ f.op = op /\ f.event = e /\ f.original = e /\ f.repairs = 0
      /\ f.request = frame.request /\ f.grants = frame.grants /\ f.grants \in Seq(Grants)
      /\ DOMAIN f = {"at", "op", "request", "approved", "grants", "event", "original",
                     "repairs", "outcome"}
  BY DEF Verifying, SessionInv, Shape
<1> HIDE DEF f
<1>2. CASE frame' = f
  BY <1>1, <1>2 DEF Begins
<1>3. CASE frame' = [f EXCEPT !.at = "escalate"]
  BY <1>1, <1>3 DEF Begins
<1>4. CASE \E grants \in Seq(Grants) : frame' = [f EXCEPT !.grants = grants]
  BY <1>1, <1>4 DEF Begins
<1>5. QED
  BY <1>2, <1>3, <1>4 DEF f

LEMMA ConsumedIs ==
    ASSUME SessionInv
    PROVE  /\ DOMAIN Consumed = {"sequence", "minted", "payloads", "uncertain"}
           /\ Consumed.sequence \in Int
           /\ Consumed.payloads = session.payloads
           /\ Consumed.uncertain = session.uncertain
  BY NextSequenceIsNew DEF Consumed, SessionInv, Shape

LEMMA BeginningKeeps ==
    ASSUME SessionInv, ~At("verify"), NEW op, op # "hydrate", NEW e, Begins(op, e),
           Serves \/ op \in {"request", "escape"},
           op = "call" => Request.tool \in ToolNames,
           UNCHANGED <<host, held, state, audit>>,
           frame'.at = "escalate" => e.introduces = None /\ e.derives = None,
           e.introduces # None => /\ op \in {"result", "generation"}
                                  /\ e.derives = None
                                  /\ e.payload = None
                                  /\ e.body # "none",
           NEW i, NEW status \in Statuses,
           requests' = requests \/ requests' = [requests EXCEPT ![i].status = status],
           session' = Consumed
                \/ \E minted : session' = [Consumed EXCEPT !.minted = minted],
           counts' = counts \/ \E faults : counts' = [counts EXCEPT !.faults = faults]
    PROVE  SessionInv'
<1>1. /\ DOMAIN session' = DOMAIN session
      /\ session'.sequence \in Int
      /\ session'.payloads = session.payloads
      /\ session'.uncertain = session.uncertain
  BY ConsumedIs DEF SessionInv, Shape
<1>2. /\ DOMAIN counts' = DOMAIN counts
      /\ counts'.sessions = counts.sessions
      /\ counts'.approvals = counts.approvals
  BY DEF SessionInv, Shape
<1>3. Shape'
  BY <1>1, <1>2, BeginningShape
<1>4. Verification'
  BY BeginningKeepsVerification
<1>5. RequestsOK'
  <2>1. /\ Serves' => frame'.request \in DOMAIN requests
        /\ InFlight' /\ frame'.op = "call" => /\ frame'.request \in DOMAIN requests
                                              /\ requests[frame'.request].tool \in ToolNames
    BY DEF Begins, Serves, InFlight, SessionInv, RequestsOK, Request
  <2>2. None \notin DOMAIN held'
    BY DEF SessionInv, RequestsOK
  <2>3. QED
    BY <2>1, <2>2, RequestsKept
<1>6. Described'
  BY <1>1, DescribedKept, PreservedItself DEF Pending
<1>7. QED
  BY <1>3, <1>4, <1>5, <1>6, SessionInvParts

LEMMA HydrateKeeps ==
    ASSUME SessionInv, HydrateReferencedObjects
    PROVE  SessionInv'
<1>1. PICK o \in Unhydrated(Request) :
        /\ session' = [Consumed EXCEPT !.payloads = Put(@, o, Request.body)]
        /\ frame' = Verifying("hydrate",
                [Event("TOOL_RESULT") EXCEPT !.body = Request.body, !.objects = {o},
                                             !.introduces = o])
  BY DEF HydrateReferencedObjects
<1>2. /\ At("hydrate")
      /\ UNCHANGED <<host, mode, selection, requests, held, state, audit, counts>>
  BY DEF HydrateReferencedObjects, Quiet, deployment
<1> DEFINE e == [Event("TOOL_RESULT") EXCEPT !.body = Request.body, !.objects = {o},
                                             !.introduces = o]
<1>3. /\ EventRecord(e)
      /\ e.id = <<NextSequence, 0>> /\ e.sequence = NextSequence
      /\ e.introduces = o /\ e.body = Request.body
      /\ e.derives = None /\ e.payload = None
  BY EventIs DEF EventTypes, EventRecord
<1>4. Begins("hydrate", e)
  BY <1>1, <1>3, VerifyingBegins
<1>5. Serves
  BY <1>2 DEF Serves, At
<1>6. o \notin DOMAIN state.objects /\ Request.body # "none" /\ o # None
  <2>1. RequestRecord(Request)
    BY <1>5 DEF SessionInv, RequestsOK, Request
  <2>2. QED
    BY <2>1 DEF Unhydrated, RequestRecord
<1>7. /\ DOMAIN session' = DOMAIN session
      /\ session'.sequence \in Int
      /\ session'.uncertain = session.uncertain
      /\ session'.payloads = Put(session.payloads, o, Request.body)
  <2> DEFINE kept == Put(session.payloads, o, Request.body)
  <2>1. session' = [Consumed EXCEPT !.payloads = kept]
    BY <1>1, ConsumedIs
  <2> HIDE DEF kept
  <2>2. /\ DOMAIN session' = DOMAIN session
        /\ session'.sequence \in Int
        /\ session'.uncertain = session.uncertain
        /\ session'.payloads = kept
    BY <2>1, ConsumedIs DEF SessionInv, Shape
  <2>3. QED
    BY <2>2 DEF kept
<1>8. /\ DOMAIN session'.payloads = DOMAIN session.payloads \cup {o}
      /\ session'.payloads[o] = Request.body
      /\ \A p \in DOMAIN session.payloads : p # o => session'.payloads[p] = session.payloads[p]
  BY <1>7 DEF Put
<1> HIDE DEF e
<1>9. Shape'
  BY <1>2, <1>4, <1>7, BeginningShape
<1>10. Verification'
  <2>1. frame'.at = "verify"
    BY <1>1 DEF Verifying, SessionInv, Shape
  <2>2. QED
    BY <1>2, <1>3, <1>4, <1>6, <1>8, <2>1, BeginningKeepsVerification
<1>11. RequestsOK'
  <2>1. (Serves' => frame'.request \in DOMAIN requests) /\ frame'.op # "call"
    BY <1>4, <1>5 DEF Begins, SessionInv, RequestsOK
  <2>2. None \notin DOMAIN held' /\ "CHECKING" \in Statuses
    BY <1>2 DEF SessionInv, RequestsOK, Statuses
  <2>3. QED
    BY <1>2, <2>1, <2>2, RequestsKept
<1>12. Described'
  <2>1. Pending' /\ frame'.original.introduces = o
    BY <1>1, <1>2, <1>3, <1>4 DEF Pending, Begins, At, Verifying, SessionInv, Shape
  <2>2. ~Pending
    BY <1>2 DEF Pending, At
  <2>3. QED
    BY <1>2, <1>6, <1>7, <1>8, <2>1, <2>2 DEF SessionInv, Described
<1>13. QED
  BY <1>9, <1>10, <1>11, <1>12, SessionInvParts
LEMMA VerifyingAt ==
    ASSUME SessionInv, NEW op, NEW e
    PROVE  Verifying(op, e).at = "verify" /\ Verifying(op, e).grants = frame.grants
  BY DEF Verifying, SessionInv, Shape

LEMMA RecordApprovalKeeps ==
    ASSUME SessionInv, RecordApproval
    PROVE  SessionInv'
<1> DEFINE grant == [type |-> "EXTERNAL_TRANSFER", objects |-> Request.references,
                     recipient |-> Request.recipient, approved |-> TRUE, separate |-> TRUE]
           e == [Event(Head(frame.grants)) EXCEPT !.objects = Request.references,
                                                  !.recipient = Request.recipient,
                                                  !.grant = grant]
<1>1. /\ At("grant")
      /\ session' = Consumed
      /\ frame' = [Verifying("grant", e) EXCEPT !.grants = Tail(@)]
      /\ UNCHANGED <<host, mode, selection, requests, held, state, audit, counts>>
  BY DEF RecordApproval, Quiet, deployment
<1>2. frame.grants \in Seq(Grants) /\ frame.grants # <<>>
  BY <1>1 DEF SessionInv, Shape
<1>3. Head(frame.grants) \in EventTypes /\ Tail(frame.grants) \in Seq(Grants)
  <2>1. Head(frame.grants) \in Grants /\ Tail(frame.grants) \in Seq(Grants)
    BY <1>2
  <2>2. QED
    BY <2>1 DEF Grants, EventTypes
<1>4. /\ EventRecord(e)
      /\ e.id = <<NextSequence, 0>> /\ e.sequence = NextSequence
      /\ e.introduces = None /\ e.derives = None
  BY <1>3, EventIs DEF EventRecord
<1> HIDE DEF e
<1>5. frame' = [Verifying("grant", e) EXCEPT !.grants = Tail(frame.grants)]
  BY <1>1, VerifyingAt
<1>6. Begins("grant", e)
  BY <1>3, <1>4, <1>5, VerifyingBegins
<1>7. Serves /\ ~At("verify") /\ "CHECKING" \in Statuses
  BY <1>1 DEF Serves, At, Statuses
<1>8. QED
  BY <1>1, <1>4, <1>6, <1>7, BeginningKeeps

LEMMA PrecheckKeeps ==
    ASSUME SessionInv, Precheck
    PROVE  SessionInv'
<1> DEFINE e == ProposedEvent(Request, frame.approved)
<1>1. /\ At("check")
      /\ Request.tool \in ToolNames
      /\ session' = Consumed
      /\ frame' = Verifying("call", e) \/ frame' = [Verifying("call", e) EXCEPT !.at = "escalate"]
      /\ UNCHANGED <<host, mode, selection, requests, held, state, audit, counts>>
  BY DEF Precheck, Quiet, deployment
<1>2. ProposalType(Registry[Request.tool]) \in EventTypes
  BY DEF ProposalType, EventTypes
<1>3. /\ EventRecord(e)
      /\ e.id = <<NextSequence, 0>> /\ e.sequence = NextSequence
      /\ e.introduces = None /\ e.derives = None
  BY <1>2, EventIs DEF ProposedEvent, EventRecord
<1> HIDE DEF e
<1>4. Begins("call", e)
  BY <1>1, <1>3, VerifyingBegins
<1>5. Serves /\ ~At("verify") /\ "CHECKING" \in Statuses
  BY <1>1 DEF Serves, At, Statuses
<1>6. QED
  BY <1>1, <1>3, <1>4, <1>5, BeginningKeeps

LEMMA GenerateResponseKeeps ==
    ASSUME SessionInv, GenerateResponse
    PROVE  SessionInv'
<1> DEFINE id == <<"response", session.minted["response"] + 1>>
           sources == {Request.lead} \cap DOMAIN state.objects
           base == [Event("TOOL_RESULT") EXCEPT !.body = Request.body, !.objects = {id}]
           e == IF sources = {} THEN [base EXCEPT !.introduces = id]
                ELSE [base EXCEPT !.derives = [source |-> Request.lead, target |-> id,
                                               preserves |-> TRUE]]
<1>1. /\ At("check")
      /\ Request.tool = "response.release"
      /\ session' = [Consumed EXCEPT !.minted["response"] = @ + 1]
      /\ frame' = Verifying("generation", e)
      /\ UNCHANGED <<host, mode, selection, requests, held, state, audit, counts>>
  BY DEF GenerateResponse, Quiet, deployment
<1>2. Serves /\ ~At("verify") /\ "CHECKING" \in Statuses
  BY <1>1 DEF Serves, At, Statuses
<1>3. Request.body # "none"
  BY <1>1, <1>2 DEF SessionInv, RequestsOK, RequestRecord, Request
<1>4. /\ EventRecord(e)
      /\ e.id = <<NextSequence, 0>> /\ e.sequence = NextSequence
      /\ e.introduces # None => e.derives = None /\ e.payload = None /\ e.body # "none"
  <2>1. /\ EventRecord(base) /\ base.introduces = None /\ base.derives = None
        /\ base.payload = None /\ base.body = Request.body
        /\ base.id = <<NextSequence, 0>> /\ base.sequence = NextSequence
    BY EventIs DEF EventRecord, EventTypes
  <2> HIDE DEF base, id, sources
  <2>2. QED
    BY <1>3, <2>1 DEF EventRecord
<1> HIDE DEF e
<1>5. Begins("generation", e) /\ frame'.at = "verify"
  BY <1>1, <1>4, VerifyingBegins, VerifyingAt
<1>6. \E minted : session' = [Consumed EXCEPT !.minted = minted]
  BY <1>1
<1>7. QED
  BY <1>1, <1>2, <1>4, <1>5, <1>6, BeginningKeeps

LEMMA AgentErrorsKeeps ==
    ASSUME SessionInv, AgentErrors
    PROVE  SessionInv'
<1> DEFINE e == Event("AGENT_ERROR")
<1>1. /\ At("raised")
      /\ session' = Consumed
      /\ frame' = Verifying("escape", e)
      /\ UNCHANGED <<host, mode, selection, requests, held, state, audit, counts>>
  BY DEF AgentErrors, Quiet, deployment
<1>2. /\ EventRecord(e)
      /\ e.id = <<NextSequence, 0>> /\ e.sequence = NextSequence
      /\ e.introduces = None /\ e.derives = None
  BY EventIs DEF EventTypes
<1> HIDE DEF e
<1>3. Begins("escape", e) /\ ~At("verify") /\ "CHECKING" \in Statuses
  BY <1>1, <1>2, VerifyingBegins DEF At, Statuses
<1>4. QED
  BY <1>1, <1>2, <1>3, BeginningKeeps
LEMMA OfferResponseKeeps ==
    ASSUME SessionInv, OfferResponse
    PROVE  SessionInv'
<1>1. /\ Decided("generation")
      /\ session' = Consumed
      /\ UNCHANGED <<host, mode, selection, requests, held, state, audit, counts>>
  BY DEF OfferResponse, Quiet, deployment
<1>2. PICK source \in frame.original.objects :
        LET personal == state.objects[source][Personal] = "true"
            target == <<source, IF personal THEN "redact" ELSE "copy", frame.original.id>>
        IN  frame' = Verifying("release",
                [Event("RESPONSE_GENERATED") EXCEPT
                    !.body = Released(Request.body, personal), !.objects = {target},
                    !.facts = [trust_boundary |-> "user", recipient_type |-> "requesting_user"],
                    !.derives = [source |-> source, target |-> target,
                                 preserves |-> ~personal]])
  BY DEF OfferResponse
<1> DEFINE personal == state.objects[source][Personal] = "true"
           target == <<source, IF personal THEN "redact" ELSE "copy", frame.original.id>>
           e == [Event("RESPONSE_GENERATED") EXCEPT
                    !.body = Released(Request.body, personal), !.objects = {target},
                    !.facts = [trust_boundary |-> "user", recipient_type |-> "requesting_user"],
                    !.derives = [source |-> source, target |-> target,
                                 preserves |-> ~personal]]
<1>3. /\ EventRecord(e)
      /\ e.id = <<NextSequence, 0>> /\ e.sequence = NextSequence
      /\ e.introduces = None
  BY EventIs DEF EventTypes, EventRecord
<1>4. frame' = Verifying("release", e)
  BY <1>2
<1> HIDE DEF e
<1>5. Begins("release", e) /\ frame'.at = "verify"
  BY <1>3, <1>4, VerifyingBegins, VerifyingAt
<1>6. Serves /\ ~At("verify") /\ "CHECKING" \in Statuses
  BY <1>1 DEF Serves, InFlight, Decided, At, Statuses
<1>7. QED
  BY <1>1, <1>3, <1>5, <1>6, BeginningKeeps

LEMMA ExecuteReadKeeps ==
    ASSUME SessionInv, ExecuteRead
    PROVE  SessionInv'
<1> DEFINE prefix == Registry[Request.tool].prefix
           id == <<prefix, session.minted[prefix] + 1>>
<1>1. /\ Executing("call")
      /\ Registry[Request.tool].source
      /\ session' = [Consumed EXCEPT !.minted[prefix] = @ + 1]
      /\ UNCHANGED <<host, mode, selection, requests, held, state, audit, counts>>
  BY DEF ExecuteRead, Quiet, deployment
<1>2. PICK body \in Reads[prefix] :
        frame' = Verifying("result",
            [Event("TOOL_RESULT") EXCEPT !.body = body, !.objects = {id}, !.introduces = id])
  BY DEF ExecuteRead
<1> DEFINE e == [Event("TOOL_RESULT") EXCEPT !.body = body, !.objects = {id}, !.introduces = id]
<1>3. Serves /\ ~At("verify") /\ "CHECKING" \in Statuses
  BY <1>1 DEF Serves, InFlight, Executing, At, Statuses
<1>4. body # "none"
  <2>1. Request.tool \in ToolNames
    BY <1>1 DEF SessionInv, RequestsOK, InFlight, Executing, At
  <2>2. prefix \in {"rows", "page"}
    BY <1>1, <2>1 DEF Registry, ToolNames, Tool
  <2>3. QED
    BY <2>2, ReadsAssumption
<1>5. /\ EventRecord(e)
      /\ e.id = <<NextSequence, 0>> /\ e.sequence = NextSequence
      /\ e.derives = None /\ e.payload = None /\ e.body = body
  BY EventIs DEF EventTypes, EventRecord
<1>6. frame' = Verifying("result", e)
  BY <1>2
<1> HIDE DEF e
<1>7. Begins("result", e) /\ frame'.at = "verify"
  BY <1>5, <1>6, VerifyingBegins, VerifyingAt
<1>8. \E minted : session' = [Consumed EXCEPT !.minted = minted]
  BY <1>1
<1>9. QED
  BY <1>1, <1>3, <1>4, <1>5, <1>7, <1>8, BeginningKeeps

LEMMA ExecuteEffectKeeps ==
    ASSUME SessionInv, ExecuteEffect
    PROVE  SessionInv'
<1> DEFINE objects == IF mode = "audit" THEN frame.original.objects ELSE frame.event.objects
           e == [Event("TOOL_RESULT") EXCEPT !.body = "plain", !.objects = objects]
<1>1. /\ Executing("call")
      /\ session' = Consumed
      /\ frame' = Verifying("result", e)
      /\ UNCHANGED <<host, mode, selection, requests, held, state, audit, counts>>
  BY DEF ExecuteEffect, Quiet, deployment
<1>2. /\ EventRecord(e)
      /\ e.id = <<NextSequence, 0>> /\ e.sequence = NextSequence
      /\ e.introduces = None /\ e.derives = None
  BY EventIs DEF EventTypes, EventRecord
<1> HIDE DEF e
<1>3. Begins("result", e)
  BY <1>1, <1>2, VerifyingBegins
<1>4. Serves /\ ~At("verify") /\ "CHECKING" \in Statuses
  BY <1>1 DEF Serves, InFlight, Executing, At, Statuses
<1>5. QED
  BY <1>1, <1>2, <1>3, <1>4, BeginningKeeps

LEMMA ToolFailsKeeps ==
    ASSUME SessionInv, ToolFails
    PROVE  SessionInv'
<1> DEFINE e == Event("AGENT_ERROR")
<1>1. /\ Executing("call")
      /\ session' = Consumed
      /\ frame' = Verifying("error", e)
      /\ requests' = [requests EXCEPT ![frame.request].status = "FAILED"]
      /\ \E faults : counts' = [counts EXCEPT !.faults = faults]
      /\ UNCHANGED <<host, mode, selection, held, state, audit>>
  BY DEF ToolFails, Settle, deployment
<1>2. /\ EventRecord(e)
      /\ e.id = <<NextSequence, 0>> /\ e.sequence = NextSequence
      /\ e.introduces = None /\ e.derives = None
  BY EventIs DEF EventTypes
<1> HIDE DEF e
<1>3. Begins("error", e)
  BY <1>1, <1>2, VerifyingBegins
<1>4. Serves /\ ~At("verify") /\ "FAILED" \in Statuses
  BY <1>1 DEF Serves, InFlight, Executing, At, Statuses
<1>5. QED
  BY <1>1, <1>2, <1>3, <1>4, BeginningKeeps
\* A frame that goes on with the event it has.
LEMMA MovingKeeps ==
    ASSUME SessionInv, Serves, ~At("verify"),
           UNCHANGED <<host, mode, held, state, session, audit, counts>>,
           NEW label \in {"hydrate", "grant", "check", "execute"},
           label = "execute" => At("decided") /\ (mode = "enforce" => Allowed(frame.outcome)),
           label = "grant" => frame.grants # <<>>,
           frame' = [frame EXCEPT !.at = label],
           NEW i, NEW status \in Statuses, NEW approved,
           \/ requests' = requests
           \/ requests' = [requests EXCEPT ![i].status = status, ![i].approved = approved]
    PROVE  SessionInv'
<1>1. frame'.at = label /\ frame'.op = frame.op /\ frame'.request = frame.request
  BY DEF SessionInv, Shape
<1>2. Shape'
  BY MovingShape
<1>3. Verification'
  BY MovingKeepsVerification
<1>4. RequestsOK'
  <2>1. /\ None \notin DOMAIN held'
        /\ frame'.request \in DOMAIN requests
        /\ InFlight' /\ frame'.op = "call" => requests[frame'.request].tool \in ToolNames
    BY <1>1 DEF SessionInv, RequestsOK, InFlight, At, Request
  <2>2. QED
    BY <2>1, RequestsKept
<1>5. Described'
  BY DescribedKept, PreservedItself DEF Pending
<1>6. QED
  BY <1>2, <1>3, <1>4, <1>5, SessionInvParts

\* An operation that is over.
LEMMA RestingKeeps ==
    ASSUME SessionInv, UNCHANGED host, UNCHANGED held,
           NEW at \in {"idle", "raised", "over"}, NEW request,
           frame' = Frame(at, request, FALSE, <<>>),
           StateRecord(state'), DOMAIN session' = DOMAIN session, session'.sequence \in Int,
           DOMAIN counts' = DOMAIN counts, counts'.sessions = counts.sessions,
           counts'.approvals = counts.approvals,
           NEW i, NEW status \in Statuses,
           requests' = requests \/ requests' = [requests EXCEPT ![i].status = status],
           Described'
    PROVE  SessionInv'
<1>1. <<>> \in Seq(Grants)
  OBVIOUS
<1>2. Shape' /\ Verification'
  BY <1>1, RestingShape DEF SessionInv, Shape
<1>3. RequestsOK'
  <2>1. frame'.at = at
    BY DEF Frame
  <2>2. ~Serves' /\ ~InFlight' /\ None \notin DOMAIN held'
    BY <2>1 DEF Serves, InFlight, SessionInv, RequestsOK
  <2>3. QED
    BY <2>2, RequestsKept
<1>4. QED
  BY <1>2, <1>3, SessionInvParts

\* The same where nothing but the frame and the status of a request changes.
LEMMA EndingKeeps ==
    ASSUME SessionInv, ~At("verify"), UNCHANGED <<host, held, state, session, counts>>,
           NEW at \in {"idle", "raised", "over"}, NEW request,
           frame' = Frame(at, request, FALSE, <<>>),
           NEW i, NEW status \in Statuses,
           requests' = requests \/ requests' = [requests EXCEPT ![i].status = status]
    PROVE  SessionInv'
<1>1. Described'
  BY DescribedKept, PreservedItself DEF Pending
<1>2. StateRecord(state') /\ session'.sequence \in Int
  BY DEF SessionInv, Shape
<1>3. QED
  BY <1>1, <1>2, RestingKeeps

LEMMA EndingIs ==
    /\ Idle = Frame("idle", 0, FALSE, <<>>)
    /\ Over = Frame("over", frame.request, FALSE, <<>>) \/ Over = Idle
    /\ Raised = Frame("raised", frame.request, FALSE, <<>>) \/ Raised = Idle
  BY DEF Idle, Over, Raised

LEMMA MovesKeep ==
    ASSUME SessionInv, Hydrated \/ PreparationDecided
    PROVE  SessionInv'
<1>1. /\ UNCHANGED <<host, mode, held, state, session, audit, counts>>
      /\ Serves /\ ~At("verify") /\ "CHECKING" \in Statuses
  BY DEF Hydrated, PreparationDecided, Quiet, deployment, Decided, Serves, InFlight, At, Statuses
<1>2. CASE Hydrated
  BY <1>1, <1>2, MovingKeeps DEF Hydrated
<1>3. CASE PreparationDecided
  <2>1. PICK label \in {"hydrate", "grant"} :
            /\ frame' = [frame EXCEPT !.at = label]
            /\ label = "grant" => frame.grants # <<>>
    BY <1>3 DEF PreparationDecided
  <2>2. requests' = requests
    BY <1>3 DEF PreparationDecided
  <2>3. QED
    BY <1>1, <2>1, <2>2, MovingKeeps
<1>4. QED
  BY <1>2, <1>3

LEMMA DecidedKeeps ==
    ASSUME SessionInv, CallDecided \/ ReleaseDecided \/ GenerationRefused
    PROVE  SessionInv'
<1>1. /\ UNCHANGED <<host, mode, held, state, session, audit, counts>>
      /\ Serves /\ ~At("verify") /\ At("decided")
  BY DEF CallDecided, ReleaseDecided, GenerationRefused, Quiet, deployment, Decided, Serves,
         InFlight, At
<1>2. CASE /\ frame' = [frame EXCEPT !.at = "execute"]
           /\ Runs(frame.outcome)
           /\ UNCHANGED requests
  <2>1. mode = "enforce" => Allowed(frame.outcome)
    BY <1>2 DEF Runs
  <2>2. "CHECKING" \in Statuses
    BY DEF Statuses
  <2>3. QED
    BY <1>1, <1>2, <2>1, <2>2, MovingKeeps
<1>3. CASE \E status \in Statuses : /\ requests' = Settle(status)
                                    /\ frame' = Idle \/ frame' = Over
  BY <1>1, <1>3, EndingIs, EndingKeeps DEF Settle
<1>4. CASE CallDecided
  BY <1>2, <1>3, <1>4 DEF CallDecided, Held, Statuses
<1>5. CASE ReleaseDecided
  BY <1>2, <1>3, <1>5 DEF ReleaseDecided, RefuseResponse, Statuses
<1>6. CASE GenerationRefused
  BY <1>3, <1>6 DEF GenerationRefused, RefuseResponse, Statuses
<1>7. QED
  BY <1>4, <1>5, <1>6

LEMMA EndsKeep ==
    ASSUME SessionInv,
           UnregisteredTool \/ AgentCatches \/ ReportDecided \/ ReleaseResponse
    PROVE  SessionInv'
<1>1. /\ UNCHANGED <<host, held, state, session, counts>>
      /\ ~At("verify")
  BY DEF UnregisteredTool, AgentCatches, ReportDecided, ReleaseResponse, Quiet, deployment,
         Decided, Executing, At
<1>2. \E status \in Statuses :
            /\ requests' = requests \/ requests' = [requests EXCEPT ![frame.request].status = status]
            /\ frame' \in {Idle, Over, Raised}
  BY DEF UnregisteredTool, AgentCatches, ReportDecided, ReleaseResponse, Settle, Statuses
<1>3. QED
  BY <1>1, <1>2, EndingIs, EndingKeeps
-----------------------------------------------------------------------------
(* Every step keeps the invariant: passes, what is left of them, new sessions *)

LEMMA PassKeeps ==
    ASSUME SessionInv, EnforcementPass
    PROVE  SessionInv'
<1> DEFINE v == Enforced(Policy, frame.event, state)
<1>1. /\ At("verify")
      /\ state' = v.state
      /\ UNCHANGED <<host, mode, selection, requests, held, session, counts>>
  BY DEF EnforcementPass, deployment
<1>2. /\ StateRecord(state) /\ EventRecord(frame.event) /\ EventRecord(frame.original)
      /\ frame.repairs \in Nat
  BY <1>1, IsVerifying
<1>3. StateRecord(state') /\ Preserved(state, state')
  BY <1>1, <1>2, EnforcedIs
<1>4. /\ DOMAIN frame' = DOMAIN frame
      /\ frame'.at \in {"verify", "decided"}
      /\ frame'.op = frame.op
      /\ frame'.request = frame.request
      /\ frame'.grants = frame.grants
      /\ frame'.original = frame.original
      /\ frame'.repairs \in Nat
      /\ EventRecord(frame'.event)
  <2>1. CASE \E e \in Continues(frame.event, v, frame.repairs) :
                frame' = [frame EXCEPT !.event = e, !.repairs = @ + 1]
    <3>1. PICK e \in Continues(frame.event, v, frame.repairs) :
                frame' = [frame EXCEPT !.event = e, !.repairs = @ + 1]
      BY <2>1
    <3>2. e \in Intervene(frame.event, v.intervention)
      BY <3>1 DEF Continues
    <3>3. EventRecord(e)
      BY <1>2, <3>2, IntervenesIs
    <3>4. QED
      BY <1>1, <1>2, <3>1, <3>3 DEF SessionInv, Shape, At
  <2>2. CASE frame' = [frame EXCEPT !.at = "decided", !.outcome = Outcome(v)]
    BY <1>2, <2>2 DEF SessionInv, Shape
  <2>3. QED
    BY <2>1, <2>2 DEF EnforcementPass
<1>5. Shape'
  BY <1>1, <1>2, <1>3, <1>4 DEF SessionInv, Shape, HasEvent, At
<1>6. RequestsOK'
  <2>1. /\ Serves' => frame'.request \in DOMAIN requests
        /\ InFlight' /\ frame'.op = "call" => /\ frame'.request \in DOMAIN requests
                                              /\ requests[frame'.request].tool \in ToolNames
        /\ None \notin DOMAIN held' /\ "CHECKING" \in Statuses
    BY <1>1, <1>4 DEF SessionInv, RequestsOK, Serves, InFlight, At, Request, Statuses
  <2>2. QED
    BY <1>1, <2>1, RequestsKept
<1>7. Described'
  <2>1. ASSUME Pending, frame.original.introduces # None
        PROVE  LET o == frame.original.introduces
               IN  /\ o \in DOMAIN state'.objects
                   /\ state'.objects[o] = Classification(session.payloads[o])
    BY <1>1, <2>1, PassBrings DEF SessionInv, Brought, InFlight, At
  <2>2. QED
    BY <1>1, <1>3, <2>1, DescribedKept
<1>8. QED
  BY <1>5, <1>6, <1>7, PassKeepsVerification, SessionInvParts
\* An escalated call is in sequence and brings nothing: applying it leaves every object alone.
LEMMA EscalationApplies ==
    ASSUME SessionInv, At("escalate")
    PROVE  /\ ~ApplyRaises(frame.event, state)
           /\ StateRecord(Applied(frame.event, state))
           /\ Preserved(state, Applied(frame.event, state))
           /\ frame.event = frame.original
           /\ frame.original.introduces = None
           /\ frame.repairs = 0
<1>1. /\ StateRecord(state) /\ EventRecord(frame.event)
      /\ frame.event.sequence > state.last_sequence
      /\ frame.original.introduces = None /\ frame.original.derives = None /\ frame.repairs = 0
      /\ frame.event = frame.original
  BY DEF SessionInv, Shape, HasEvent, InFlight, SequencesAccepted, EscalatedBringsNothing,
         Origins, At
<1>2. ~ApplyRaises(frame.event, state)
  BY <1>1 DEF ApplyRaises, Introduces, Derives, StateRecord, EventRecord
<1>3. QED
  BY <1>1, <1>2, AppliedIs

LEMMA EscalationKeeps ==
    ASSUME SessionInv, RuntimeEscalation
    PROVE  SessionInv'
<1>1. /\ At("escalate")
      /\ state' = Applied(frame.event, state)
      /\ frame' = [frame EXCEPT !.at = "decided", !.outcome = "REQUIRE_APPROVAL"]
      /\ audit' = audit \cup {<<frame.event.id, "REQUIRE_APPROVAL">>}
      /\ UNCHANGED <<host, mode, selection, requests, held, session, counts>>
  BY DEF RuntimeEscalation, Appended, deployment
<1>2. /\ StateRecord(state') /\ Preserved(state, state')
      /\ frame.event = frame.original /\ frame.original.introduces = None /\ frame.repairs = 0
  BY <1>1, EscalationApplies
<1>3. /\ DOMAIN frame' = DOMAIN frame
      /\ frame'.at = "decided" /\ frame'.outcome = "REQUIRE_APPROVAL"
      /\ frame'.op = frame.op /\ frame'.request = frame.request
      /\ frame'.grants = frame.grants /\ frame'.repairs = frame.repairs
      /\ frame'.event = frame.event /\ frame'.original = frame.original
  BY <1>1 DEF SessionInv, Shape
<1>4. Shape'
  BY <1>1, <1>2, <1>3 DEF SessionInv, Shape, HasEvent, InFlight, At
<1>5. RequestsOK'
  <2>1. /\ Serves' => frame'.request \in DOMAIN requests
        /\ InFlight' /\ frame'.op = "call" => /\ frame'.request \in DOMAIN requests
                                              /\ requests[frame'.request].tool \in ToolNames
        /\ None \notin DOMAIN held' /\ "CHECKING" \in Statuses
    BY <1>1, <1>3 DEF SessionInv, RequestsOK, Serves, InFlight, At, Request, Statuses
  <2>2. QED
    BY <1>1, <2>1, RequestsKept
<1>6. Versions'
  BY <1>1, <1>3 DEF SessionInv, Versions, HasEvent, InFlight, At
<1>7. Decisions' /\ SequencesAccepted' /\ EscalatedBringsNothing'
  BY <1>1, <1>3 DEF Decisions, SequencesAccepted, EscalatedBringsNothing, At
<1>8. Origins' /\ Brought'
  BY <1>2, <1>3 DEF Origins, Brought
<1>9. Described'
  BY <1>1, <1>2, DescribedKept DEF Pending, At
<1>10. QED
  BY <1>4, <1>5, <1>6, <1>7, <1>8, <1>9, SessionInvParts DEF Verification

\* The event of a failed append has been applied all the same.
LEMMA AuditFailsKeeps ==
    ASSUME SessionInv, AuditFails
    PROVE  SessionInv'
<1> DEFINE v == Enforced(Policy, frame.event, state)
<1>1. /\ frame.at \in {"verify", "escalate"}
      /\ \E faults : counts' = [counts EXCEPT !.faults = faults]
      /\ state' = IF At("escalate") THEN Applied(frame.event, state) ELSE v.state
      /\ requests' = RequestRaises
      /\ frame' = Raised \/ frame' = Over
      /\ UNCHANGED <<host, mode, selection, held, session, audit>>
  BY DEF AuditFails, deployment, At
<1>2. /\ DOMAIN counts' = DOMAIN counts
      /\ counts'.sessions = counts.sessions
      /\ counts'.approvals = counts.approvals
  BY <1>1 DEF SessionInv, Shape
<1>3. StateRecord(state') /\ Preserved(state, state')
  <2>1. CASE At("escalate")
    BY <1>1, <2>1, EscalationApplies
  <2>2. CASE At("verify")
    <3>1. state' = v.state
      BY <1>1, <2>2 DEF At
    <3>2. QED
      BY <2>2, <3>1, IsVerifying, EnforcedIs
  <2>3. QED
    BY <1>1, <2>1, <2>2 DEF At
<1>4. Described'
  <2>1. ASSUME Pending, frame.original.introduces # None
        PROVE  LET o == frame.original.introduces
               IN  /\ o \in DOMAIN state'.objects
                   /\ state'.objects[o] = Classification(session.payloads[o])
    <3>1. At("verify") /\ state' = v.state
      BY <1>1, <2>1 DEF Pending, At
    <3>2. QED
      BY <2>1, <3>1, PassBrings DEF SessionInv, Brought, InFlight, At
  <2>2. QED
    BY <1>1, <1>3, <2>1, DescribedKept
<1>5. \E status \in Statuses :
            requests' = requests \/ requests' = [requests EXCEPT ![frame.request].status = status]
  BY <1>1 DEF RequestRaises, Settle, Statuses
<1>6. session'.sequence \in Int
  BY <1>1 DEF SessionInv, Shape
<1>7. QED
  BY <1>1, <1>2, <1>3, <1>4, <1>5, <1>6, EndingIs, RestingKeeps

\* A result whose ingestion was refused leaves the classification of whatever had its id; only
\* where it was accepted does the classification describe what is kept.
LEMMA ResultDecidedKeeps ==
    ASSUME SessionInv, ResultDecided
    PROVE  SessionInv'
<1> DEFINE id == frame.original.introduces
           body == frame.original.body
<1>1. /\ At("decided")
      /\ requests' = [requests EXCEPT ![frame.request].status = "EXECUTED"]
      /\ frame' = Idle
      /\ UNCHANGED <<host, mode, selection, state, audit, counts>>
  BY DEF ResultDecided, Decided, Settle, deployment, At
<1>2. ~Pending /\ "EXECUTED" \in Statuses
  BY <1>1 DEF Pending, At, Statuses
<1>3. StateRecord(state') /\ session.sequence \in Int
  BY <1>1 DEF SessionInv, Shape
<1>4. CASE id = None
  <2>1. UNCHANGED <<session, held>>
    BY <1>4 DEF ResultDecided
  <2>2. Described'
    BY <1>1, <1>2, <2>1, DescribedKept, PreservedItself
  <2>3. QED
    BY <1>1, <1>2, <1>3, <2>1, <2>2, EndingIs, RestingKeeps
<1>5. CASE id # None
  <2>1. /\ session' = [session EXCEPT !.payloads = Put(@, id, body),
                                      !.uncertain = Uncertain(id, frame.outcome)]
        /\ held' = Put(held, id, body)
    BY <1>5 DEF ResultDecided
  <2> DEFINE kept == Put(session.payloads, id, body)
             marked == Uncertain(id, frame.outcome)
  <2>2. session' = [session EXCEPT !.payloads = kept, !.uncertain = marked]
    BY <2>1
  <2>3. /\ DOMAIN kept = DOMAIN session.payloads \cup {id}
        /\ kept[id] = body
        /\ \A o \in DOMAIN session.payloads : o # id => kept[o] = session.payloads[o]
    BY DEF Put
  <2>4. session.uncertain \subseteq marked /\ (Allowed(frame.outcome) \/ id \in marked)
    BY DEF Uncertain
  <2>5. DOMAIN held \subseteq DOMAIN held' /\ None \notin DOMAIN held'
    <3>1. DOMAIN held' = DOMAIN held \cup {id}
      BY <2>1 DEF Put
    <3>2. QED
      BY <1>5, <3>1 DEF SessionInv, RequestsOK
  <2> HIDE DEF kept, marked
  <2>6. /\ DOMAIN session' = DOMAIN session
        /\ session'.sequence \in Int
        /\ session'.payloads = kept
        /\ session'.uncertain = marked
    BY <1>3, <2>2 DEF SessionInv, Shape
  <2>7. /\ id \in DOMAIN state.objects
        /\ Allowed(frame.outcome) => state.objects[id] = Classification(body)
    BY <1>1, <1>5 DEF SessionInv, Brought, InFlight, At
  <2>8. Described'
    BY <1>1, <1>2, <2>3, <2>4, <2>6, <2>7 DEF SessionInv, Described
  <2>9. Shape' /\ Verification'
    <3>1. <<>> \in Seq(Grants)
      OBVIOUS
    <3>2. QED
      BY <1>1, <1>3, <2>6, <3>1, RestingShape DEF Idle, SessionInv, Shape
  <2>10. RequestsOK'
    <3>1. ~Serves' /\ ~InFlight'
      BY <1>1 DEF Serves, InFlight, Idle, Frame
    <3>2. QED
      BY <1>1, <1>2, <2>5, <3>1, RequestsKept
  <2>11. QED
    BY <2>8, <2>9, <2>10, SessionInvParts
<1>6. QED
  BY <1>4, <1>5
LEMMA ComplianceStateIs ==
    /\ StateRecord(ComplianceState)
    /\ ComplianceState.last_sequence = -1
  BY DEF ComplianceState, StateRecord

LEMMA FreshSessionIs ==
    /\ DOMAIN FreshSession = {"sequence", "minted", "payloads", "uncertain"}
    /\ FreshSession.sequence = -1
    /\ DOMAIN FreshSession.payloads = {}
  BY DEF FreshSession

LEMMA NewSessionIs ==
    ASSUME SessionInv, NewSession
    PROVE  /\ StateRecord(state') /\ state'.last_sequence = -1
           /\ DOMAIN session' = {"sequence", "minted", "payloads", "uncertain"}
           /\ session'.sequence \in Int
           /\ DOMAIN session'.payloads = {}
           /\ DOMAIN counts' = {"sessions", "approvals", "faults"}
           /\ counts'.sessions = counts.sessions + 1
           /\ counts'.sessions \in 0 .. MaxSessions
           /\ counts'.approvals \in 0 .. MaxApprovals
           /\ Described'
<1>1. \E n \in Int : session' = [FreshSession EXCEPT !.sequence = n]
  <2> DEFINE n == IF host = "wrap" THEN 0 ELSE -1
  <2>1. n \in Int /\ session' = [FreshSession EXCEPT !.sequence = n]
    BY DEF NewSession
  <2>2. QED
    BY <2>1
<1>2. /\ DOMAIN session' = {"sequence", "minted", "payloads", "uncertain"}
      /\ session'.sequence \in Int
      /\ DOMAIN session'.payloads = {}
  BY <1>1, FreshSessionIs
<1>3. StateRecord(state') /\ state'.last_sequence = -1
  BY ComplianceStateIs DEF NewSession
<1>4. /\ DOMAIN counts' = {"sessions", "approvals", "faults"}
      /\ counts'.sessions = counts.sessions + 1
      /\ counts'.sessions \in 0 .. MaxSessions
      /\ counts'.approvals \in 0 .. MaxApprovals
  BY SessionAssumption DEF NewSession, SessionInv, Shape
<1>5. Described'
  BY <1>2 DEF Described
<1>6. QED
  BY <1>2, <1>3, <1>4, <1>5

LEMMA InvokeKeeps ==
    ASSUME SessionInv, Invoke
    PROVE  SessionInv'
<1> DEFINE e == LifecycleEvent("USER_REQUEST", 0)
           f == Frame("verify", 0, FALSE, <<>>)
<1>1. /\ host = "wrap"
      /\ NewSession
      /\ frame' = [f EXCEPT !.op = "request", !.event = e, !.original = e]
      /\ held' = [o \in {} |-> "none"]
      /\ UNCHANGED <<host, mode, selection, requests>>
  BY DEF Invoke, deployment
<1>2. /\ EventRecord(e)
      /\ e.id = <<0, 0>> /\ e.sequence = 0
      /\ e.introduces = None
  BY DEF LifecycleEvent, EventRecord, EventTypes
<1> HIDE DEF e
<1>3. /\ DOMAIN frame' = {"at", "op", "request", "approved", "grants", "event", "original",
                          "repairs", "outcome"}
      /\ frame'.at = "verify" /\ frame'.op = "request" /\ frame'.event = e
      /\ frame'.original = e /\ frame'.repairs = 0 /\ frame'.grants = <<>>
  BY <1>1 DEF Frame
<1>4. Shape' /\ Described'
  <2>1. <<>> \in Seq(Grants)
    OBVIOUS
  <2>2. /\ StateRecord(state') /\ Described'
        /\ DOMAIN session' = {"sequence", "minted", "payloads", "uncertain"}
        /\ session'.sequence \in Int
        /\ DOMAIN counts' = {"sessions", "approvals", "faults"}
        /\ counts'.sessions \in 0 .. MaxSessions
        /\ counts'.approvals \in 0 .. MaxApprovals
    BY <1>1, NewSessionIs
  <2>3. QED
    BY <1>2, <1>3, <2>1, <2>2 DEF Shape, At
<1>5. Verification'
  <2>1. Versions' /\ Decisions' /\ EscalatedBringsNothing' /\ Origins' /\ Brought'
    BY <1>2, <1>3, MaxRepairsAssumption DEF Versions, Decisions, EscalatedBringsNothing, Origins,
       Brought, At
  <2>2. SequencesAccepted'
    BY <1>1, <1>2, <1>3, NewSessionIs DEF SequencesAccepted
  <2>3. QED
    BY <2>1, <2>2 DEF Verification
<1>6. RequestsOK'
  <2>1. ~Serves' /\ ~(InFlight' /\ frame'.op = "call") /\ "CHECKING" \in Statuses
    BY <1>3 DEF Serves, Statuses
  <2>2. None \notin DOMAIN held'
    BY <1>1
  <2>3. QED
    BY <1>1, <2>1, <2>2, RequestsKept
<1>7. QED
  BY <1>4, <1>5, <1>6, SessionInvParts

LEMMA RestartKeeps ==
    ASSUME SessionInv, Restart
    PROVE  SessionInv'
<1> DEFINE left(t) == IF requests[t].status = "CHECKING"
                      THEN [requests[t] EXCEPT !.status = "RAISED"] ELSE requests[t]
<1>1. /\ NewSession
      /\ requests' = [t \in DOMAIN requests |-> left(t)]
      /\ frame' = Idle
      /\ UNCHANGED <<host, mode, selection, held>>
  BY DEF Restart, deployment
<1>2. Shape' /\ Verification' /\ Described'
  <2>1. <<>> \in Seq(Grants)
    OBVIOUS
  <2>2. QED
    BY <1>1, <2>1, NewSessionIs, RestingShape DEF Idle
<1>3. RequestsOK'
  <2>1. PICK S : requests \in Seq(S)
    BY DEF SessionInv, RequestsOK
  <2>2. DOMAIN requests = 1 .. Len(requests) /\ Len(requests) \in Nat
    BY <2>1
  <2>3. \A t \in DOMAIN requests : RequestRecord(left(t))
    BY DEF SessionInv, RequestsOK, RequestRecord
  <2>4. requests' \in Seq({left(t) : t \in DOMAIN requests})
    <3> DEFINE L == {left(t) : t \in DOMAIN requests}
    <3>1. \A t \in 1 .. Len(requests) : left(t) \in L
      BY <2>2
    <3>2. requests' = [t \in 1 .. Len(requests) |-> left(t)]
      BY <1>1, <2>2
    <3> HIDE DEF L, left
    <3>3. requests' \in Seq(L)
      BY <2>2, <3>1, <3>2
    <3>4. QED
      BY <3>3 DEF L
  <2>5. (\A t \in DOMAIN requests : RequestRecord(requests[t]))'
    BY <1>1, <2>3 DEF RequestRecord
  <2>6. ~Serves' /\ ~InFlight' /\ None \notin DOMAIN held'
    BY <1>1 DEF Serves, InFlight, Idle, Frame, SessionInv, RequestsOK
  <2>7. QED
    BY <2>4, <2>5, <2>6 DEF RequestsOK
<1>4. QED
  BY <1>2, <1>3, SessionInvParts

LEMMA InitKeeps ==
    ASSUME Init
    PROVE  SessionInv
<1>1. /\ state = ComplianceState /\ session = FreshSession /\ requests = <<>>
      /\ held = [o \in {} |-> "none"]
      /\ frame = Frame("over", 0, FALSE, <<>>) \/ frame = Frame("idle", 0, FALSE, <<>>)
  BY DEF Init, Idle
<1>2. /\ DOMAIN frame = {"at", "op", "request", "approved", "grants", "event", "original",
                         "repairs", "outcome"}
      /\ frame.at \in {"over", "idle"} /\ frame.event = None /\ frame.repairs = 0
      /\ frame.grants = <<>>
  BY <1>1 DEF Frame
<1>3. /\ DOMAIN session = {"sequence", "minted", "payloads", "uncertain"}
      /\ session.sequence \in Int
      /\ DOMAIN session.payloads = {}
  BY <1>1 DEF FreshSession
<1>4. /\ DOMAIN counts = {"sessions", "approvals", "faults"}
      /\ counts.sessions \in 0 .. MaxSessions
      /\ counts.approvals \in 0 .. MaxApprovals
  BY SessionAssumption DEF Init
<1>5. Shape
  <2>1. <<>> \in Seq(Grants)
    OBVIOUS
  <2>2. QED
    BY <1>1, <1>2, <1>3, <1>4, <2>1, ComplianceStateIs DEF Shape, HasEvent, InFlight, At
<1>6. RequestsOK
  <2>1. requests \in Seq({}) /\ DOMAIN requests = {} /\ DOMAIN held = {}
    BY <1>1
  <2>2. QED
    BY <1>2, <2>1 DEF RequestsOK, Serves, InFlight
<1>7. /\ Versions /\ Decisions /\ SequencesAccepted /\ Origins /\ EscalatedBringsNothing
      /\ Brought
  BY <1>2 DEF Versions, Decisions, SequencesAccepted, Origins, EscalatedBringsNothing, Brought,
              HasEvent, InFlight, At
<1>8. Described
  BY <1>3 DEF Described
<1>9. QED
  BY <1>5, <1>6, <1>7, <1>8 DEF SessionInv

LEMMA StepKeeps ==
    ASSUME SessionInv, [Next]_vars
    PROVE  SessionInv'
<1>1. CASE Next
  BY <1>1, AgentKeeps, HydrateKeeps, RecordApprovalKeeps, PrecheckKeeps, GenerateResponseKeeps,
     AgentErrorsKeeps, OfferResponseKeeps, ExecuteReadKeeps, ExecuteEffectKeeps,
     ToolFailsKeeps, MovesKeep, DecidedKeeps, EndsKeep, PassKeeps, EscalationKeeps,
     AuditFailsKeeps, ResultDecidedKeeps, InvokeKeeps, RestartKeeps DEF Next
<1>2. CASE UNCHANGED vars
  BY <1>2 DEF vars, deployment, SessionInv, Shape, RequestsOK, RequestRecord, Request, Versions,
              Decisions, SequencesAccepted, Origins, EscalatedBringsNothing, Brought, Described,
              Pending, Serves, HasEvent, InFlight, At
<1>3. QED
  BY <1>1, <1>2

LEMMA SessionInvariant ==
    Spec => []SessionInv
<1>1. Init => SessionInv
  BY InitKeeps
<1>2. SessionInv /\ [Next]_vars => SessionInv'
  BY StepKeeps
<1>3. QED
  BY <1>1, <1>2, PTL DEF Spec
-----------------------------------------------------------------------------
(* Theorems about events, the audit log and what is known of objects *)

\* The deployment is what it was at the beginning.
Deployed == host \in Hosts /\ mode \in {"enforce", "audit"} /\ selection \in Selections

LEMMA StaysDeployed ==
    ASSUME [Next]_vars
    PROVE  UNCHANGED deployment
<1>1. CASE \/ ProposeRead \/ ProposeSend \/ ProposeUnspecified
           \/ \E t \in DOMAIN requests : Approve(t) \/ Deny(t)
  BY <1>1 DEF ProposeRead, ProposeSend, ProposeUnspecified, Propose, Approve, Deny
<1>2. CASE \/ HydrateReferencedObjects \/ Hydrated \/ RecordApproval
           \/ Precheck \/ UnregisteredTool \/ GenerateResponse \/ AgentErrors \/ AgentCatches
           \/ PreparationDecided \/ ReportDecided \/ CallDecided
           \/ GenerationRefused \/ OfferResponse \/ ReleaseDecided
           \/ ReleaseResponse \/ ExecuteRead \/ ExecuteEffect
  BY <1>2 DEF HydrateReferencedObjects, Hydrated, RecordApproval, Precheck, UnregisteredTool,
              GenerateResponse, AgentErrors, AgentCatches, PreparationDecided, ReportDecided,
              CallDecided, GenerationRefused, OfferResponse, ReleaseDecided, ReleaseResponse,
              ExecuteRead, ExecuteEffect, Quiet
<1>3. CASE \/ EnforcementPass \/ RuntimeEscalation \/ AuditFails \/ ResultDecided \/ ToolFails
           \/ Invoke \/ Restart
  BY <1>3 DEF EnforcementPass, RuntimeEscalation, AuditFails, ResultDecided, ToolFails,
              Invoke, Restart
<1>4. CASE UNCHANGED vars
  BY <1>4 DEF vars, deployment
<1>5. QED
  BY <1>1, <1>2, <1>3, <1>4 DEF Next

LEMMA DeployedAlways ==
    Spec => []Deployed
<1>1. Init => Deployed
  BY DEF Init, Deployed
<1>2. Deployed /\ [Next]_vars => Deployed'
  BY StaysDeployed DEF Deployed, deployment
<1>3. QED
  BY <1>1, <1>2, PTL DEF Spec

\* The records, the objects and the counters are what they should be: nothing an agent asks,
\* a repair rewrites or a restart leaves gives a request, an event or a classification of
\* another form.
THEOREM TypeCorrect ==
    Spec => []TypeOK
<1>1. SessionInv /\ Deployed => TypeOK
  <2> SUFFICES ASSUME SessionInv, Deployed
               PROVE  TypeOK
    OBVIOUS
  <2>1. \A t \in DOMAIN requests :
            /\ requests[t].tool \in ToolNames \cup {"response.release"}
            /\ requests[t].references \subseteq DOMAIN held \/ host = "wrap"
            /\ requests[t].body \in Body
            /\ requests[t].status \in {"CHECKING", "WAITING_APPROVAL", "BLOCKED", "EXECUTED",
                                       "FAILED", "RAISED"}
    BY DEF SessionInv, RequestsOK, RequestRecord
  <2>2. \A o \in DOMAIN state.objects :
            state.objects[o] \in [ObjectVariables -> {"true", "false", "unknown"}]
    BY DEF SessionInv, Shape, StateRecord, Classes
  <2>3. DOMAIN session.payloads \subseteq DOMAIN state.objects \/ ~At("idle")
    BY DEF SessionInv, Described, Pending, At
  <2>4. /\ frame.at \in {"idle", "hydrate", "grant", "check", "verify", "escalate", "decided",
                         "execute", "raised", "over"}
        /\ frame.event # None => frame.event.type \in EventTypes
        /\ counts.sessions <= MaxSessions /\ counts.approvals <= MaxApprovals
    BY SessionAssumption DEF SessionInv, Shape, HasEvent, EventRecord
  <2>5. QED
    BY <2>1, <2>2, <2>3, <2>4 DEF TypeOK, Deployed
<1>2. QED
  BY <1>1, SessionInvariant, DeployedAlways, PTL

\* The adapter's counter and the events that number themselves never refuse one another.
THEOREM AcceptedInSequence ==
    Spec => []SequencesAccepted
<1>1. SessionInv => SequencesAccepted
  BY DEF SessionInv
<1>2. QED
  BY <1>1, SessionInvariant, PTL

\* Whatever failed before it, an effect runs on a version whose acceptance is in the log, and
\* every version that was replaced is there as such, within the bound of the harness.
THEOREM AuditPrecedesEffect ==
    Spec => []AuditedBeforeEffect
<1>1. SessionInv => AuditedBeforeEffect
  <2> SUFFICES ASSUME SessionInv, frame.event # None
               PROVE  /\ \A i \in 0 .. frame.event.id[2] - 1 :
                            <<[frame.event.id EXCEPT ![2] = i], "REPAIR">> \in audit
                      /\ frame.event.id[2] <= MaxRepairs
                      /\ Enforcing => \E outcome \in {"ALLOW", "AUDIT_ONLY"} :
                                            <<frame.event.id, outcome>> \in audit
    BY DEF AuditedBeforeEffect
  <2>1. /\ frame.event.id \in Int \X Nat
        /\ frame.event.id[2] = frame.repairs /\ frame.repairs <= MaxRepairs
        /\ \A i \in 0 .. frame.repairs - 1 : <<<<frame.event.id[1], i>>, "REPAIR">> \in audit
    BY DEF SessionInv, Shape, Versions, HasEvent, EventRecord
  <2>2. \A i \in 0 .. frame.repairs - 1 : [frame.event.id EXCEPT ![2] = i] = <<frame.event.id[1], i>>
    BY <2>1, PairUpdate
  <2>3. Enforcing => /\ <<frame.event.id, frame.outcome>> \in audit
                     /\ frame.outcome \in {"ALLOW", "AUDIT_ONLY"}
    BY DEF SessionInv, Decisions, Enforcing, Allowed, At
  <2>4. QED
    BY <2>1, <2>2, <2>3
<1>2. QED
  BY <1>1, SessionInvariant, PTL

\* What the session holds under an id is described by the classification, or marked.
THEOREM MarkedWhereUncertain ==
    Spec => []UncertainIsMarked
<1>1. SessionInv => UncertainIsMarked
  BY DEF SessionInv, Described, UncertainIsMarked, Pending, At
<1>2. QED
  BY <1>1, SessionInvariant, PTL

\* Only a new session forgets an object; nothing ever changes what is known of one.
LEMMA StepPreserves ==
    ASSUME SessionInv, [Next]_vars, counts'.sessions = counts.sessions
    PROVE  Preserved(state, state')
<1>1. CASE state' = state
  BY <1>1, PreservedItself
<1>2. CASE EnforcementPass
  <2>1. At("verify") /\ state' = Enforced(Policy, frame.event, state).state
    BY <1>2 DEF EnforcementPass
  <2>2. QED
    BY <2>1, IsVerifying, EnforcedIs
<1>3. CASE RuntimeEscalation
  BY <1>3, EscalationApplies DEF RuntimeEscalation
<1>4. CASE AuditFails
  <2>1. CASE At("escalate")
    BY <1>4, <2>1, EscalationApplies DEF AuditFails, At
  <2>2. CASE At("verify")
    <3>1. state' = Enforced(Policy, frame.event, state).state
      BY <1>4, <2>2 DEF AuditFails, At
    <3>2. QED
      BY <2>2, <3>1, IsVerifying, EnforcedIs
  <2>3. QED
    BY <1>4, <2>1, <2>2 DEF AuditFails, At
<1>5. CASE NewSession
  <2>1. counts.sessions \in Nat /\ counts'.sessions = counts.sessions + 1
    BY <1>5, NewSessionIs, SessionAssumption DEF SessionInv, Shape
  <2>2. QED
    BY <2>1
<1>6. CASE \/ ProposeRead \/ ProposeSend \/ ProposeUnspecified
           \/ \E t \in DOMAIN requests : Approve(t) \/ Deny(t)
  BY <1>1, <1>6 DEF ProposeRead, ProposeSend, ProposeUnspecified, Propose, Approve, Deny
<1>7. CASE \/ HydrateReferencedObjects \/ Hydrated \/ RecordApproval
           \/ Precheck \/ UnregisteredTool \/ GenerateResponse \/ AgentErrors \/ AgentCatches
           \/ PreparationDecided \/ ReportDecided \/ CallDecided
           \/ GenerationRefused \/ OfferResponse \/ ReleaseDecided
           \/ ReleaseResponse \/ ExecuteRead \/ ExecuteEffect \/ ResultDecided \/ ToolFails
  BY <1>1, <1>7 DEF HydrateReferencedObjects, Hydrated, RecordApproval, Precheck,
              UnregisteredTool, GenerateResponse, AgentErrors, AgentCatches,
              PreparationDecided, ReportDecided, CallDecided, GenerationRefused, OfferResponse,
              ReleaseDecided, ReleaseResponse, ExecuteRead, ExecuteEffect, ResultDecided,
              ToolFails
<1>8. CASE Invoke \/ Restart
  BY <1>5, <1>8 DEF Invoke, Restart
<1>9. CASE UNCHANGED vars
  BY <1>1, <1>9 DEF vars
<1>10. QED
  BY <1>2, <1>3, <1>4, <1>6, <1>7, <1>8, <1>9 DEF Next

\* Within a session an object is classified once, for every policy, repair and order of calls.
THEOREM ClassifiedOnce ==
    Spec => ClassificationIsFinal
<1>1. SessionInv /\ [Next]_vars =>
        [counts'.sessions = counts.sessions =>
            \A o \in DOMAIN state.objects :
                o \in DOMAIN state'.objects /\ state'.objects[o] = state.objects[o]]_vars
  BY StepPreserves DEF Preserved
<1>2. QED
  BY <1>1, SessionInvariant, PTL DEF Spec, ClassificationIsFinal
-----------------------------------------------------------------------------
(* What is admitted: the invariant *)

\* The facts that decide whether a rule is looked at are in what a call or a release asks.
Composed ==
    /\ frame.op = "call" =>
        /\ frame.event.type \in {"EXTERNAL_TRANSFER", "MEMORY_WRITE", "TOOL_CALL"}
        /\ {"recipient_type", "side_effectful", "trust_boundary"} \subseteq DOMAIN frame.event.facts
    /\ frame.op = "release" =>
        /\ frame.event.type = "RESPONSE_GENERATED"
        /\ "trust_boundary" \in DOMAIN frame.event.facts
    /\ At("execute") => frame.op \in {"call", "release"}

\* An effect that was decided of.
Admits == /\ frame.at \in {"decided", "execute"}
          /\ frame.op \in {"call", "release"}
          /\ Allowed(frame.outcome)

Complies ==
    Admits => \A rule \in LoadedRules :
                Violates(frame.event, rule) => rule.intervention = "AUDIT_ONLY"

\* A response that was taken in is known by what it says.
Generated ==
    InFlight /\ frame.op = "generation" =>
        /\ frame.original.body = Request.body
        /\ Request.body \in Body \ {"none"}
        /\ frame.original.payload = None
        /\ \E id \in frame.original.objects :
                   /\ frame.original.objects = {id}
                   /\ id \in {"response"} \X Nat
                   /\ \/ frame.original.introduces = id /\ frame.original.derives = None
                      \/ /\ frame.original.introduces = None
                         /\ frame.original.derives # None
                         /\ frame.original.derives.target = id
                   /\ frame.repairs > 0 \/ (At("decided") /\ Allowed(frame.outcome)) =>
                        /\ id \in DOMAIN state.objects
                        /\ state.objects[id] = Classification(Request.body)

\* A response is offered redacted, and one that is personal all the same gets no further than
\* its first pass.
Offered ==
    frame.op = "release" =>
        /\ frame.original.body \in Body \ {"none"}
        /\ redact_payload(frame.original.body) = frame.original.body
        /\ frame.original.payload = None
        /\ frame.original.introduces = None
        /\ frame.original.derives # None
        /\ frame.original.objects = {frame.original.derives.target}
        /\ DOMAIN frame.original.facts = {"trust_boundary", "recipient_type"}
        /\ (Regulated("GDPR") \/ Regulated("PIPL")) /\ PersonalBody(frame.original.body) =>
                frame.repairs = 0 /\ ~Admits

\* The ids of what is read, which are the ones an agent is given.
ReadId == {"rows", "page"} \X Nat

\* An agent has ids a session minted for a read, and leads with one or with none.
Identified ==
    /\ session.minted \in [{"rows", "page", "response"} -> Nat]
    /\ DOMAIN held \subseteq ReadId
    /\ \A t \in DOMAIN requests : requests[t].lead \in ReadId \cup {None}
    /\ InFlight /\ frame.op = "result" => frame.original.introduces \in ReadId \cup {None}

Admission == Composed /\ Complies /\ Generated /\ Offered

\* The packages of the deployment, as they are compiled.
Selected == [i \in DOMAIN selection |-> Load(selection[i])]

LEMMA SelectedIs ==
    ASSUME SoundPackages, Deployed
    PROVE  /\ WellFormed(Selected)
           /\ Policy = Compile(Selected)
           /\ \A rule \in LoadedRules :
                \E o \in Places(Selected) : RuleAt(Selected, o) = rule
<1>1. /\ selection \in Selections
      /\ DOMAIN selection \subseteq Nat
      /\ \A i \in DOMAIN selection : \E p \in Packages : p.id = selection[i]
      /\ \A p, q \in Packages : p.id = q.id => p = q
      /\ \A p \in Packages : DOMAIN p.rules \subseteq Nat
      /\ \A p \in Packages : \A i \in DOMAIN p.rules : ComplianceRule(p.rules[i])
      /\ \A p, q \in Packages : \A i \in DOMAIN p.rules, j \in DOMAIN q.rules :
            p.rules[i].rule_id = q.rules[j].rule_id => p.rules[i] = q.rules[j]
  BY DEF SoundPackages, Deployed
<1>2. \A p \in Packages : Load(p.id) = p
  BY <1>1 DEF Load
<1>3. \A i \in DOMAIN selection : Selected[i] \in Packages
  BY <1>1, <1>2 DEF Selected
<1>4. DOMAIN Selected = DOMAIN selection
  BY DEF Selected
<1>5. \A o \in Places(Selected) : \E p \in Packages : \E i \in DOMAIN p.rules :
            RuleAt(Selected, o) = p.rules[i]
  BY <1>3, <1>4 DEF Places, RuleAt
<1>6. WellFormed(Selected)
  <2>1. \A o \in Places(Selected) : ComplianceRule(RuleAt(Selected, o))
    BY <1>1, <1>5
  <2>2. \A o, q \in Places(Selected) :
            RuleAt(Selected, o).rule_id = RuleAt(Selected, q).rule_id
                => RuleAt(Selected, o) = RuleAt(Selected, q)
    BY <1>1, <1>5
  <2>3. QED
    BY <1>1, <1>3, <1>4, <2>1, <2>2 DEF WellFormed
<1>7. Policy = Compile(Selected)
  BY <1>1 DEF Policy, Policies, Selected
<1>8. ASSUME NEW rule \in LoadedRules
      PROVE  \E o \in Places(Selected) : RuleAt(Selected, o) = rule
  <2>1. PICK p \in Packages : Regulated(p.id) /\ rule \in {p.rules[i] : i \in DOMAIN p.rules}
    BY DEF LoadedRules
  <2>2. PICK j \in DOMAIN p.rules : rule = p.rules[j]
    BY <2>1
  <2>3. PICK i \in DOMAIN selection : selection[i] = p.id
    BY <2>1 DEF Regulated
  <2>4. Selected[i] = p
    BY <1>2, <2>3 DEF Selected
  <2>5. <<i, j>> \in Places(Selected) /\ RuleAt(Selected, <<i, j>>) = rule
    BY <1>4, <2>2, <2>4 DEF Places, RuleAt
  <2>6. QED
    BY <2>5
<1>9. QED
  BY <1>6, <1>7, <1>8

\* The verdict on a call or on a release is as strict as every rule that the event breaks in
\* the state it leads to.
LEMMA PassIsStrict ==
    ASSUME SoundPackages, Deployed, SessionInv, Composed, At("verify"),
           frame.op \in {"call", "release"}, NEW rule \in LoadedRules,
           Breaks(frame.event, rule, Enforced(Policy, frame.event, state).state)
    PROVE  LET v == Enforced(Policy, frame.event, state)
           IN  /\ v.decision \in {"ALLOW", "AUDIT_ONLY"} => rule.intervention = "AUDIT_ONLY"
               /\ rule.intervention = "REQUIRE_APPROVAL" =>
                    v.decision \notin {"ALLOW", "AUDIT_ONLY", "REPAIR"}
<1> DEFINE e == frame.event
           v == Enforced(Policy, e, state)
           changed == ChangedVariables(e)
<1>1. StateRecord(state) /\ EventRecord(e)
  BY IsVerifying
<1>2. Watched(e, changed, rule)
  <2>1. CASE e.type = "TOOL_CALL"
    <3>1. Dependencies(rule) \cap {Fact("recipient_type"), Fact("side_effectful"),
                                   Fact("trust_boundary")} # {}
      BY <2>1 DEF Breaks, SoundPackages, LoadedRules
    <3>2. {"recipient_type", "side_effectful", "trust_boundary"} \subseteq DOMAIN e.facts
      BY <2>1 DEF Composed
    <3>3. {Fact("recipient_type"), Fact("side_effectful"), Fact("trust_boundary")}
              \subseteq changed
      BY <3>2 DEF ChangedVariables, EventFacts
    <3>4. QED
      BY <3>1, <3>3 DEF Watched
  <2>2. CASE e.type # "TOOL_CALL"
    BY <2>2 DEF Composed, Watched, Forced
  <2>3. QED
    BY <2>1, <2>2
<1>3. PICK o \in Places(Selected) : RuleAt(Selected, o) = rule
  BY SelectedIs
<1>4. WellFormed(Selected) /\ Policy = Compile(Selected)
  BY SelectedIs
<1>5. Breaks(e, rule, v.state)
  OBVIOUS
<1> HIDE DEF e, changed, v
<1>6. QED
  BY <1>1, <1>2, <1>3, <1>4, <1>5, PassIsAsStrict DEF v, e, changed
-----------------------------------------------------------------------------
(* Every step keeps what is admitted within the rules *)

\* A repair only adds to the facts of its event.
LEMMA IntervenesFacts ==
    ASSUME NEW e, EventRecord(e), NEW intervention, NEW r \in Intervene(e, intervention)
    PROVE  DOMAIN e.facts \subseteq DOMAIN r.facts
<1> DEFINE facts == Put(e.facts, "is_minimized", "true")
<1>1. DOMAIN e.facts \subseteq DOMAIN facts
  BY DEF Put
<1>2. DOMAIN Repaired(e) = DOMAIN e
  BY DEF Repaired
<1> HIDE DEF facts
<1>3. r.facts = facts
  <2>1. ASSUME NEW body, r = [Repaired(e) EXCEPT !.body = body, !.facts = facts]
        PROVE  r.facts = facts
    BY <1>2, <2>1 DEF EventRecord
  <2>2. ASSUME NEW content, NEW target, NEW derives,
               r = [Repaired(e) EXCEPT !.body = content, !.payload = content,
                                       !.objects = {target}, !.derives = derives,
                                       !.facts = facts]
        PROVE  r.facts = facts
    BY <1>2, <2>2 DEF EventRecord
  <2>3. r = Redacted(e) => r.facts = facts
    BY <2>1 DEF Redacted, facts
  <2>4. ASSUME NEW o, r = Aggregated(e, o)
        PROVE  r.facts = facts
    BY <2>2, <2>4 DEF Aggregated, facts
  <2>5. QED
    BY <2>3, <2>4 DEF Intervene
<1>4. QED
  BY <1>1, <1>3

\* A derived object is known by what its event says of it, not by what it came from.
LEMMA DerivedIs ==
    ASSUME NEW s, StateRecord(s), NEW e, ~Introduces(e), Derives(e),
           e.payload = None, e.body # "none"
    PROVE  /\ e.derives.target \in DOMAIN Applied(e, s).objects
           /\ Applied(e, s).objects[e.derives.target] = Classification(e.body)
<1>1. Transform(e, s.objects) = Classification(e.body)
  BY DEF Transform, DetectInto
<1>2. Applied(e, s).objects = Put(s.objects, e.derives.target, Transform(e, s.objects))
  BY DEF Applied, StateRecord
<1>3. QED
  BY <1>1, <1>2 DEF Put

LEMMA ElsewhereAdmits ==
    ASSUME frame'.op \notin {"call", "release", "generation"}, frame'.at # "execute"
    PROVE  Admission'
  BY DEF Admission, Composed, Complies, Admits, Generated, Offered, At

\* The rules are those of the deployment, whatever the state.
LEMMA RulesStay ==
    ASSUME UNCHANGED deployment
    PROVE  /\ LoadedRules' = LoadedRules
           /\ \A id : Regulated(id)' <=> Regulated(id)
  BY DEF LoadedRules, Regulated, deployment

LEMMA MovingAdmits ==
    ASSUME SessionInv, Admission, UNCHANGED deployment, state' = state,
           NEW label \in {"hydrate", "grant", "check", "execute"},
           frame' = [frame EXCEPT !.at = label],
           label = "execute" => At("decided") /\ frame.op \in {"call", "release"}
    PROVE  Admission'
<1>1. /\ frame'.at = label /\ frame'.op = frame.op
      /\ frame'.event = frame.event /\ frame'.original = frame.original
      /\ frame'.repairs = frame.repairs /\ frame'.outcome = frame.outcome
  BY DEF SessionInv, Shape
<1>2. Composed'
  BY <1>1 DEF Admission, Composed, At
<1>3. Admits' => Admits
  BY <1>1 DEF Admits, At
<1>4. Complies'
  BY <1>1, <1>3, RulesStay DEF Admission, Complies, Violates
<1>5. Generated'
  BY <1>1 DEF Generated, InFlight
<1>6. Offered'
  BY <1>1, <1>3, RulesStay DEF Admission, Offered
<1>7. QED
  BY <1>2, <1>4, <1>5, <1>6 DEF Admission

\* A verification that begins has admitted nothing yet.
LEMMA BeginningAdmits ==
    ASSUME NEW op, NEW e, Begins(op, e), Composed', Generated',
           op = "release" =>
                /\ e.body \in Body \ {"none"}
                /\ redact_payload(e.body) = e.body
                /\ e.payload = None
                /\ e.introduces = None
                /\ e.derives # None
                /\ e.objects = {e.derives.target}
                /\ DOMAIN e.facts = {"trust_boundary", "recipient_type"}
    PROVE  Admission'
<1>1. ~Admits'
  BY DEF Admits, Begins
<1>2. Complies'
  BY <1>1 DEF Complies
<1>3. Offered'
  BY <1>1 DEF Offered, Begins
<1>4. QED
  BY <1>2, <1>3 DEF Admission

\* A call says where it goes and what it may do, whatever its tool and its approval add.
LEMMA PrecheckAdmits ==
    ASSUME SessionInv, Precheck
    PROVE  Admission'
<1> DEFINE e == ProposedEvent(Request, frame.approved)
           tool == Registry[Request.tool]
           facts == Merged(RiskFacts(tool), Merged(PolicyMetadata(Request.tool),
                                                   TrustedFacts(Request, frame.approved)))
<1>1. frame' = Verifying("call", e) \/ frame' = [Verifying("call", e) EXCEPT !.at = "escalate"]
  BY DEF Precheck
<1>2. /\ ProposalType(tool) \in {"EXTERNAL_TRANSFER", "MEMORY_WRITE", "TOOL_CALL"}
      /\ ProposalType(tool) \in EventTypes
  BY DEF ProposalType, EventTypes
<1>3. DOMAIN RiskFacts(tool) \subseteq DOMAIN facts
  <2>1. \A f, g : DOMAIN f \subseteq DOMAIN Merged(f, g)
    BY DEF Merged
  <2>2. QED
    BY <2>1
<1>4. {"recipient_type", "side_effectful", "trust_boundary"} \subseteq DOMAIN RiskFacts(tool)
  BY DEF RiskFacts
<1>5. /\ EventRecord(e)
      /\ e.id = <<NextSequence, 0>> /\ e.sequence = NextSequence
      /\ e.type = ProposalType(tool)
      /\ e.facts = facts
  <2> DEFINE base == Event(ProposalType(tool))
             objects == ResolvedObjects(Request)
  <2>1. /\ EventRecord(base) /\ base.type = ProposalType(tool)
        /\ base.id = <<NextSequence, 0>> /\ base.sequence = NextSequence
    BY <1>2, EventIs
  <2>2. \E aggregate : e = [base EXCEPT
                !.body = Request.body, !.objects = objects, !.recipient = Request.recipient,
                !.facts = facts, !.aggregate = aggregate]
    BY DEF ProposedEvent
  <2> HIDE DEF base, objects, facts, e, tool
  <2>3. QED
    BY <2>1, <2>2 DEF EventRecord
<1> HIDE DEF e, facts, tool
<1>6. Begins("call", e)
  BY <1>1, <1>5, VerifyingBegins
<1>7. Composed'
  BY <1>2, <1>3, <1>4, <1>5, <1>6 DEF Composed, Begins, At
<1>8. Generated'
  BY <1>6 DEF Generated, Begins
<1>9. QED
  BY <1>6, <1>7, <1>8, BeginningAdmits
-----------------------------------------------------------------------------
(* Every step keeps the ids *)

\* Ids are minted one at a time, and a new session begins again.
LEMMA MintedStays ==
    ASSUME SessionInv, Identified, [Next]_vars
    PROVE  /\ session'.minted \in [{"rows", "page", "response"} -> Nat]
           /\ NewSession \/ \A p \in {"rows", "page", "response"} :
                                session'.minted[p] >= session.minted[p]
<1> DEFINE Prefixes == {"rows", "page", "response"}
           Counts == [Prefixes -> Nat]
           Mints == \E p \in Prefixes : session'.minted =
                        [session.minted EXCEPT ![p] = session.minted[p] + 1]
           Stays == session'.minted = session.minted
<1>1. DOMAIN session = {"sequence", "minted", "payloads", "uncertain"} /\ session.minted \in Counts
  BY DEF SessionInv, Shape, Identified
<1>2. DOMAIN Consumed = DOMAIN session /\ Consumed.minted = session.minted
  BY <1>1 DEF Consumed
<1>3. CASE Stays
  BY <1>1, <1>3
<1>4. CASE Mints
  BY <1>1, <1>4
<1>5. CASE NewSession
  <2>1. DOMAIN FreshSession = DOMAIN session /\ FreshSession.minted \in Counts
    BY <1>1, ReadsAssumption DEF FreshSession
  <2>2. \E sequence : session' = [FreshSession EXCEPT !.sequence = sequence]
    BY <1>5 DEF NewSession
  <2> HIDE DEF Counts
  <2>3. session'.minted \in Counts
    BY <1>1, <2>1, <2>2
  <2>4. QED
    BY <1>5, <2>3 DEF Counts
<1> HIDE DEF Counts
<1>6. session' = session => Stays
  OBVIOUS
<1>7. session' = Consumed \/ (\E payloads : session' = [Consumed EXCEPT !.payloads = payloads])
        => Stays
  BY <1>1, <1>2
<1>8. ASSUME NEW p \in Prefixes, session' = [Consumed EXCEPT !.minted[p] = @ + 1]
      PROVE  Mints
  <2>1. session'.minted = [session.minted EXCEPT ![p] = session.minted[p] + 1]
    BY <1>1, <1>2, <1>8
  <2>2. QED
    BY <2>1
<1>9. ResultDecided => Stays
  <2>1. ResultDecided => session' = session \/ \E payloads, uncertain :
            session' = [session EXCEPT !.payloads = payloads, !.uncertain = uncertain]
    BY DEF ResultDecided
  <2>2. QED
    BY <1>1, <2>1
<1>10. ASSUME ExecuteRead
       PROVE  Mints
  <2>1. Request.tool \in ToolNames /\ Registry[Request.tool].source
    BY <1>10 DEF ExecuteRead, Executing, SessionInv, RequestsOK, InFlight, At
  <2>2. Registry[Request.tool].prefix \in {"rows", "page"}
    BY <2>1 DEF Registry, ToolNames, Tool
  <2>3. session' = [Consumed EXCEPT !.minted[Registry[Request.tool].prefix] = @ + 1]
    BY <1>10 DEF ExecuteRead
  <2> HIDE DEF Mints
  <2>4. QED
    BY <1>8, <2>2, <2>3
<1>11. ASSUME GenerateResponse
       PROVE  Mints
  <2>1. session' = [Consumed EXCEPT !.minted["response"] = @ + 1]
    BY <1>11 DEF GenerateResponse
  <2> HIDE DEF Mints
  <2>2. QED
    BY <1>8, <2>1
<1> HIDE DEF Stays, Mints
<1>12. CASE \/ ProposeRead \/ ProposeSend \/ ProposeUnspecified
            \/ \E t \in DOMAIN requests : Approve(t) \/ Deny(t)
  BY <1>3, <1>6, <1>12 DEF ProposeRead, ProposeSend, ProposeUnspecified, Propose, Approve, Deny
<1>13. CASE \/ HydrateReferencedObjects \/ RecordApproval \/ Precheck \/ AgentErrors
            \/ OfferResponse \/ ExecuteEffect \/ ToolFails
  BY <1>3, <1>7, <1>13 DEF HydrateReferencedObjects, RecordApproval, Precheck, AgentErrors,
                           OfferResponse, ExecuteEffect, ToolFails
<1>14. CASE \/ Hydrated \/ UnregisteredTool \/ AgentCatches \/ PreparationDecided
            \/ ReportDecided \/ CallDecided \/ GenerationRefused \/ ReleaseDecided
            \/ ReleaseResponse \/ EnforcementPass \/ RuntimeEscalation \/ AuditFails
  BY <1>3, <1>6, <1>14 DEF Hydrated, UnregisteredTool, AgentCatches, PreparationDecided,
                           ReportDecided, CallDecided, GenerationRefused, ReleaseDecided,
                           ReleaseResponse, EnforcementPass, RuntimeEscalation, AuditFails
<1>15. CASE Invoke \/ Restart
  BY <1>5, <1>15 DEF Invoke, Restart
<1>16. CASE UNCHANGED vars
  BY <1>3, <1>6, <1>16 DEF vars
<1>17. QED
  BY <1>3, <1>4, <1>9, <1>10, <1>11, <1>12, <1>13, <1>14, <1>15, <1>16 DEF Next

LEMMA HeldStays ==
    ASSUME SessionInv, Identified, [Next]_vars
    PROVE  DOMAIN held' \subseteq ReadId
<1>1. CASE held' = held
  BY <1>1 DEF Identified
<1>2. CASE ResultDecided
  <2>1. At("decided") /\ frame.op = "result"
    BY <1>2 DEF ResultDecided, Decided
  <2>2. frame.original.introduces \in ReadId \cup {None}
    BY <2>1 DEF Identified, InFlight, At
  <2>3. CASE frame.original.introduces = None
    BY <1>1, <1>2, <2>3 DEF ResultDecided
  <2>4. CASE frame.original.introduces # None
    <3>1. held' = Put(held, frame.original.introduces, frame.original.body)
      BY <1>2, <2>4 DEF ResultDecided
    <3>2. DOMAIN held' = DOMAIN held \cup {frame.original.introduces}
      BY <3>1 DEF Put
    <3>3. QED
      BY <2>2, <2>4, <3>2 DEF Identified
  <2>5. QED
    BY <2>3, <2>4
<1>3. CASE Invoke
  BY <1>3 DEF Invoke
<1>4. CASE \/ ProposeRead \/ ProposeSend \/ ProposeUnspecified
           \/ \E t \in DOMAIN requests : Approve(t) \/ Deny(t)
  BY <1>1, <1>4 DEF ProposeRead, ProposeSend, ProposeUnspecified, Propose, Approve, Deny
<1>5. CASE \/ HydrateReferencedObjects \/ RecordApproval \/ Precheck \/ AgentErrors
           \/ GenerateResponse \/ OfferResponse \/ ExecuteRead \/ ExecuteEffect \/ ToolFails
           \/ Hydrated \/ UnregisteredTool \/ AgentCatches \/ PreparationDecided
           \/ ReportDecided \/ CallDecided \/ GenerationRefused \/ ReleaseDecided
           \/ ReleaseResponse \/ EnforcementPass \/ RuntimeEscalation \/ AuditFails \/ Restart
  BY <1>1, <1>5 DEF HydrateReferencedObjects, RecordApproval, Precheck, AgentErrors,
                    GenerateResponse, OfferResponse, ExecuteRead, ExecuteEffect, ToolFails,
                    Hydrated, UnregisteredTool, AgentCatches, PreparationDecided, ReportDecided,
                    CallDecided, GenerationRefused, ReleaseDecided, ReleaseResponse,
                    EnforcementPass, RuntimeEscalation, AuditFails, Restart, Quiet
<1>6. CASE UNCHANGED vars
  BY <1>1, <1>6 DEF vars
<1>7. QED
  BY <1>2, <1>3, <1>4, <1>5, <1>6 DEF Next
\* What a request says is what it said; only the list of them grows, by what the agent proposes.
Asks(q, r) ==
    /\ q.tool = r.tool
    /\ q.references = r.references
    /\ q.lead = r.lead
    /\ q.recipient = r.recipient
    /\ q.body = r.body

LEMMA ProposalIsAppended ==
    ASSUME SessionInv, NEW tool, NEW references, NEW lead, NEW recipient,
           Propose(tool, references, lead, recipient)
    PROVE  /\ DOMAIN requests' = DOMAIN requests \cup {Len(requests) + 1}
           /\ requests'[Len(requests) + 1].tool = tool
           /\ requests'[Len(requests) + 1].references = references
           /\ requests'[Len(requests) + 1].lead = lead
           /\ requests'[Len(requests) + 1].recipient = recipient
           /\ requests'[Len(requests) + 1].body = Wording(tool, references)
           /\ requests'[Len(requests) + 1].approved = FALSE
           /\ \A u \in DOMAIN requests : requests'[u] = requests[u]
           /\ frame'.request = Len(requests) + 1
           /\ frame'.approved = FALSE
<1> DEFINE r == [tool |-> tool, references |-> references, lead |-> lead,
                 recipient |-> recipient, body |-> Wording(tool, references),
                 status |-> "CHECKING", approved |-> FALSE]
<1>1. PICK S : requests \in Seq(S)
  BY DEF SessionInv, RequestsOK
<1>2. /\ requests' = Append(requests, r)
      /\ frame'.request = Len(requests) + 1
      /\ frame'.approved = FALSE
  <2>1. /\ requests' = Append(requests, r)
        /\ frame' = Frame(IF host = "broker" THEN "hydrate" ELSE "check",
                          Len(requests) + 1, FALSE, <<>>)
    BY DEF Propose
  <2> HIDE DEF r
  <2>2. QED
    BY <2>1 DEF Frame
<1> HIDE DEF r
<1>3. /\ DOMAIN requests' = 1 .. Len(requests) + 1
      /\ DOMAIN requests = 1 .. Len(requests)
      /\ Len(requests) \in Nat
      /\ requests'[Len(requests) + 1] = r
      /\ \A u \in DOMAIN requests : requests'[u] = requests[u]
  BY <1>1, <1>2
<1>4. DOMAIN requests' = DOMAIN requests \cup {Len(requests) + 1}
  BY <1>3
<1>5. QED
  BY <1>2, <1>3, <1>4 DEF r

LEMMA RequestsStay ==
    ASSUME SessionInv, [Next]_vars, ~(ProposeRead \/ ProposeSend \/ ProposeUnspecified)
    PROVE  /\ DOMAIN requests' = DOMAIN requests
           /\ \A t \in DOMAIN requests :
                /\ Asks(requests'[t], requests[t])
                /\ Hydrated \/ requests'[t].approved = requests[t].approved
<1> DEFINE Stay == /\ DOMAIN requests' = DOMAIN requests
                   /\ \A t \in DOMAIN requests :
                        /\ Asks(requests'[t], requests[t])
                        /\ Hydrated \/ requests'[t].approved = requests[t].approved
<1>1. PICK S : requests \in Seq(S)
  BY DEF SessionInv, RequestsOK
<1>2. \A t \in DOMAIN requests : RequestRecord(requests[t])
  BY DEF SessionInv, RequestsOK
<1>3. CASE requests' = requests
  BY <1>3 DEF Asks
<1>4. ASSUME NEW i, NEW status, NEW approved,
             \/ requests' = [requests EXCEPT ![i].status = status]
             \/ /\ requests' = [requests EXCEPT ![i].status = status, ![i].approved = approved]
                /\ Hydrated
      PROVE  Stay
  <2>1. CASE i \in DOMAIN requests
    <3> DEFINE r == requests[i]
               q == requests'[i]
    <3>1. /\ DOMAIN requests' = DOMAIN requests
          /\ \A t \in DOMAIN requests : t # i => requests'[t] = requests[t]
          /\ \/ q = [r EXCEPT !.status = status]
             \/ q = [[r EXCEPT !.status = status] EXCEPT !.approved = approved] /\ Hydrated
      BY <1>1, <1>4, <2>1
    <3>2. RequestRecord(r)
      BY <1>2, <2>1
    <3>3. Asks(q, r) /\ (Hydrated \/ q.approved = r.approved)
      <4> HIDE DEF r, q
      <4>1. QED
        BY <3>1, <3>2 DEF RequestRecord, Asks
    <3>4. \A t \in DOMAIN requests : t # i => Asks(requests'[t], requests[t])
                                            /\ requests'[t].approved = requests[t].approved
      BY <3>1 DEF Asks
    <3>5. QED
      BY <3>1, <3>3, <3>4
  <2>2. CASE i \notin DOMAIN requests
    <3>1. requests' = requests
      BY <1>1, <1>4, <2>2
    <3>2. QED
      BY <1>3, <3>1
  <2>3. QED
    BY <2>1, <2>2
<1>5. CASE Restart
  <2>1. requests' = [t \in DOMAIN requests |->
            IF requests[t].status = "CHECKING" THEN [requests[t] EXCEPT !.status = "RAISED"]
            ELSE requests[t]]
    BY <1>5 DEF Restart
  <2>2. \A t \in DOMAIN requests : Asks(requests'[t], requests[t])
                                    /\ requests'[t].approved = requests[t].approved
    BY <1>2, <2>1 DEF RequestRecord, Asks
  <2>3. QED
    BY <2>1, <2>2
<1>6. CASE AuditFails \/ RuntimeEscalation \/ EnforcementPass
  <2>1. requests' = requests
        \/ \E status : requests' = [requests EXCEPT ![frame.request].status = status]
    BY <1>6 DEF AuditFails, RuntimeEscalation, EnforcementPass, RequestRaises, Settle
  <2>2. QED
    BY <1>3, <1>4, <2>1
<1>7. CASE \E t \in DOMAIN requests : Approve(t) \/ Deny(t)
  BY <1>3, <1>4, <1>7 DEF Approve, Deny
<1>8. CASE Hydrated
  <2>1. \/ requests' = requests
        \/ requests' = [requests EXCEPT ![frame.request].status = "CHECKING",
                                        ![frame.request].approved = frame.approved]
    BY <1>8 DEF Hydrated
  <2>2. QED
    BY <1>3, <1>4, <1>8, <2>1
<1>9. CASE \/ UnregisteredTool \/ ReportDecided \/ CallDecided \/ GenerationRefused
           \/ ReleaseDecided \/ ReleaseResponse \/ ResultDecided \/ ToolFails
  <2>1. requests' = requests \/ \E status : requests' = Settle(status)
    BY <1>9 DEF UnregisteredTool, ReportDecided, CallDecided, GenerationRefused,
          ReleaseDecided, ReleaseResponse, ResultDecided, ToolFails, RefuseResponse
  <2>2. QED
    BY <1>3, <1>4, <2>1 DEF Settle
<1>10. CASE \/ HydrateReferencedObjects \/ RecordApproval \/ Precheck \/ AgentErrors
            \/ GenerateResponse \/ OfferResponse \/ ExecuteRead \/ ExecuteEffect
            \/ AgentCatches \/ PreparationDecided \/ Invoke
  BY <1>3, <1>10 DEF HydrateReferencedObjects, RecordApproval, Precheck, AgentErrors,
        GenerateResponse, OfferResponse, ExecuteRead, ExecuteEffect, AgentCatches,
        PreparationDecided, Invoke
<1>11. CASE UNCHANGED vars
  BY <1>3, <1>11 DEF vars
<1>12. QED
  BY <1>5, <1>6, <1>7, <1>8, <1>9, <1>10, <1>11 DEF Next

LEMMA LeadStays ==
    ASSUME SessionInv, Identified, [Next]_vars
    PROVE  \A t \in DOMAIN requests' : requests'[t].lead \in ReadId \cup {None}
<1>1. \A t \in DOMAIN requests : requests[t].lead \in ReadId \cup {None}
  BY DEF Identified
<1>2. ASSUME NEW tool, NEW references, references \subseteq DOMAIN held,
             NEW lead \in references \cup {None}, NEW recipient,
             Propose(tool, references, lead, recipient)
      PROVE  \A t \in DOMAIN requests' : requests'[t].lead \in ReadId \cup {None}
  <2>1. lead \in ReadId \cup {None}
    BY <1>2 DEF Identified
  <2>2. /\ DOMAIN requests' = DOMAIN requests \cup {Len(requests) + 1}
        /\ requests'[Len(requests) + 1].lead = lead
        /\ \A u \in DOMAIN requests : requests'[u] = requests[u]
    BY <1>2, ProposalIsAppended
  <2>3. QED
    BY <1>1, <2>1, <2>2
<1>3. CASE ProposeRead \/ ProposeSend \/ ProposeUnspecified
  BY <1>2, <1>3 DEF ProposeRead, ProposeSend, ProposeUnspecified
<1>4. CASE ~(ProposeRead \/ ProposeSend \/ ProposeUnspecified)
  BY <1>1, <1>4, RequestsStay DEF Asks
<1>5. QED
  BY <1>3, <1>4

LEMMA ReadIdIs ==
    ReadId \subseteq Minted /\ None \notin ReadId
  BY NoneAssumption DEF ReadId, Minted

\* The object a read brings has the id it minted.
LEMMA BroughtByResult ==
    ASSUME SessionInv, Identified, [Next]_vars, InFlight', frame'.op = "result"
    PROVE  frame'.original.introduces \in ReadId \cup {None}
<1>1. CASE ExecuteRead
  <2> DEFINE prefix == Registry[Request.tool].prefix
             id == <<prefix, session.minted[prefix] + 1>>
  <2>1. Request.tool \in ToolNames /\ Registry[Request.tool].source
    BY <1>1 DEF ExecuteRead, Executing, SessionInv, RequestsOK, InFlight, At
  <2>2. prefix \in {"rows", "page"}
    BY <2>1 DEF Registry, ToolNames, Tool
  <2>3. id \in ReadId
    <3>1. session.minted[prefix] \in Nat
      BY <2>2 DEF Identified
    <3> HIDE DEF prefix
    <3>2. QED
      BY <2>2, <3>1 DEF ReadId
  <2>4. PICK body : frame' = Verifying("result",
            [Event("TOOL_RESULT") EXCEPT !.body = body, !.objects = {id}, !.introduces = id])
    BY <1>1 DEF ExecuteRead
  <2> DEFINE e == [Event("TOOL_RESULT") EXCEPT !.body = body, !.objects = {id},
                                               !.introduces = id]
  <2>5. e.introduces = id
    BY DEF Event, LifecycleEvent
  <2>6. frame'.original = e
    BY <2>4 DEF Verifying, SessionInv, Shape
  <2>7. QED
    BY <2>3, <2>5, <2>6
<1>2. CASE ExecuteEffect
  <2>1. PICK objects : frame' = Verifying("result",
            [Event("TOOL_RESULT") EXCEPT !.body = "plain", !.objects = objects])
    BY <1>2 DEF ExecuteEffect
  <2> DEFINE e == [Event("TOOL_RESULT") EXCEPT !.body = "plain", !.objects = objects]
  <2>2. frame' = Verifying("result", e) /\ e.introduces = None
    BY <2>1 DEF Event, LifecycleEvent
  <2> HIDE DEF e
  <2>3. QED
    BY <2>2 DEF Verifying, SessionInv, Shape
<1>3. CASE EnforcementPass \/ RuntimeEscalation
  <2>1. /\ frame.at \in {"verify", "escalate"}
        /\ frame'.op = frame.op /\ frame'.original = frame.original
    BY <1>3 DEF EnforcementPass, RuntimeEscalation, SessionInv, Shape, At
  <2>2. QED
    BY <2>1 DEF Identified, InFlight
<1>4. CASE UNCHANGED vars
  BY <1>4 DEF vars, Identified, InFlight
<1>5. CASE Deny(frame.request) \/ \E t \in DOMAIN requests : Deny(t)
  BY <1>5 DEF Deny, InFlight, At
<1>6. ASSUME NEW at \in {"idle", "hydrate", "check", "raised", "over"}, NEW request, NEW approved,
             NEW grants, frame' = Frame(at, request, approved, grants)
      PROVE  FALSE
  BY <1>6 DEF Frame, InFlight
<1>7. ASSUME NEW op, op # "result", NEW e, frame'.op = op
      PROVE  FALSE
  BY <1>7
<1>8. CASE \/ ProposeRead \/ ProposeSend \/ ProposeUnspecified
           \/ \E t \in DOMAIN requests : Approve(t)
  BY <1>6, <1>8 DEF ProposeRead, ProposeSend, ProposeUnspecified, Propose, Approve
<1>9. CASE \/ UnregisteredTool \/ AgentCatches \/ ReportDecided \/ GenerationRefused
           \/ ReleaseResponse \/ ResultDecided \/ AuditFails \/ Restart
  <2>1. frame' \in {Idle, Over, Raised}
    BY <1>9 DEF UnregisteredTool, AgentCatches, ReportDecided, GenerationRefused,
                ReleaseResponse, ResultDecided, AuditFails, Restart, RefuseResponse
  <2>2. QED
    BY <1>6, <2>1, EndingIs
<1>10. CASE \/ HydrateReferencedObjects \/ RecordApproval \/ Precheck \/ GenerateResponse
            \/ AgentErrors \/ OfferResponse \/ ToolFails \/ Invoke
  <2>1. \/ \E op \in {"hydrate", "call", "generation", "escape", "release", "error"} : \E e :
                \/ frame' = Verifying(op, e)
                \/ frame' = [Verifying(op, e) EXCEPT !.at = "escalate"]
        \/ \E e, grants : frame' = [Verifying("grant", e) EXCEPT !.grants = grants]
        \/ Invoke
    BY <1>10 DEF HydrateReferencedObjects, RecordApproval, Precheck, GenerateResponse,
                 AgentErrors, OfferResponse, ToolFails
  <2>2. QED
    BY <2>1 DEF Verifying, SessionInv, Shape, Invoke, Frame
<1>11. CASE Hydrated \/ PreparationDecided \/ CallDecided \/ ReleaseDecided
  <2>1. \/ frame' \in {Idle, Over}
        \/ \E at \in {"hydrate", "grant", "check"} : frame' = [frame EXCEPT !.at = at]
        \/ frame.op \in {"call", "release"} /\ frame' = [frame EXCEPT !.at = "execute"]
    BY <1>11 DEF Hydrated, PreparationDecided, CallDecided, ReleaseDecided, RefuseResponse,
                 Decided
  <2>2. CASE frame' \in {Idle, Over}
    BY <1>6, <2>2, EndingIs
  <2>3. CASE \E at \in {"hydrate", "grant", "check"} : frame' = [frame EXCEPT !.at = at]
    BY <2>3 DEF SessionInv, Shape, InFlight
  <2>4. CASE frame.op \in {"call", "release"} /\ frame' = [frame EXCEPT !.at = "execute"]
    BY <2>4 DEF SessionInv, Shape
  <2>5. QED
    BY <2>1, <2>2, <2>3, <2>4
<1>12. QED
  BY <1>1, <1>2, <1>3, <1>4, <1>5, <1>8, <1>9, <1>10, <1>11 DEF Next
-----------------------------------------------------------------------------
(* Every step keeps what is admitted within the rules: responses and passes *)

\* A response that is taken in has one object, which it brings or derives.
LEMMA GenerateResponseAdmits ==
    ASSUME SessionInv, Identified, GenerateResponse
    PROVE  Admission'
<1> DEFINE id == <<"response", session.minted["response"] + 1>>
           sources == {Request.lead} \cap DOMAIN state.objects
           base == [Event("TOOL_RESULT") EXCEPT !.body = Request.body, !.objects = {id}]
           derived == [source |-> Request.lead, target |-> id, preserves |-> TRUE]
           e == IF sources = {} THEN [base EXCEPT !.introduces = id]
                ELSE [base EXCEPT !.derives = derived]
<1>1. /\ At("check")
      /\ Request.tool = "response.release"
      /\ frame' = Verifying("generation", e)
      /\ requests' = requests
  BY DEF GenerateResponse
<1>2. Request.body \in Body \ {"none"}
  <2>1. Serves
    BY <1>1 DEF Serves, At
  <2>2. QED
    BY <1>1, <2>1 DEF SessionInv, RequestsOK, RequestRecord, Request
<1>3. /\ EventRecord(base) /\ base.introduces = None /\ base.derives = None
      /\ base.payload = None /\ base.body = Request.body /\ base.objects = {id}
      /\ base.id = <<NextSequence, 0>> /\ base.sequence = NextSequence
  BY EventIs DEF EventRecord, EventTypes
<1>4. /\ id \in {"response"} \X Nat /\ id # None
      /\ derived.target = id /\ derived # None
  <2>1. id \in {"response"} \X Nat /\ id \in Minted
    BY DEF Identified, Minted
  <2>2. Request.lead \in Minted \cup {None}
    <3>1. Serves
      BY <1>1 DEF Serves, At
    <3>2. QED
      BY <3>1, ReadIdIs DEF Identified, SessionInv, RequestsOK, Request
  <2> HIDE DEF id
  <2>3. derived \in Derivation
    BY <2>1, <2>2 DEF Derivation
  <2>4. QED
    BY <2>1, <2>3, NoneAssumption
<1>5. /\ EventRecord(e)
      /\ e.id = <<NextSequence, 0>> /\ e.sequence = NextSequence
      /\ e.body = Request.body /\ e.payload = None /\ e.objects = {id}
      /\ \/ e.introduces = id /\ e.derives = None
         \/ e.introduces = None /\ e.derives # None /\ e.derives.target = id
  <2> HIDE DEF base, id, sources, derived
  <2>1. QED
    BY <1>3, <1>4 DEF EventRecord
<1> HIDE DEF e, id
<1>6. Begins("generation", e) /\ frame'.at = "verify"
  BY <1>1, <1>5, VerifyingBegins, VerifyingAt
<1>7. Request' = Request
  BY <1>1, <1>6 DEF Request, Begins
<1>8. Generated'
  BY <1>2, <1>4, <1>5, <1>6, <1>7 DEF Generated, Begins, At
<1>9. Composed'
  BY <1>6 DEF Composed, Begins, At
<1>10. QED
  BY <1>6, <1>8, <1>9, BeginningAdmits

\* What redaction leaves of a body is not changed by another, and a body that is not personal
\* is left as it is.
LEMMA RedactionIs ==
    ASSUME NEW body \in Body \ {"none"}
    PROVE  /\ redact_payload(body) \in Body \ {"none"}
           /\ redact_payload(redact_payload(body)) = redact_payload(body)
           /\ ~PersonalBody(body) => redact_payload(body) = body
<1>1. /\ redact_payload(body) \in Body \ {"none"}
      /\ redact_payload(redact_payload(body)) = redact_payload(body)
  BY DEF redact_payload, Body
<1>2. body \in {"rows", "contact"} => PersonalBody(body)
  <2>1. body \in {"rows", "contact"} => "email" \in PatternCategories(body)
    BY DEF PatternCategories
  <2>2. Personal \in ObjectVariables
    BY DEF ObjectVariables
  <2>3. QED
    BY <2>1, <2>2 DEF PersonalBody, Classification, Truth
<1>3. QED
  BY <1>1, <1>2 DEF redact_payload

\* What is offered for release is redacted by what the response, as it was taken in, says.
LEMMA OfferResponseAdmits ==
    ASSUME SessionInv, Admission, OfferResponse
    PROVE  Admission'
<1>1. /\ Decided("generation") /\ At("decided") /\ Allowed(frame.outcome)
      /\ frame.op = "generation"
  BY DEF OfferResponse, Decided
<1>2. PICK source \in frame.original.objects :
        LET personal == state.objects[source][Personal] = "true"
            target == <<source, IF personal THEN "redact" ELSE "copy", frame.original.id>>
        IN  frame' = Verifying("release",
                [Event("RESPONSE_GENERATED") EXCEPT
                    !.body = Released(Request.body, personal), !.objects = {target},
                    !.facts = [trust_boundary |-> "user", recipient_type |-> "requesting_user"],
                    !.derives = [source |-> source, target |-> target,
                                 preserves |-> ~personal]])
  BY DEF OfferResponse
<1> DEFINE personal == state.objects[source][Personal] = "true"
           target == <<source, IF personal THEN "redact" ELSE "copy", frame.original.id>>
           facts == [trust_boundary |-> "user", recipient_type |-> "requesting_user"]
           derived == [source |-> source, target |-> target, preserves |-> ~personal]
           body == Released(Request.body, personal)
           e == [Event("RESPONSE_GENERATED") EXCEPT
                    !.body = body, !.objects = {target}, !.facts = facts, !.derives = derived]
<1>3. /\ Request.body \in Body \ {"none"}
      /\ state.objects[source] = Classification(Request.body)
  BY <1>1 DEF Admission, Generated, InFlight, At
<1>4. body \in Body \ {"none"} /\ redact_payload(body) = body
  <2>1. personal <=> PersonalBody(Request.body)
    BY <1>3 DEF PersonalBody
  <2>2. QED
    BY <1>3, <2>1, RedactionIs DEF Released
<1>5. /\ DOMAIN facts = {"trust_boundary", "recipient_type"}
      /\ derived # None /\ derived.target = target
  <2>1. source \in Minted
    BY <1>1 DEF Admission, Generated, InFlight, At, Minted
  <2>2. frame.original.id \in Int \X Nat
    BY <1>1 DEF SessionInv, Shape, HasEvent, InFlight, At, EventRecord
  <2>3. target \in Minted \X {"redact", "copy"} \X (Int \X Nat)
    BY <2>1, <2>2
  <2> HIDE DEF target
  <2>4. derived \in Derivation
    BY <2>1, <2>3 DEF Derivation
  <2>5. QED
    BY <2>4, NoneAssumption
<1>6. frame' = Verifying("release", e)
  BY <1>2
<1> HIDE DEF body, facts, derived, target, personal
<1>7. /\ EventRecord(e)
      /\ e.id = <<NextSequence, 0>> /\ e.sequence = NextSequence
      /\ e.type = "RESPONSE_GENERATED" /\ e.body = body /\ e.objects = {target}
      /\ e.facts = facts /\ e.derives = derived /\ e.introduces = None /\ e.payload = None
  BY EventIs DEF EventTypes, EventRecord
<1> HIDE DEF e
<1>8. Begins("release", e)
  BY <1>6, <1>7, VerifyingBegins
<1>9. Composed'
  BY <1>5, <1>7, <1>8 DEF Composed, Begins, At
<1>10. Generated'
  BY <1>8 DEF Generated, Begins
<1>11. QED
  BY <1>4, <1>5, <1>7, <1>8, <1>9, <1>10, BeginningAdmits
\* A bundled regulation has a rule that no response with personal data meets.
LEMMA BundledRuleIs ==
    ASSUME SoundPackages, BundledPackages, Deployed, Regulated("GDPR") \/ Regulated("PIPL")
    PROVE  \E rule \in LoadedRules :
                /\ "RESPONSE_GENERATED" \in rule.stages
                /\ rule.applicability = {Is(Personal, "true")}
                /\ rule.requirements = {Is(Fact("has_lawful_basis"), "true")}
                /\ rule.intervention = "REQUIRE_APPROVAL"
<1>1. ASSUME NEW p \in {GDPR, PIPL}, Regulated(p.id)
      PROVE  p \in Packages
  <2>1. GDPR.id = "GDPR" /\ PIPL.id = "PIPL"
    BY DEF GDPR, PIPL
  <2>2. PICK i \in DOMAIN selection : selection[i] = p.id
    BY <1>1 DEF Regulated
  <2>3. PICK q \in Packages : q.id = selection[i]
    BY <2>2 DEF SoundPackages, Deployed
  <2>4. QED
    BY <2>1, <2>2, <2>3 DEF BundledPackages
<1>2. ASSUME NEW p \in {GDPR, PIPL}, Regulated(p.id)
      PROVE  p.rules[1] \in LoadedRules
  BY <1>1, <1>2, BasisRuleIs DEF LoadedRules
<1>3. GDPR.id = "GDPR" /\ PIPL.id = "PIPL"
  BY DEF GDPR, PIPL
<1>4. \E p \in {GDPR, PIPL} : Regulated(p.id)
  BY <1>3
<1>5. QED
  BY <1>2, <1>4, BasisRuleIs DEF Disclosing

\* A response that is personal after all is stopped by its first pass under both regulations.
LEMMA PersonalIsStopped ==
    ASSUME SoundPackages, BundledPackages, Deployed, SessionInv, Admission, At("verify"),
           frame.op = "release", Regulated("GDPR") \/ Regulated("PIPL"),
           PersonalBody(frame.original.body)
    PROVE  Enforced(Policy, frame.event, state).decision
                \notin {"ALLOW", "AUDIT_ONLY", "REPAIR"}
<1> DEFINE e == frame.event
           v == Enforced(Policy, e, state)
           o == e.derives.target
<1>1. StateRecord(state) /\ EventRecord(e)
  BY IsVerifying
<1>2. /\ e = frame.original /\ e.type = "RESPONSE_GENERATED"
      /\ e.body # "none" /\ PersonalBody(e.body) /\ e.payload = None
      /\ e.introduces = None /\ e.derives # None /\ e.objects = {o}
      /\ "has_lawful_basis" \notin DOMAIN e.facts
  BY DEF Admission, Composed, Offered, SessionInv, Origins, InFlight, At
<1>3. CASE ApplyRaises(e, state)
  BY <1>1, <1>3, EnforcedIs
<1>4. CASE ~ApplyRaises(e, state)
  <2>1. v.state.objects = Applied(e, state).objects
    BY <1>1, <1>4, EnforcedIs
  <2>2. o \in DOMAIN v.state.objects /\ v.state.objects[o] = Classification(e.body)
    BY <1>1, <1>2, <2>1, DerivedIs DEF Introduces, Derives
  <2>3. v.state.objects[o][Personal] = "true"
    BY <1>2, <2>2 DEF PersonalBody
  <2>4. PICK rule \in LoadedRules :
            /\ "RESPONSE_GENERATED" \in rule.stages
            /\ rule.applicability = {Is(Personal, "true")}
            /\ rule.requirements = {Is(Fact("has_lawful_basis"), "true")}
            /\ rule.intervention = "REQUIRE_APPROVAL"
    BY BundledRuleIs
  <2>5. Breaks(e, rule, v.state)
    <3> HIDE DEF v, o, e
    <3>1. QED
      BY <1>2, <2>2, <2>3, <2>4, PersonalBreaks
  <2>6. QED
    BY <2>4, <2>5, PassIsStrict DEF Admission
<1>5. QED
  BY <1>3, <1>4

\* A pass that goes on with a response that was taken in knows it by what it says.
LEMMA GenerationIsKnown ==
    ASSUME SessionInv, Generated, At("verify"), frame.op = "generation",
           NEW id \in frame.original.objects,
           frame.repairs > 0 \/ Enforced(Policy, frame.event, state).decision # "BLOCK"
    PROVE  LET objects == Enforced(Policy, frame.event, state).state.objects
           IN  id \in DOMAIN objects /\ objects[id] = Classification(Request.body)
<1> DEFINE e == frame.event
           v == Enforced(Policy, e, state)
<1>1. StateRecord(state) /\ EventRecord(e) /\ frame.repairs \in Nat
  BY IsVerifying
<1>2. /\ frame.original.body = Request.body /\ Request.body # "none"
      /\ frame.original.payload = None /\ id \in Minted
      /\ \/ frame.original.introduces = id
         \/ /\ frame.original.introduces = None /\ frame.original.derives # None
            /\ frame.original.derives.target = id
      /\ frame.repairs > 0 => /\ id \in DOMAIN state.objects
                              /\ state.objects[id] = Classification(Request.body)
  BY DEF Generated, InFlight, At, Minted
<1>3. CASE frame.repairs > 0
  BY <1>1, <1>2, <1>3, EnforcedIs DEF Preserved
<1>4. CASE ~(frame.repairs > 0) /\ frame.original.introduces = id
  <2>1. id # None
    BY <1>2, NoneAssumption
  <2>2. QED
    BY <1>2, <1>4, <2>1, PassBrings
<1>5. CASE ~(frame.repairs > 0) /\ frame.original.introduces = None
           /\ frame.original.derives # None /\ frame.original.derives.target = id
  <2>1. e = frame.original
    BY <1>1, <1>5 DEF SessionInv, Origins, InFlight, At
  <2>2. ~ApplyRaises(e, state)
    BY <1>1, <1>5, EnforcedIs
  <2>3. v.state.objects = Applied(e, state).objects
    BY <1>1, <2>2, EnforcedIs
  <2>4. QED
    BY <1>1, <1>2, <1>5, <2>1, <2>3, DerivedIs DEF Introduces, Derives
<1>6. QED
  BY <1>2, <1>3, <1>4, <1>5
LEMMA PassAdmits ==
    ASSUME SoundPackages, BundledPackages, Deployed, SessionInv, Admission, EnforcementPass
    PROVE  Admission'
<1> DEFINE v == Enforced(Policy, frame.event, state)
<1>1. /\ At("verify")
      /\ state' = v.state
      /\ UNCHANGED <<host, mode, selection, requests, held, session, counts>>
  BY DEF EnforcementPass, deployment
<1>2. EventRecord(frame.event) /\ frame.repairs \in Nat
  BY <1>1, IsVerifying
<1>3. /\ LoadedRules' = LoadedRules
      /\ \A id : Regulated(id)' <=> Regulated(id)
  BY <1>1, RulesStay DEF deployment
<1>4. CASE \E e \in Continues(frame.event, v, frame.repairs) :
                frame' = [frame EXCEPT !.event = e, !.repairs = @ + 1]
  <2>1. PICK e \in Continues(frame.event, v, frame.repairs) :
                frame' = [frame EXCEPT !.event = e, !.repairs = @ + 1]
    BY <1>4
  <2>2. v.decision = "REPAIR" /\ e \in Intervene(frame.event, v.intervention)
    BY <2>1 DEF Continues
  <2>3. e.type = frame.event.type /\ DOMAIN frame.event.facts \subseteq DOMAIN e.facts
    BY <1>2, <2>2, IntervenesIs, IntervenesFacts
  <2>4. /\ frame'.at = "verify" /\ frame'.op = frame.op /\ frame'.event = e
        /\ frame'.original = frame.original /\ frame'.repairs = frame.repairs + 1
        /\ frame'.request = frame.request
    BY <1>1, <2>1 DEF SessionInv, Shape, At
  <2>5. Composed'
    BY <2>3, <2>4 DEF Admission, Composed, At
  <2>6. ~Admits'
    BY <2>4 DEF Admits
  <2>7. Generated'
    <3>1. SUFFICES ASSUME frame.op = "generation"
                   PROVE  Generated'
      BY <2>4 DEF Generated
    <3>2. \A id \in frame.original.objects :
            id \in DOMAIN state'.objects /\ state'.objects[id] = Classification(Request.body)
      BY <1>1, <2>2, <3>1, GenerationIsKnown DEF Admission
    <3>3. Request' = Request
      BY <1>1, <2>4 DEF Request
    <3>4. Generated
      BY DEF Admission
    <3>5. QED
      BY <1>1, <2>4, <3>1, <3>2, <3>3, <3>4 DEF Generated, InFlight, At
  <2>8. Offered'
    <3>1. frame.op = "release" /\ (Regulated("GDPR") \/ Regulated("PIPL"))
            => ~PersonalBody(frame.original.body)
      BY <1>1, <2>2, PersonalIsStopped
    <3>2. QED
      BY <1>3, <2>4, <3>1 DEF Admission, Offered
  <2>9. QED
    BY <2>5, <2>6, <2>7, <2>8 DEF Admission, Complies
<1>5. CASE frame' = [frame EXCEPT !.at = "decided", !.outcome = Outcome(v)]
  <2>1. /\ frame'.at = "decided" /\ frame'.op = frame.op /\ frame'.event = frame.event
        /\ frame'.original = frame.original /\ frame'.repairs = frame.repairs
        /\ frame'.request = frame.request /\ frame'.outcome = Outcome(v)
    BY <1>5 DEF SessionInv, Shape
  <2>2. Composed'
    BY <2>1 DEF Admission, Composed, At
  <2>3. Allowed(Outcome(v)) => v.decision \in {"ALLOW", "AUDIT_ONLY"}
    BY DEF Allowed, Outcome
  <2>4. Complies'
    <3>1. SUFFICES ASSUME Admits', NEW rule \in LoadedRules, Violates(frame.event, rule)'
                   PROVE  rule.intervention = "AUDIT_ONLY"
      BY <1>3, <2>1 DEF Complies
    <3>2. Breaks(frame.event, rule, v.state)
      BY <1>1, <2>1, <3>1 DEF Violates, Breaks
    <3>3. frame.op \in {"call", "release"} /\ v.decision \in {"ALLOW", "AUDIT_ONLY"}
      BY <2>1, <2>3, <3>1 DEF Admits
    <3> HIDE DEF v
    <3>4. QED
      BY <1>1, <3>2, <3>3, PassIsStrict DEF Admission, v
  <2>5. Generated'
    <3>1. SUFFICES ASSUME frame.op = "generation"
                   PROVE  Generated'
      BY <2>1 DEF Generated
    <3>2. frame.repairs > 0 \/ Allowed(Outcome(v)) =>
            \A id \in frame.original.objects :
                id \in DOMAIN state'.objects /\ state'.objects[id] = Classification(Request.body)
      BY <1>1, <2>3, <3>1, GenerationIsKnown DEF Admission
    <3>3. Request' = Request
      BY <1>1, <2>1 DEF Request
    <3>4. Generated
      BY DEF Admission
    <3>5. QED
      BY <1>1, <2>1, <3>1, <3>2, <3>3, <3>4 DEF Generated, InFlight, At
  <2>6. Offered'
    <3>1. frame.op = "release" /\ (Regulated("GDPR") \/ Regulated("PIPL"))
            /\ PersonalBody(frame.original.body) => ~Allowed(Outcome(v))
      BY <1>1, <2>3, PersonalIsStopped
    <3>2. QED
      BY <1>3, <2>1, <3>1 DEF Admission, Offered, Admits
  <2>7. QED
    BY <2>2, <2>4, <2>5, <2>6 DEF Admission
<1>6. QED
  BY <1>4, <1>5 DEF EnforcementPass

\* Only a call is escalated, and then it is not admitted.
LEMMA EscalationAdmits ==
    ASSUME Admission, SessionInv, RuntimeEscalation
    PROVE  Admission'
<1>1. /\ At("escalate")
      /\ frame' = [frame EXCEPT !.at = "decided", !.outcome = "REQUIRE_APPROVAL"]
      /\ UNCHANGED <<host, mode, selection, requests, held, session, counts>>
      /\ state' = Applied(frame.event, state)
  BY DEF RuntimeEscalation, deployment
<1>2. /\ frame'.at = "decided" /\ frame'.op = frame.op /\ frame'.event = frame.event
      /\ frame'.original = frame.original /\ frame'.repairs = frame.repairs
      /\ frame'.request = frame.request /\ ~Allowed(frame'.outcome)
  BY <1>1 DEF SessionInv, Shape, Allowed
<1>3. ~Admits'
  BY <1>2 DEF Admits
<1>4. Composed'
  BY <1>2 DEF Admission, Composed, At
<1>5. Generated'
  <2>1. frame.repairs = 0
    BY <1>1, EscalationApplies
  <2>2. Request' = Request
    BY <1>1, <1>2 DEF Request
  <2>3. QED
    BY <1>1, <1>2, <2>1, <2>2 DEF Admission, Generated, InFlight, At
<1>6. Offered'
  BY <1>1, <1>2, <1>3, RulesStay DEF Admission, Offered, deployment
<1>7. QED
  BY <1>3, <1>4, <1>5, <1>6 DEF Admission, Complies

LEMMA OtherwiseAdmits ==
    ASSUME SessionInv,
           \/ ProposeRead \/ ProposeSend \/ ProposeUnspecified
           \/ \E t \in DOMAIN requests : Approve(t)
           \/ HydrateReferencedObjects \/ RecordApproval
           \/ UnregisteredTool \/ AuditFails \/ AgentErrors \/ AgentCatches \/ ReportDecided
           \/ ResultDecided \/ GenerationRefused
           \/ ReleaseResponse \/ ExecuteRead \/ ExecuteEffect \/ ToolFails \/ Invoke \/ Restart
    PROVE  Admission'
<1>1. ASSUME NEW at \in {"idle", "hydrate", "check", "raised", "over"}, NEW request,
             NEW approved, NEW grants, frame' = Frame(at, request, approved, grants)
      PROVE  Admission'
  BY <1>1, ElsewhereAdmits DEF Frame
<1>2. CASE \/ ProposeRead \/ ProposeSend \/ ProposeUnspecified
           \/ \E t \in DOMAIN requests : Approve(t)
  BY <1>1, <1>2 DEF ProposeRead, ProposeSend, ProposeUnspecified, Propose, Approve
<1>3. CASE \/ UnregisteredTool \/ AgentCatches \/ ReportDecided \/ GenerationRefused
           \/ ReleaseResponse \/ ResultDecided \/ AuditFails \/ Restart
  <2>1. frame' \in {Idle, Over, Raised}
    BY <1>3 DEF UnregisteredTool, AgentCatches, ReportDecided, GenerationRefused,
                ReleaseResponse, ResultDecided, AuditFails, Restart, RefuseResponse
  <2>2. QED
    BY <1>1, <2>1, EndingIs
<1>4. CASE \/ HydrateReferencedObjects \/ RecordApproval \/ AgentErrors
           \/ ExecuteRead \/ ExecuteEffect \/ ToolFails \/ Invoke
  <2>1. \/ \E op \in {"hydrate", "escape", "result", "error"} : \E e : frame' = Verifying(op, e)
        \/ \E e, grants : frame' = [Verifying("grant", e) EXCEPT !.grants = grants]
        \/ Invoke
    BY <1>4 DEF HydrateReferencedObjects, RecordApproval, AgentErrors, ExecuteRead,
                ExecuteEffect, ToolFails
  <2>2. frame'.op \notin {"call", "release", "generation"} /\ frame'.at = "verify"
    BY <2>1 DEF Verifying, SessionInv, Shape, Invoke, Frame
  <2>3. QED
    BY <2>2, ElsewhereAdmits
<1>5. QED
  BY <1>2, <1>3, <1>4

LEMMA StandingAdmits ==
    ASSUME Admission, SessionInv, UNCHANGED <<deployment, state, frame>>,
           requests' = requests \/ At("idle")
    PROVE  Admission'
<1>1. Composed' /\ (Admits' <=> Admits)
  BY DEF Admission, Composed, Admits, At
<1>2. Complies'
  BY <1>1, RulesStay DEF Admission, Complies, Violates
<1>3. Generated'
  BY DEF Admission, Generated, InFlight, At, Request
<1>4. Offered'
  BY <1>1, RulesStay DEF Admission, Offered
<1>5. QED
  BY <1>1, <1>2, <1>3, <1>4 DEF Admission

LEMMA StepAdmits ==
    ASSUME SoundPackages, BundledPackages, Deployed, SessionInv, Identified, Admission,
           [Next]_vars
    PROVE  Admission'
<1>1. CASE \/ Hydrated \/ PreparationDecided
  <2>1. PICK at \in {"hydrate", "grant", "check"} : frame' = [frame EXCEPT !.at = at]
    BY <1>1 DEF Hydrated, PreparationDecided
  <2>2. UNCHANGED deployment /\ state' = state
    BY <1>1 DEF Hydrated, PreparationDecided, Quiet
  <2>3. QED
    BY <2>1, <2>2, MovingAdmits
<1>2. CASE CallDecided \/ ReleaseDecided
  <2>1. UNCHANGED deployment /\ state' = state
    BY <1>2 DEF CallDecided, ReleaseDecided, Quiet
  <2>2. /\ At("decided") /\ frame.op \in {"call", "release"}
        /\ frame' = [frame EXCEPT !.at = "execute"] \/ frame' \in {Idle, Over}
    BY <1>2 DEF CallDecided, ReleaseDecided, RefuseResponse, Decided
  <2>3. CASE frame' = [frame EXCEPT !.at = "execute"]
    BY <2>1, <2>2, <2>3, MovingAdmits
  <2>4. CASE frame' \in {Idle, Over}
    <3>1. frame'.op = "none" /\ frame'.at # "execute"
      BY <2>4, EndingIs DEF Frame
    <3>2. QED
      BY <3>1, ElsewhereAdmits
  <2>5. QED
    BY <2>2, <2>3, <2>4
<1>3. CASE UNCHANGED vars
  BY <1>3, StandingAdmits DEF vars, deployment
<1>4. CASE \E t \in DOMAIN requests : Deny(t)
  BY <1>4, StandingAdmits DEF Deny
<1>5. CASE Precheck \/ GenerateResponse \/ OfferResponse \/ EnforcementPass \/ RuntimeEscalation
  BY <1>5, PrecheckAdmits, GenerateResponseAdmits, OfferResponseAdmits, PassAdmits,
     EscalationAdmits
<1>6. QED
  BY <1>1, <1>2, <1>3, <1>4, <1>5, OtherwiseAdmits DEF Next

LEMMA StepIdentifies ==
    ASSUME SessionInv, Identified, [Next]_vars
    PROVE  Identified'
  BY MintedStays, HeldStays, LeadStays, BroughtByResult DEF Identified

LEMMA IdentifiedAlways ==
    Spec => []Identified
<1>1. Init => Identified
  <2> SUFFICES ASSUME Init
               PROVE  Identified
    OBVIOUS
  <2>1. frame.op = "none"
    BY DEF Init, Idle, Frame
  <2>2. session.minted \in [{"rows", "page", "response"} -> Nat]
    BY ReadsAssumption DEF Init, FreshSession
  <2>3. DOMAIN held = {} /\ DOMAIN requests = {}
    BY DEF Init
  <2>4. QED
    BY <2>1, <2>2, <2>3 DEF Identified
<1>2. Identified /\ SessionInv /\ [Next]_vars => Identified'
  BY StepIdentifies
<1>3. QED
  BY <1>1, <1>2, SessionInvariant, PTL DEF Spec

LEMMA AdmissionInvariant ==
    ASSUME SoundPackages, BundledPackages
    PROVE  Spec => [](SessionInv /\ Admission)
<1>1. Init => Admission
  <2> SUFFICES ASSUME Init
               PROVE  Admission
    OBVIOUS
  <2>1. frame.op = "none" /\ frame.at \in {"idle", "over"}
    BY DEF Init, Idle, Frame
  <2>2. QED
    BY <2>1 DEF Admission, Composed, Complies, Admits, Generated, Offered, At
<1>2. Admission /\ Identified /\ Deployed /\ SessionInv /\ [Next]_vars => Admission'
  BY StepAdmits
<1>3. QED
  BY <1>1, <1>2, SessionInvariant, IdentifiedAlways, DeployedAlways, PTL DEF Spec

\* No effect gets past a rule of a loaded package: what one that takes place still violates
\* is for the record only, however rules were merged, looked up or repaired for.
THEOREM AdmittedForTheRecord ==
    ASSUME SoundPackages, BundledPackages
    PROVE  Spec => [](Enforcing => \A rule \in LoadedRules :
                        Violates(frame.event, rule) => rule.intervention = "AUDIT_ONLY")
<1>1. SessionInv /\ Admission => (Enforcing => \A rule \in LoadedRules :
            Violates(frame.event, rule) => rule.intervention = "AUDIT_ONLY")
  BY DEF SessionInv, Decisions, Admission, Composed, Complies, Admits, Enforcing, At
<1>2. QED
  BY <1>1, AdmissionInvariant, PTL

\* Where no rule is for the record only, what executes violates none.
THEOREM AdmittedViolatesNone ==
    ASSUME SoundPackages, BundledPackages,
           \A p \in Packages : \A i \in DOMAIN p.rules : p.rules[i].intervention # "AUDIT_ONLY"
    PROVE  Spec => []AdmittedComplies
<1>1. (Enforcing => \A rule \in LoadedRules :
            Violates(frame.event, rule) => rule.intervention = "AUDIT_ONLY") => AdmittedComplies
  BY DEF LoadedRules, AdmittedComplies
<1>2. QED
  BY <1>1, AdmittedForTheRecord, PTL

\* The text that is released is the one that was redacted and verified: redaction leaves it
\* alone, and under a bundled regulation it has no personal data at all.
THEOREM ReleasedClean ==
    ASSUME SoundPackages, BundledPackages
    PROVE  Spec => []ReleasedIsClean
<1>1. SessionInv /\ Admission => ReleasedIsClean
  BY DEF SessionInv, Decisions, Admission, Offered, Admits, Enforcing, At, ReleasedIsClean,
         Disclosed
<1>2. QED
  BY <1>1, AdmissionInvariant, PTL
=============================================================================
