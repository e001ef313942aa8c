-------------------------- MODULE CapabilityBroker --------------------------
(***************************************************************************)
(* capabilities/broker.py and effects/gateway.py over the store: what a    *)
(* request, a human decision or a resume does, one committed write at a    *)
(* time, with processes that are terminated at any point, calls that raise *)
(* at any point, several threads in one broker process and several broker  *)
(* processes on one database.                                              *)
(*                                                                         *)
(* A worker is a thread running one public call.  Between two committed    *)
(* writes a call only computes on its own copy of the row, so a step of a  *)
(* worker is the computation up to and including its next write.  An audit *)
(* row written after a save belongs to the save's step; its failure is the *)
(* Raise of the label that follows.                                        *)
(*                                                                         *)
(* The policy engine is abstracted to its verdict, any member of Verdict.  *)
(*                                                                         *)
(* A definition that stands before another one and changes it (NoWait      *)
(* before Acquire, AnyDecision before AwaitsDecision) is a faulty variant, *)
(* there to see that a property notices it; no action uses it.             *)
(***************************************************************************)
EXTENDS RuntimeStore

CONSTANTS
    Process,         \* broker processes that may be started on the database
    Worker,          \* request threads
    ProcessOf,       \* the process a worker runs in
    CapabilityOf,    \* the kind of capability each effect id is a request for
    Offered,         \* the calls each process takes
    Observed,        \* whether store objects are opened only to look at the tables
    Verdict,         \* the outcomes of policy verification
    MaxDecisions,    \* bound on approve and deny calls
    MaxTerminations, \* bound on terminated processes
    MaxErrors        \* bound on raised exceptions

\* "tool" has a side effect and is a registered tool, "read" has no side effect,
\* "response" is response.release: a side effect that is not a registered tool.
Capability == {"tool", "read", "response"}
Call == {"handle", "approve", "deny", "resume", "quiet_resume"}

ASSUME ConstantsOK ==
    /\ ProcessOf \in [Worker -> Process]
    /\ CapabilityOf \in [EffectId -> Capability]
    /\ Offered \in [Process -> SUBSET Call]
    /\ Observed \in BOOLEAN
    /\ Verdict \subseteq {"ALLOW", "BLOCK", "REPAIR", "REQUIRE_APPROVAL"}
    /\ MaxDecisions \in Nat
    /\ MaxTerminations \in Nat
    /\ MaxErrors \in Nat
    /\ None \notin Worker

VARIABLES
    up,              \* Process -> the process is running
    lock,            \* Process -> the worker holding CapabilityBroker._lock, or None
    pc,              \* Worker -> what the worker's next step does
    current,         \* Worker -> the transaction the call is about, or None
    row,             \* Worker -> the call's copy of that transaction, or None
    decisions,       \* how many approve and deny calls were made so far
    terminations,    \* how many processes were terminated so far
    errors,          \* how many exceptions were raised so far
    ran,             \* history: how often a backend ran for each transaction
    reentered        \* history: transactions sent back to CHECKING by approve or resume

call    == <<lock, pc, current, row>>
history == <<ran, reentered>>
bounds  == <<decisions, terminations, errors>>
vars    == <<store, up, call, bounds, history>>

Label == {"idle", "checking", "handle_tool", "handle_response", "repair_child",
          "execute", "gateway", "backend", "persist", "settle", "report",
          "fail", "recheck", "denied"}

TypeOK ==
    /\ StoreTypeOK
    /\ up \in [Process -> BOOLEAN]
    /\ lock \in [Process -> Worker \cup {None}]
    /\ pc \in [Worker -> Label]
    /\ current \in [Worker -> TransactionId \cup {None}]
    /\ row \in [Worker -> EffectTransaction \cup {None}]
    /\ decisions \in 0 .. MaxDecisions
    /\ terminations \in 0 .. MaxTerminations
    /\ errors \in 0 .. MaxErrors
    /\ ran \in [TransactionId -> Nat]
    /\ reentered \subseteq TransactionId

Init ==
    /\ StoreInit
    /\ up = [p \in Process |-> FALSE]
    /\ lock = [p \in Process |-> None]
    /\ pc = [w \in Worker |-> "idle"]
    /\ current = [w \in Worker |-> None]
    /\ row = [w \in Worker |-> None]
    /\ decisions = 0
    /\ terminations = 0
    /\ errors = 0
    /\ ran = [t \in TransactionId |-> 0]
    /\ reentered = {}

-----------------------------------------------------------------------------
(* Where a worker is.                                                      *)

SideEffect(e) == CapabilityOf[e] # "read"

\* Running without the lock: only resume_authorized does.
Resuming(w) == pc[w] # "idle" /\ lock[ProcessOf[w]] # w

\* A call may begin: a free thread of a running process.  A deployment of "quiet_resume"
\* resumes only while no other call is under way, as after a restart, and starts none
\* until the resume has returned.
Free(w) ==
    /\ pc[w] = "idle"
    /\ up[ProcessOf[w]]
    /\ "quiet_resume" \in Offered[ProcessOf[w]] => \A v \in Worker : ~Resuming(v)

\* Entering `with self._lock'.
NoWait(w) == lock' = [lock EXCEPT ![ProcessOf[w]] = w]
Acquire(w) ==
    /\ lock[ProcessOf[w]] = None
    /\ lock' = [lock EXCEPT ![ProcessOf[w]] = w]

Continue(w, label, t, copy) ==
    /\ pc' = [pc EXCEPT ![w] = label]
    /\ current' = [current EXCEPT ![w] = t]
    /\ row' = [row EXCEPT ![w] = copy]

\* The call returns, or an exception leaves it: the `with' block ends.
Return(w) ==
    /\ Continue(w, "idle", None, None)
    /\ lock' = [lock EXCEPT ![ProcessOf[w]] = IF @ = w THEN None ELSE @]

\* The worker's copy with some fields replaced: EffectTransaction.update.
Update(w, status, decision) ==
    [row[w] EXCEPT !.status = status, !.decision = decision]

\* Save a changed copy and go on with it.
SaveThen(w, copy, label) ==
    /\ save_transaction(current[w], copy)
    /\ Continue(w, label, current[w], copy)
    /\ UNCHANGED lock

\* Save a changed copy and return it to the caller.
SaveAndReturn(w, copy) ==
    /\ save_transaction(current[w], copy)
    /\ Return(w)

-----------------------------------------------------------------------------
(* handle: a client's request.                                             *)

\* The effect is already stored: its answer is returned and nothing changes.
Replay(w, e) ==
    /\ "handle" \in Offered[ProcessOf[w]]
    /\ Free(w)
    /\ lock[ProcessOf[w]] = None
    /\ SideEffect(e)
    /\ get_succeeded_effect(e) # None
    /\ UNCHANGED vars

\* Otherwise a transaction is created.  The lookup and the insertion of a fresh row are
\* one step: nothing another process does can tell them apart.
Handle(w, e) ==
    /\ "handle" \in Offered[ProcessOf[w]]
    /\ Free(w)
    /\ Acquire(w)
    /\ SideEffect(e) => get_succeeded_effect(e) = None
    /\ \E t \in TransactionId :
        /\ Status(t) = "ABSENT"
        /\ save_transaction(t, create(e))
        /\ Continue(w, "checking", t, create(e))
    /\ UNCHANGED <<effects, approvals, up, bounds, history>>

Check(w) ==
    /\ pc[w] = "checking"
    /\ SaveThen(w, Update(w, "CHECKING", row[w].decision),
                IF CapabilityOf[row[w].effect_id] = "response"
                THEN "handle_response" ELSE "handle_tool")
    /\ UNCHANGED <<effects, approvals, up, bounds, history>>

-----------------------------------------------------------------------------
(* _handle_tool and _handle_response: the verdict, durable before any      *)
(* effect.                                                                 *)

\* before_tool_call looks the capability up among the registered tools first.
OnlyReads(w) == CapabilityOf[row[w].effect_id] = "read"
Registered(w) == CapabilityOf[row[w].effect_id] # "response"

\* A tool call is stopped: it waits if a human can release it, and is blocked otherwise.
StopTool(w) ==
    /\ pc[w] = "handle_tool"
    /\ Registered(w)
    /\ \/ /\ "BLOCK" \in Verdict
          /\ SaveAndReturn(w, Update(w, "BLOCKED", "BLOCK"))
       \/ /\ "REQUIRE_APPROVAL" \in Verdict
          /\ SaveAndReturn(w, Update(w, "WAITING_APPROVAL", "REQUIRE_APPROVAL"))
    /\ UNCHANGED <<effects, approvals, up, bounds, history>>

\* A response that is stopped, for whatever reason, waits.
StopResponse(w) ==
    /\ pc[w] = "handle_response"
    /\ \E v \in {"BLOCK", "REQUIRE_APPROVAL"} \cap Verdict :
        SaveAndReturn(w, Update(w, "WAITING_APPROVAL", v))
    /\ UNCHANGED <<effects, approvals, up, bounds, history>>

\* Approving or resuming a response.release transaction re-enters _handle_tool, whose
\* tool registry does not hold it: the KeyError ends the call.
UnregisteredTool(w) ==
    /\ pc[w] = "handle_tool"
    /\ ~Registered(w)
    /\ Return(w)
    /\ UNCHANGED <<store, up, bounds, history>>

Authorize(w) ==
    /\ "ALLOW" \in Verdict
    /\ \/ pc[w] = "handle_tool" /\ Registered(w)
       \/ pc[w] = "handle_response"
    /\ SaveThen(w, Update(w, "AUTHORIZED", "ALLOW"), "execute")
    /\ UNCHANGED <<effects, approvals, up, bounds, history>>

\* Allowed only in a repaired form: the original is closed ...
RepairInPlace(w) ==
    SaveThen(w, Update(w, "AUTHORIZED", "REPAIR"), "repair_child")
CloseRepaired(w) ==
    SaveThen(w, Update(w, "BLOCKED", "REPAIR"), "repair_child")

RepairParent(w) ==
    /\ pc[w] = "handle_tool"
    /\ Registered(w)
    /\ "REPAIR" \in Verdict
    /\ CloseRepaired(w)
    /\ UNCHANGED <<effects, approvals, up, bounds, history>>

\* ... and an authorized child with the same effect id takes its place.
ChildOfEffect(w) == [effect_id |-> row[w].effect_id, status |-> "AUTHORIZED",
                     decision |-> "ALLOW", repair_parent |-> row[w].effect_id]
Child(w) == [effect_id |-> row[w].effect_id, status |-> "AUTHORIZED",
             decision |-> "ALLOW", repair_parent |-> current[w]]

RepairChild(w) ==
    /\ pc[w] = "repair_child"
    /\ \E t \in TransactionId :
        /\ Status(t) = "ABSENT"
        /\ save_transaction(t, Child(w))
        /\ Continue(w, "execute", t, Child(w))
    /\ UNCHANGED <<effects, approvals, up, lock, bounds, history>>

-----------------------------------------------------------------------------
(* _authorize_and_execute and EffectGateway.execute.                       *)

Execute(w) ==
    /\ pc[w] = "execute"
    /\ SaveThen(w, Update(w, "EXECUTING", row[w].decision), "gateway")
    /\ UNCHANGED <<effects, approvals, up, bounds, history>>

\* The gateway reloads the row and refuses unless it is EXECUTING: PermissionError.
GatewayCheck(w) ==
    /\ pc[w] = "gateway"
    /\ Continue(w, IF Status(current[w]) = "EXECUTING" THEN "backend" ELSE "fail",
                current[w], row[w])
    /\ UNCHANGED <<store, up, lock, bounds, history>>

\* Reads are not recorded in the effects table.
RecordsEveryCall(e) == TRUE
RecordsEffect(e) == SideEffect(e)

Backend(w) ==
    /\ pc[w] = "backend"
    /\ IF SideEffect(row[w].effect_id)
       THEN ran' = [ran EXCEPT ![current[w]] = @ + 1]
       ELSE UNCHANGED ran
    /\ Continue(w, IF RecordsEffect(row[w].effect_id) THEN "persist" ELSE "settle",
                current[w], row[w])
    /\ UNCHANGED <<store, up, lock, bounds, reentered>>

Persist(w) ==
    /\ pc[w] = "persist"
    /\ save_effect(row[w].effect_id, current[w])
    /\ Continue(w, "settle", current[w], row[w])
    /\ UNCHANGED <<transactions, approvals, up, lock, bounds, history>>

Settle(w) ==
    /\ pc[w] = "settle"
    /\ SaveThen(w, Update(w, "SUCCEEDED", row[w].decision), "report")
    /\ UNCHANGED <<effects, approvals, up, bounds, history>>

\* The last audit row; the answer goes back to the client.
Report(w) ==
    /\ pc[w] = "report"
    /\ Return(w)
    /\ UNCHANGED <<store, up, bounds, history>>

\* The except clause: the copy is saved as FAILED, whatever the table holds by now.
Fail(w) ==
    /\ pc[w] = "fail"
    /\ SaveAndReturn(w, Update(w, "FAILED", row[w].decision))
    /\ UNCHANGED <<effects, approvals, up, bounds, history>>

-----------------------------------------------------------------------------
(* approve, deny, resume_authorized.  Reading the row and inserting the    *)
(* approval are one step: no code path reads the approvals table back.     *)

RetriableDecision(t) == Status(t) \in {"WAITING_APPROVAL", "FAILED"}
AnyDecision(t) == Status(t) # "ABSENT"
AwaitsDecision(t) == Status(t) = "WAITING_APPROVAL"

Decide(t, decision) ==
    /\ AwaitsDecision(t)
    /\ decisions < MaxDecisions
    /\ decisions' = decisions + 1
    /\ save_approval(t, decision)

\* The scope must equal the expected one; a mismatch raises and changes nothing.
Approve(w, t) ==
    /\ "approve" \in Offered[ProcessOf[w]]
    /\ Free(w)
    /\ Acquire(w)
    /\ Decide(t, "APPROVED")
    /\ Continue(w, "recheck", t, transactions[t])
    /\ UNCHANGED <<transactions, effects, up, terminations, errors, history>>

Deny(w, t) ==
    /\ "deny" \in Offered[ProcessOf[w]]
    /\ Free(w)
    /\ Acquire(w)
    /\ Decide(t, "DENIED")
    /\ Continue(w, "denied", t, transactions[t])
    /\ UNCHANGED <<transactions, effects, up, terminations, errors, history>>

BlockDenied(w) ==
    /\ pc[w] = "denied"
    /\ SaveAndReturn(w, Update(w, "BLOCKED", "DENIED"))
    /\ UNCHANGED <<effects, approvals, up, bounds, history>>

\* resume_authorized takes no lock.
Resume(w, t) ==
    /\ \/ "resume" \in Offered[ProcessOf[w]]
       \/ /\ "quiet_resume" \in Offered[ProcessOf[w]]
          /\ \A v \in Worker : pc[v] = "idle"
    /\ Free(w)
    /\ Status(t) = "AUTHORIZED"
    /\ Continue(w, "recheck", t, transactions[t])
    /\ UNCHANGED <<store, up, lock, bounds, history>>

\* The transaction is verified again, now with approved=True.
Recheck(w) ==
    /\ pc[w] = "recheck"
    /\ SaveThen(w, Update(w, "CHECKING", row[w].decision), "handle_tool")
    /\ reentered' = reentered \cup {current[w]}
    /\ UNCHANGED <<effects, approvals, up, bounds, ran>>

-----------------------------------------------------------------------------
(* Faults.                                                                 *)

\* Inside the try block: from the gateway call to the last audit row.
Guarded == {"gateway", "backend", "persist", "settle", "report"}

\* A step raises before its write: a locked or full database, a full disk under the audit
\* log, a backend error.  The except clause catches it where there is one; elsewhere the
\* call ends and the row stays as it was last saved.
Raise(w) ==
    /\ pc[w] # "idle"
    /\ errors < MaxErrors
    /\ errors' = errors + 1
    /\ IF pc[w] \in Guarded
       THEN Continue(w, "fail", current[w], row[w]) /\ UNCHANGED lock
       ELSE Return(w)
    /\ UNCHANGED <<store, up, decisions, terminations, history>>

\* A process ends, idle or not: BrokerService.stop terminates it, a host crash kills it.
Terminate(p) ==
    /\ up[p]
    /\ terminations < MaxTerminations
    /\ terminations' = terminations + 1
    /\ up' = [up EXCEPT ![p] = FALSE]
    /\ lock' = [lock EXCEPT ![p] = None]
    /\ pc' = [w \in Worker |-> IF ProcessOf[w] = p THEN "idle" ELSE pc[w]]
    /\ current' = [w \in Worker |-> IF ProcessOf[w] = p THEN None ELSE current[w]]
    /\ row' = [w \in Worker |-> IF ProcessOf[w] = p THEN None ELSE row[w]]
    /\ UNCHANGED <<store, decisions, errors, history>>

\* A process starts: the store's constructor recovers whatever is EXECUTING.
Start(p) ==
    /\ ~up[p]
    /\ up' = [up EXCEPT ![p] = TRUE]
    /\ recover_uncertain_executions
    /\ UNCHANGED <<effects, approvals, call, bounds, history>>

\* A store object opened to look at the tables (CLI listings, SecurityTimeline).
OpenStore ==
    /\ Observed
    /\ recover_uncertain_executions
    /\ UNCHANGED <<effects, approvals, up, call, bounds, history>>

-----------------------------------------------------------------------------
Step(w) ==
    \/ Check(w) \/ StopTool(w) \/ StopResponse(w) \/ UnregisteredTool(w)
    \/ Authorize(w) \/ RepairParent(w) \/ RepairChild(w)
    \/ Execute(w) \/ GatewayCheck(w) \/ Backend(w) \/ Persist(w)
    \/ Settle(w) \/ Report(w) \/ Fail(w)
    \/ BlockDenied(w) \/ Recheck(w)

Request(w) ==
    \/ \E e \in EffectId : Replay(w, e) \/ Handle(w, e)
    \/ \E t \in TransactionId : Approve(w, t) \/ Deny(w, t) \/ Resume(w, t)

Next ==
    \/ \E w \in Worker : Step(w) \/ Request(w) \/ Raise(w)
    \/ \E p \in Process : Start(p) \/ Terminate(p)
    \/ OpenStore

Spec == Init /\ [][Next]_vars

\* A thread that has begun a call keeps running, and a stopped broker is started again.
Fairness ==
    /\ \A w \in Worker : WF_vars(Step(w))
    /\ \A p \in Process : WF_vars(Start(p))

FairSpec == Spec /\ Fairness
=============================================================================
