# AgentShield: specification and verification

TLA+ modules, TLC configurations and TLAPS proofs for AgentShield, the policy
runtime that stands between an LLM agent and the side effects it asks for
(`src/agentshield`). The modules are translated from the Python source; file and
line references below are to `src/`.

## 1. The system

An agent never holds a backend. It sends a *capability request* to a broker
process; the broker stores a *transaction*, asks the policy runtime for a verdict,
and lets a gateway perform the effect. Everything durable is in one SQLite file.

| Component | State it keeps | Operations | Talks to |
|---|---|---|---|
| Runtime store `effects/store.py` | tables `transactions`, `effects`, `approvals`, `audit_events` | `save_transaction`, `save_effect`, `save_approval`, `append_audit`, lookups, `recover_uncertain_executions` in every constructor | SQLite; opened by broker, CLI, timeline |
| Capability broker `capabilities/broker.py` | one `RLock`, sessions per trajectory | `handle`, `approve`, `deny`, `resume_authorized` | store, session, gateway, approvals |
| Effect gateway `effects/gateway.py` | mock backends | `execute`: reload, check, run, record | store |
| Approval manager `approval/manager.py` | none | `expected_scope`, `record` | store |
| Service and client `capabilities/service.py`, `client.py` | process, request threads; 10 s client timeout | start, stop, HTTP handlers | broker |
| Command line `cli.py` | none | approve and deny (a broker of its own on the same file), listings | store, broker |
| Runtime session `adapters/langgraph.py` | compliance state, object ids, payloads, uncertain objects, allowed calls, sequence number | `before_tool_call`, `execute_tool`, `before_response_release`, `ingest_data_object`, `record_approval` | harness, tool registry |
| Shield facade `shield.py` | none: it selects packages, compiles them and wraps an agent or a tool set | `AgentShield`, `wrap` | regulations, session |
| Runtime harness `runtime/harness.py` | obligations and violations in the state | `enforce`: decide, repair, decide again (at most 2 repairs), audit | state manager, policy engine, intervention engine, audit log |
| Compliance state `state/`, `lineage/` | data objects, consents, approvals, lineage edges, last sequence | `apply` with snapshot and rollback | detectors |
| Policy engine `policy/`, `verifier/` | rules, dependency index | `affected_rules`, `verify`, `decide` | |
| Interventions `intervention/` | none | `intervene`: build the repaired event | |
| Regulations `regulations/` | YAML rule sets | load, validate, compile | |
| Audit log `audit/logger.py` | append-only JSONL | `append` | |
| Browser guard `integrations/browsergym.py` | harness per run | `verify`, `get_action` with bounded replanning | harness |
| User handoff `integrations/user_handoff.py` | one file per used checkpoint | `record_handoff_completion`, expiry | |
| AWM runner `integrations/awm_webarena.py` | child process, offset in its trace file | poll, timeout, result | browser guard |
| Web console `dashboard/ui.py` | session state: result, offered handoff, resume under way | run, resume, draw; the framework starts a newer script at once and ends the old one where it next calls it | AWM runner, handoff, store |
| AutoPolicy `integrations/autopolicy.py` | output directories of the pinned tools | extract, load and cross-check, review template | CLI; other processes over one directory |
| Timeline, planning, evaluation, examples | none | presentation, language-model calls, measurement | store, client |

What is hard in it:

* **Crashes.** The service is terminated with SIGTERM (`service.py:54`) between any
  two commits. Sessions and their object ids are lost; the tables stay.
* **Exceptions.** Every commit can raise (`sqlite3` timeout of 10 s, full disk), and
  some are inside the broker's `try` block while others are not.
* **Several writers.** `save_transaction` upserts the caller's whole copy of the row.
  The lock is per process; the CLI is a second process on the same file.
* **Recovery as a side effect of opening.** Every store object recovers EXECUTING rows.
* **Retries.** Clients time out and repeat a request with the same effect id.
* **Humans.** Approvals and denials come at any time, also twice, also after a crash.
* In memory: a repair loop, an incremental rule index, rollback of a mutable state,
  single-use tokens, and polling of a file another process appends to.

The properties that make each part correct:

* *Store, broker, gateway*: no effect before a durable decision; no transaction runs
  twice; a committed effect is replayed and not run again; what is recorded happened;
  held and denied calls stay so; no transaction is forgotten.
* *Session*: what is known of an object does not change while its id is in use; what the
  classification does not describe is uncertain; evidence of one approval serves one
  transaction; every version of an event is logged before its effect.
* *Harness, state, policy*: the loop ends; what is executed is an event that was itself
  decided ALLOW; a failing `apply` changes nothing; the selective evaluation decides as the
  full one does on the events that have effects.
* *Guard, handoff, runner*: a rejected action never reaches the browser; a checkpoint is
  used once, and a run goes on only from one that was attested in full; every complete trace record is delivered once and in order.
* *AutoPolicy*: what is loaded is one finished extraction that agrees with itself, whatever
  other processes write; no tool outlives its run.

## 2. Modules

| Module | Role |
|---|---|
| `RuntimeStore` | the three tables and the SQL statements that change them |
| `CapabilityBroker` | broker, gateway, service threads and processes over the store |
| `EffectLifecycle` | abstract specification: the documented life of one transaction |
| `BrokerProperties`, `MCBroker` | what the broker should guarantee and what the documents say it does; instances for TLC |
| `PolicyRules` | packages, their compilation, the rule index, three-valued evaluation, the decision; the bundled GDPR and PIPL packages |
| `Harness` | one pass of the enforcement loop: apply, verify, record, repair |
| `Session` | the session of one trajectory, driven by the broker or by a wrapped agent, over `Harness` |
| `SessionProperties`, `MCSession` | what a session should guarantee; instances for TLC |
| `WebRun`, `MCWebRun` | a web task: console, runner and guarded child process, over `Harness`; an instance |
| `AutoPolicy`, `MCAutoPolicy` | policy extraction by several processes over one directory; an instance |
| `BrokerProofs`, `SoleProofs`, `QuietProofs` | proofs about the broker: any deployment, one sole broker, several processes |
| `PolicyProofs` | proofs about the rules and the decision, shared by the next two |
| `SessionProofs`, `TransferProofs` | proofs about the session: any session; what leaves it |
| `WebRunProofs`, `AutoPolicyProofs` | proofs about the web run and AutoPolicy |

    RuntimeStore <- CapabilityBroker <- BrokerProperties (INSTANCE EffectLifecycle) <- MCBroker
    PolicyRules  <- Harness <- Session <- SessionProperties <- MCSession
                            <- WebRun  <- MCWebRun
    AutoPolicy   <- MCAutoPolicy

    BrokerProperties <- BrokerProofs <- SoleProofs
                                     <- QuietProofs
    Harness <- PolicyProofs <- SessionProofs (with SessionProperties) <- TransferProofs
                            <- WebRunProofs  (with WebRun)
    AutoPolicy <- AutoPolicyProofs

`CapabilityBroker` and `Session` meet at the verdict: the first takes any verdict and models
threads, commits and crashes; the second says which verdict it is and lets one call at a time
run, which the broker's lock and a wrapped agent's single thread both give. `Session` and
`WebRun` are two users of the same `Harness` pass over the same rules.

### Broker: state and actions

`transactions`, `effects` and `approvals` are the tables, as functions from ids to rows
(`None` is no row) and a set of rows. A transaction row keeps `effect_id`, `status`,
`decision` and `repair_parent`; the other columns influence no branch of the code modelled.
`up` and `lock` are the processes and `CapabilityBroker._lock`. A *worker* is a thread
running one call: `pc`, `current` and `row` are its program counter, the transaction it is
about and **its own copy of the row**, which is what later saves write. `ran` and
`reentered` are history: how often the backend ran for a transaction, and which transactions
`approve` or `resume_authorized` sent back to CHECKING.

A step of a worker is the code up to and including its next committed write, because between
two writes a call works on its own copy only. An audit row appended after a save belongs to
the save's step; its failure is the `Raise` of the label that follows.

| Actions | Code |
|---|---|
| `Replay`, `Handle`, `Check` | `broker.py:46-87` |
| `StopTool`, `Authorize`, `RepairParent`, `RepairChild`, `Execute` | `broker.py:172-343` |
| `GatewayCheck`, `Backend`, `Persist` | `gateway.py:82-169` |
| `Settle`, `Report`, `Fail` | `broker.py:344-390`; `428-448` for responses |
| `StopResponse` (and `Authorize`, `Execute`) | `broker.py:392-427` |
| `UnregisteredTool` | `broker.py:206` into `langgraph.py:196` |
| `Approve`, `Deny`, `Recheck`, `BlockDenied` | `broker.py:89-153`, `manager.py:31-52` |
| `Resume` | `broker.py:155-167`, without the lock |
| `Raise` | an exception at any point; inside the `try` it leads to `Fail`, elsewhere out of the call |
| `Terminate`, `Start`, `OpenStore` | `service.py:50-56`, `store.py:17-21`, `timeline.py:130-136` and `cli.py:287-330` |

Where the policy runtime decides, the model takes any member of `Verdict`. Three kinds of
capability are told apart: `tool` (side effect, in the tool registry), `read` (no side
effect) and `response` (`response.release`: a side effect that is in the capability catalogue
but not in the tool registry).

`Offered` says which calls a process takes. `resume_authorized` has no caller in the service
or the CLI; `tests/test_broker_security.py:282` uses it after a restart with nothing else
under way, and `quiet_resume` is that use. `resume` is a resume at any time: it takes no lock,
so one that overlaps the execution of its own transaction saves over it. With it TLC finds a
transaction that runs twice, and one that leaves WAITING_APPROVAL with no decision about it.
No document says such a resume is allowed, so this is a condition of the properties
(`QuietResumes`) and not a finding.

Two merges of code steps deserve a word. `Handle` looks up and inserts in one step: the
inserted row has a fresh id and status CREATED, which no other operation reacts to. `Approve`
and `Deny` read the row and insert the approval in one step: nothing reads the approvals table
back, and the row itself is saved by a later step of the same call.

### Session: state and actions

`state` is the `ComplianceState`, `session` the adapter's own fields (sequence counter, minted
ids, payloads, uncertain objects), `audit` the log of the current session. `requests` and `held`
are the agent's side and outlive a process: what it asked for, and the bodies it has under the
ids it was given. `host`, `mode` and `selection` are the deployment, chosen in `Init`.

A *frame* is the operation under way: what it is at, the request it serves, the event under
verification and how often that was repaired. One action is one pass of `enforce` or one piece
of adapter code between two passes, so an audit failure, a tool's exception or the end of the
process can come between any two of them.

| Actions | Code |
|---|---|
| `ProposeRead`, `ProposeSend`, `ProposeUnspecified`, `Approve`, `Deny` | `broker.py:46-153`, and `call_tool` of a wrapped agent |
| `HydrateReferencedObjects`, `Hydrated`, `RecordApproval` | `broker.py:461-475`, `langgraph.py:399-466` |
| `Precheck`, `UnregisteredTool`, `GenerateResponse` | `langgraph.py:188-260`, `473-517` |
| `EnforcementPass`, `RuntimeEscalation`, `AuditFails` | `harness.py:59-122`, `161-171`, `langgraph.py:307-320` |
| `CallDecided`, `ResultDecided`, `OfferResponse`, `ReleaseDecided`, `GenerationRefused` | `langgraph.py:261-381`, `520-565`, `broker.py:210-262` |
| `ExecuteRead`, `ExecuteEffect`, `ToolFails`, `ReleaseResponse` | `langgraph.py:323-381`, `565` |
| `PreparationDecided`, `ReportDecided`, `AgentErrors`, `AgentCatches` | what the caller does with the decision of an event of its own; `langgraph.py:633-691` |
| `Invoke`, `Restart` | `langgraph.py:633-691`; `broker.py:450-459` after `store.py:240-250` |

Rules are data: `PolicyRules` writes the bundled YAML packages out rule by rule, and
compilation, index, predicates and decision are operators over any packages. Bodies are a few
kinds, told apart by what the detectors say of them and what redaction and aggregation leave
(`Harness!Body`): text without and with an address, customer rows without and with diagnoses,
masked text, a count, and the stub an aggregation of text leaves. An agent's request carries
what the agent holds under the ids it refers to.

### Web run: state and actions

`console` is the dashboard session, `runner` its poll loop, `child` the process with the guarded
agent, `guard` the action guard's harness state, `trace` and `written` the trace file in halves
of a record, since a record longer than a buffer reaches the file in two writes. `performed` is
what the environment was given. Of the handoffs, `expired` are those whose half hour is over,
`files` those that have a completion file, whatever is in it, `attested` those whose completion
was written in full, in order; `resumed` is the history of the runs started from one.

`record_handoff_completion` is three steps, each of which may be the last: the check of the half
hour (`user_handoff.py:32`), the exclusive create (`:50`) and the write. The half hour may end
between them, the directory, the file or the write may fail (`ui.py:892` catches all of it), and
a file whose write failed stays. None of the three calls Streamlit, which starts a new script of
the session at once and ends the old one only where that one next calls it; so a script that was
superseded goes on recording (`superseded`) beside the new one, which still finds the resume in
the session and records the same handoff. The old one ends at its next statement,
`st.session_state.pop`.

| Actions | Code |
|---|---|
| `Launch`, `StartRun`, `StartFails`, `CollectResult`, `ConfirmHandoff`, `ForgetResume`, `ScriptInterrupted` | `ui.py:836-1006` |
| `RecordCompletion`, `SupersededRecords`, `HandoffExpires` | `user_handoff.py`, called at `ui.py:891` |
| `Supersede`, `ServerEnds` | Streamlit, external: a newer script starts, the server process ends |
| `Poll`, `ChildEnded`, `TimeOut`, `PollRaises`, `Reap` | `awm_webarena.py:182-283` |
| `GetAction`, `VerifyAction`, `RecordVerdict`, `FlushVerdict`, `AnswerAction` | `browsergym.py:87-289`, `awm_runner.py` |
| `NextObservation`, `ChildFails` | AWM and BrowserGym, external: the environment goes on, ends or fails |

### AutoPolicy: state and actions

`dirs` are the output directories with their files (missing, half written, whole) and
modification times, `tool` the upstream process of each run, `run` the run itself.
`BeginExtraction`, `TimeOut` and `ToolEnded` are the runner (`autopolicy.py:168-264`),
`BeginReview`, `OpenDirectory`, `ReadFile` and `ReadLtl` the loader (`267-364`) as the commands
of `cli.py:163-201` use it, `ReviewTemplate` the template (`367-421`); `MakesDirectory`,
`WritesFile` and `ToolExits` are the pinned tools, external.

## 3. Runs

`CHECK_DEADLOCK FALSE` is set in every run because an instance really stops: its ids, requests
or runs are used up and nothing is pending.

| Run | Deployment | Bounds | Result |
|---|---|---|---|
| `broker_sole` | one process, two threads | 3 transactions, a tool and a response effect, 2 decisions, 1 termination, 1 exception | 351 144 states, holds |
| `broker_shared` | service and CLI on one file, observers | 2 transactions, a tool and a read effect, 3 decisions, 1 termination, 1 exception | 879 434 states, holds |
| `broker_progress` | one process, two threads, fair | 2 transactions, a tool and a read effect, 2 decisions, 1 termination | 13 574 states, holds |
| `broker_repeat` | one process, one thread | 2 transactions of one effect | violated |
| `broker_observer` | one process and an observer | 2 transactions | violated |
| `broker_final` | one process, one exception | 2 transactions | violated |
| `broker_response` | one process, fair | 1 transaction of a response | violated |
| `session` | broker, wrapped agent, audit mode; GDPR, PIPL, both, a reviewed package | 3 requests of 1 reference, 2 sessions, 1 approval, 1 fault | about 1.5 million states, holds |
| `session_restart` | broker under PIPL, ids reused | 3 requests, 2 sessions, 1 approval | violated |
| `session_rows` | broker under GDPR | 3 requests of 2 references | violated |
| `webrun` | GDPR and a reviewed package, fair | 2 runs of 2 steps, 1 replan, 6 candidates, 1 superseded script, `SettledBeforeRun` | 318 416 states, holds |
| `autopolicy` | two processes, fair | 2 directories, 3 possible outputs | about 456 000 states, holds |

### Broker

**`broker_sole`** is the deployment `docs/threat_model.md:73` assumes. Three transactions of
two effects allow a retry after a failure, a repair parent with its child beside another
request of the same effect, and two calls waiting for approval at once; two threads are
enough for every pair of overlapping calls. It checks:

* `HeldBeforeEffect`: a transaction that has not passed AUTHORIZED, was blocked, was replaced
  by a repair or waits has reached no backend, whatever crashed or raised before.
* `AtMostOncePerTransaction`: no sequence of approvals, resumes, crashes and recoveries runs
  one transaction twice.
* `CommittedRepeatedOnlyOnReentry`: a committed effect is executed again only for a
  transaction that `approve` or `resume_authorized` sent back (see the first finding).
* `RepetitionIsVisible`: two SUCCEEDED transactions of one effect exist only after such a
  re-entry; a repetition caused by a crash leaves a row that is not SUCCEEDED.
* `RepairClosesParent`: a repair child has one closed parent of the same effect that never
  ran, and is its only child, though parent and child are two commits.
* `ExecutingIsAttended`: while the broker is up and nothing raised, an EXECUTING row has a
  live call behind it.
* `ImplementsLifecycle`: refinement of `EffectLifecycle`, with `status` the status column and
  `runs` the history `ran`. The abstract machine has the edges of the diagram in
  `docs/architecture.md` and one more, SUCCEEDED to FAILED (third finding).

**`broker_shared`** has no useful lock between its two processes. What remains true there:

* `SucceededIsCommitted`: a side effect that reports SUCCEEDED is in the effects table.
* `CommittedWasPerformed`: a row of the effects table names a transaction whose backend ran.
* `HeldReleasedOnlyByDecision`: a transaction leaves WAITING_APPROVAL only with a stored
  decision about it, although stale copies are saved over each other.
* `DeniedNeverRuns`: a transaction that was denied and never approved never runs, however the
  decisions of the two processes race.

**`broker_progress`** checks, with fairness:

* `EveryCallSettles`: a transaction that is CREATED, CHECKING, AUTHORIZED or EXECUTING comes
  to rest, unless a process was terminated: nothing picks up a CREATED or CHECKING row.
* `NoExecutionIsLost`: an EXECUTING row does not stay so, terminations included.

Both are checked without exceptions, as `ExecutingIsAttended` is: an exception that keeps the
`except` clause itself from saving FAILED leaves the row EXECUTING until the next start.

Fairness is weak and has two parts. `WF(Step(w))`: a thread that has begun a call keeps
running, which is what the threading HTTP server gives it; starting a call, failing and being
terminated are never required. `WF(Start(p))`: a broker that was stopped is started again,
which is the operator's part. The lock needs no fairness, as no property says that a request
that waits for it is served.

Bounds: `MaxDecisions` bounds approve and deny calls (2 let both waiting transactions be
decided, 3 let both processes decide one and one of them once more), `MaxTerminations`
terminations and `MaxErrors` exceptions. One of each covers every position of a fault; a
second fault inside recovery from the first is left to the proofs. Transaction ids are
symmetric. Each property was seen to fail when the code is changed the way the mutants of
`PROJECT.json` say: a lookup that finds nothing, a dropped save, a missing lock, a skipped or
wrong recovery, a widened guard.

### Session

**`session`** takes every deployment in `Init`: the broker, or a wrapped agent in enforce or in
audit mode, with GDPR, PIPL, the two together, or a package of the kind an organisation might
load beside them, whose transfer rule no repair can satisfy. It checks:

* `AdmittedComplies`: what executes violates no rule of any selected package *as written*. The
  code looks at the rules indexed under changed variables only, unless the event is forced, and
  merges duplicates; the property evaluates all of them.
* `SensitiveNeedsItsApproval`: diagnoses leave only in a transaction that was itself approved
  and with a consent on record. The evidence of an approval stays in the session: it must not
  carry another proposal of the same transfer through.
* `RawPersonalNeverLeaves`: under GDPR rows are aggregated or the transfer stops.
* `ReleasedIsClean`: a released response holds nothing that redaction removes. The code releases
  the text redacted *before* the release event was verified, and ignores what a repair of that
  event left (`langgraph.py:565`).
* `AuditedBeforeEffect`: each version of an event that was replaced is in the log as a repair,
  there are at most `MaxRepairs`, and an effect runs on an accepted version whose acceptance was
  logged, although the log can fail between any two.
* `SequencesAccepted`: two places number events, the adapter and the harness for repaired ones;
  no event is ever refused for its number.
* `UncertainIsMarked` and `ClassificationIsFinal`: what verification knows of an object is what
  it knew first, and where that does not describe what the session holds under the id, the
  object is uncertain and its transfer waits for a human.

`IdReuse = FALSE` takes the runs in which no read mints an id that the agent has from an earlier
process *and that the current session does not know* (`Stale`); finding 5 is about the
others. A read may still mint the id of an object that was rehydrated before it: the session
knows that id, refuses the ingestion and marks the id uncertain. `MaxReferences = 1` takes the
requests of at most one object; finding 6 is about two. Both restrictions are of the
environment and not of the code, and both disappear in the violation runs.

`MaxSessions = 2` is a condition too, and not only a bound. The mark that a colliding read leaves
is forgotten with its session. In an instance with three sessions, five requests and two
approvals TLC finds what follows: diagnoses wait in the first session; in the second a read
collides with their rehydrated id and a harmless request is made of what it brought; the third
rehydrates the id with the harmless body and then verifies the approved diagnoses as that. It is
the root cause of finding 5 (`langgraph.py:613`) on a longer way, so it is no finding of its own.
Section 4 proves the properties for two sessions, and for any number as long as no id stands
for two bodies when a process takes over.

Two sessions let a transaction wait in one and be approved in the next; three requests let a
read, a transfer of what was read and a second proposal of the same transfer come one after the
other; one approval and one fault can fall between any two steps. The instance holds one body
that is rows, one that is diagnoses and one page with an address, which is every way a
classification can go in the bundled rules.

**`session_restart`** and **`session_rows`** are findings 5 and 6 below.

What the model shows and no document contradicts: an approved transaction of an uncertain
object is escalated again (`langgraph.py:254` asks nobody whether it was approved), so it waits
until it is denied.

### Web run

**`webrun`** lets the agent propose something that is no action, typing or saying plain text or
an address, and a submit; lets the child hang, fail or end anywhere; polls in the middle of a
record; lets a handoff expire at any point between the button and the run; lets its record fail
or be superseded after every step; and lets the server end between two runs. It checks:

* `PerformedWasAllowed`: the environment is given the candidate its own last record allows, as
  a repair left it, or a message of the guard, and never the last of several refused ones.
* `NothingPersonalPerformed`: under the loaded regulations nothing personal is typed or said.
* `AskedAtMost`: a step asks the agent at most `max_replans` times again.
* `RelayedInOrder`, `RelayIsComplete`: each verdict reaches the console at most once, in order
  and whole; at the end all did, but for a record of which a poll saw a part (`torn`). That
  exception is the code's: `awm_webarena.py:277` advances past an incomplete line, so the live
  view loses the record, and the trace file alone keeps it.
* `UsedOnce`: a handoff is attested at most once, although two scripts may be within the record
  of it, a script may be interrupted and come back to it, and the server may end.
* `ResumedOnEvidence`: a run goes on from a handoff only with its completion on file in full (a
  cut short file is none), only if the half hour was not over when the script began, and no two
  runs from the same one. It fails when the script is not stopped after a refusal, and also when
  the half hour is checked at the button only.
* `NoOrphan`: after a timeout, an interrupted script or an unreadable trace no child goes on
  acting on the page.
* `RunEnds`: every run comes back to the console.

Fairness: `WF_vars(Runner)`, the poll loop and its deadline, as time passes; and weak fairness
of the script's own steps. The child may hang and no button has to be pressed, so the deadline
is what makes `RunEnds` true. Two runs let a handoff of the first be used for the second; two
steps and one replan let a refused candidate come before and after an allowed one. The
constraint `SettledBeforeRun` of the instance follows a run only where nothing is left over of
earlier handoffs: no superseded script, nothing expired, no file but that of the handoff the run
goes on from. A run reads none of this and its steps touch none of it, so one history stands for
all. What happens to handoffs up to the start of a run, the start included, is explored in full,
and with the first of the three conditions alone the instance holds too (920 541 states). The
theorems of section 4 have no such bound.

What the model shows and no document contradicts: a half hour that ends between the check and
the create is recorded all the same, so "in time" holds of the check and not of the file; a
completion is recorded before the run it resumes is started (`ui.py:891`), so if that run fails
the handoff cannot be used again; and a record that fails, or is superseded and then completed
by the old script, leaves a handoff that no run can go on from.

`docs/upstream_integration.zh-CN.md:66` says that a handoff ends the trajectory at once. The
guard answers with a message in place of the action (`browsergym.py:266`) and keeps no pause:
whether the environment ends on the message is BrowserGym's, outside the repository, and the
model lets it go on; another action it asks for is verified like any other.

### AutoPolicy

**`autopolicy`** runs two processes over one output directory, the first an extraction with
LTL rules or a review, the second an extraction or a review; outputs are sound, or have a link
no rule declares, or a rule whose source is unknown. It checks:

* `BundleIsTraceable`: a bundle that is returned is one extraction's, whole, agrees with its
  mapping, and its review template shows exactly the sources of every rule, undecided, although
  the directory is chosen by modification time and another process may be writing into it.
* `OlderOnlyIfNone`: an extraction from before the run is returned only where the run's own
  tool made none.
* `NoToolLeft`: no tool outlives its run on either timeout, though one of the two has no
  handler for it (`autopolicy.py:247`).
* `RunEnds`: with fair processes and tools that may hang.

Two directories let each process make one, or one find two. That a returned directory is the
run's *own* is not guaranteed and no document says it is: with two extractions at once the
newest directory may be the other's.

### Where code and documents differ

1. `broker_repeat`: `approve` does not look the effect up (`broker.py:132`), so two waiting
   transactions of one effect id both execute; `docs/architecture.md:139` says a successful
   effect id is not executed again.
2. `broker_observer`: opening the store to read it (`timeline.py:135`, `cli.py:287`) marks a
   running execution as REQUIRE_HUMAN_REVIEW with the text "Broker restarted".
3. `broker_final`: an exception in the last audit append (`broker.py:372`) saves FAILED over
   SUCCEEDED.
4. `broker_response`: an approved `response.release` goes to `_handle_tool`, whose registry
   does not have it: KeyError, and the row stays CHECKING.
5. `session_restart`: object ids count per session (`langgraph.py:613`), so a read in a new
   process can mint the id of an object that a waiting transaction refers to. Rehydration then
   skips the id (`broker.py:474`) and the approved transaction is verified against the other
   object's classification; `docs/capability_broker.md:59` says its own objects are
   reconstructed before re-verification.
6. `session_rows`: only the first referenced object reaches the arguments the policy sees
   (`broker.py:182`). Rows named second leave in the body of a message verified as harmless;
   `docs/security_evaluation.md:31` says raw rows are repaired to an aggregate.

## 4. Proofs

Checked by TLAPS, each in a module that extends the one it is about. TLC checked each
strengthened invariant on the instances of the runs before it was proved.

**Broker, every deployment** (`BrokerProofs`), for every set of processes, threads,
transactions and effects, live resumes and observers included, and every bound. Assumed:
`NoneIsFresh` (the value for no row is no id and no row) and `ConstantsOK` (the constants have
their types).

* `TypeCorrect`: `Spec => []TypeOK`. The type invariant is not inductive: a save writes a
  worker's copy, so the copy must be a row. `CallOK` adds that a call under way holds a copy of
  a stored row *of the same effect*. It survives the steps of other workers because `RowsKept`
  holds of every action: rows are never deleted and never change their effect, even where one
  process overwrites another's row. One lemma says so for each of the ways the code touches the
  store (insert, save and go on, save and return, move on, recover), and each action cites the
  one it is an instance of.
* `SucceededCommitted` and `CommittedPerformed`: `[]SucceededIsCommitted` and
  `[]CommittedWasPerformed`. The inductive invariant `CommitInv` adds what a call inside the
  gateway has already done: before `Persist` the backend ran (`PersistAfterRun`), and after it
  the effect row exists (`SettleAfterPersist`). Both rest on the facts that `ran` only grows
  and that effect rows are never removed; the rest is that no statement but `Settle` writes
  SUCCEEDED.

**A sole broker** (`SoleProofs`), under `SoleBroker`: one process, no observer,
an AUTHORIZED transaction resumed only while no call is under way. It is the deployment
`docs/threat_model.md:73` assumes, and `broker_sole` is an instance. Threads, transactions,
effects, decisions, terminations and exceptions are as many as one likes.

* `SoleInv` says what the lock gives (`SoleCalls`): one call at a time, in a process that is up,
  whose copy *is* the stored row, in a status that fits the next step (`StatusAt`). Without the
  last part nothing follows from a transaction's status, since a save writes the copy. `NotRunYet`
  adds that a call before the backend is about a transaction that has not run. It gives
  `HeldHasNotRun` (`[]HeldBeforeEffect`), `AtMostOnce` (`[]AtMostOncePerTransaction`) and
  `UncertainAttended` (`[]ExecutingIsAttended`).
* `LifecycleImplemented`: the broker implements `EffectLifecycle`. The initial states map to its
  initial state; each action, terminations and recoveries included, maps to one edge of the
  documented diagram, to the first run, to the recovery of one start, or to a stutter.
* `RepeatInv` joins `CommitInv` and `SoleInv` and says which calls may lead to a second
  commit. A call past CHECKING is about an effect that is not committed, or about a transaction
  that was sent back (`FirstOrReentered`); what is about to become a repair's parent has no child
  (`NoChildYet`). It gives `RepetitionVisible` (`[]RepetitionIsVisible`), `RepairClosed`
  (`[]RepairClosesParent`) and the action property `RepeatedOnlyOnReentry`.

**Several processes** (`QuietProofs`), under `QuietResumes` alone: any number of processes and
observers, whose locks know nothing of each other. The broker's copies are then stale in
general, and saved over each other's. `Quiet` is what remains: a transaction *nobody has decided
about* has a single writer, because only the call that inserted it, or one resume, is about it
(`UndecidedCalls`), and what was only denied rests, with nothing but the call that blocks it at
work (`DeniedRests`). It gives `DeniedDoesNotRun` (`[]DeniedNeverRuns`) and the action property
`HeldUntilDecision`. The condition is needed: with a resume that overlaps the execution of its
own transaction (section 2) TLC finds one that leaves WAITING_APPROVAL undecided.

**Policy** (`PolicyProofs`), for any packages, events and states. `DecisionIsStrict`: if an event
breaks a rule of any package, and the rule is one the event's changes can reach (`Watched`), the
decision is at least as restrictive as that rule asks. So nothing is lost to the merging of
duplicates (`CompileKeeps`), to the index (`EveryRuleIsFound`) or to the choice of one violation
among several (`ControllingIs`). `WellFormed` is assumed: rules have the fields of the schema
and no two rules differ under one id. The second is not in the code: the loader refuses
a repeated id in one package only, and over two packages the index keeps one of the two rules.
`PassIsAsStrict` carries the result over to one pass of the harness. `DecisionIsMonotone`: packages
that include the rules of others, in any order and with any rules besides, never decide less
strictly, so selecting PIPL besides GDPR relaxes nothing. It rests on the converse of the first
theorem: what controls a decision is a rule that the event breaks (`ControlIsBroken`).

**Session** (`SessionProofs`), for every set of packages, every host, mode and selection, any
number of requests, references, sessions, approvals, faults and repairs. Assumed:
`SessionAssumption` (types of the constants), `ReadsAssumption` (a read yields text or rows)
and `NoneAssumption` (the value for nothing is no id and no derivation).

* `SessionInv` is about the frame, the log and what is known of objects. `TypeCorrect`,
  `AcceptedInSequence` (`[]SequencesAccepted`), `AuditPrecedesEffect` (`[]AuditedBeforeEffect`),
  `MarkedWhereUncertain` (`[]UncertainIsMarked`) and `ClassifiedOnce` (the action property
  `ClassificationIsFinal`) follow. `UncertainIsMarked` needs most of it: an object's payload is
  known before its classification while it is rehydrated (`Described`, `Pending`), a repair
  keeps what the event introduces (`Origins`), and an event refused as a repetition classifies
  nothing (`Brought`). Ids may be reused: none of this needs `IdReuse = FALSE`.
* `Admission` adds what is decided: what an event must say so that every rule of a call or a
  release is looked at (`Composed`), that an admitted effect breaks only rules that are for the
  record (`Complies`), and how a response is composed, classified and redacted (`Generated`,
  `Offered`). `AdmittedForTheRecord`: what executes violates no loaded rule but AUDIT_ONLY ones,
  which the code lets through by design; `AdmittedViolatesNone` is `[]AdmittedComplies` for
  packages that have none, as the bundled ones and those of the run; `ReleasedClean` is
  `[]ReleasedIsClean`. Assumed are `BundledPackages` (GDPR and PIPL are the bundled packages) and
  `SoundPackages`: packages are told apart by id, rules have the schema's fields, no two
  rules differ under one id, and a rule about tool calls depends on one of the three facts
  that every call states. The last two are conditions of the theorem because the code does
  not ensure them: selective evaluation (`harness.py`, `dependency_index.py`) would pass over a
  TOOL_CALL rule that depends on none of these facts. TLC evaluates both on the run's packages
  (`MCSession!PackagesAreSound`).

**Transfers** (`TransferProofs`), for the same sessions and assumptions, with requests of one object
(`MaxReferences <= 1`) and no stale ids (`~IdReuse`). Both conditions are needed: `session_rows`
and `session_restart` are the counterexamples without them.

* `RawPersonalStays` (`[]RawPersonalNeverLeaves`) and `SensitiveIsApproved`
  (`[]SensitiveNeedsItsApproval`), for a process and its successor (`MaxSessions <= 2`, see
  `session` in section 3 for why), any number of requests, reads, approvals, faults and repairs.
* `TransfersComplyOnOneBody`: both, and `ReverifiedAgainstItsObject`, for any number of
  processes, of every behaviour in which no id stands for two bodies whenever a process takes over
  (`OneBody`). So the reuse of an id for another body is the *only* way past verification: no
  order of failures, approvals, repairs and restarts is another.

The properties are about what is sent; verification is about ids. `TransferInv` ties the two.
What a live request says of an object is what the agent holds under its id, or the id is marked
uncertain (`Agreement`); what the session knows of an id is what the agent holds, or the id
is marked (`Known`); a read that collides is refused, so that it marks (`Arriving`); a
rehydration brings the body of its own request (`Rehydrating`). `Sent` follows a call from its
checks to its execution: it is verified about the objects of its request, classified as the
body of the request, and what it says besides (the recipient is external, no special
condition, a purpose only if the request was approved) is not the agent's to choose. Then the
rules decide: `GdprTransferRules` and `PiplTransferRules` name those a transfer of such data
would break, `DecisionIsStrict` says it is not admitted, and the aggregated count that a repair
leaves is not personal. The marks matter because an object that is marked escalates, so nothing
is executed about it. `FirstProcess` is what makes two sessions enough: the first process mints
each id once, so `OneBody` holds when its successor starts, and no third one relies on it.

**Web run** (`WebRunProofs`), for every policy, set of candidates, number of replans, steps and
runs. Assumed: `WebRunAssumption` and `MaxRepairsAssumption` (the bounds are natural numbers).
The theorems are `TypeCorrect`, `PerformedWasAllowedHolds`, `AskedAtMostHolds`,
`RelayedInOrderHolds`, `RelayIsCompleteHolds`, `NoOrphanHolds`, `UsedOnceHolds` and
`ResumedOnEvidenceHolds`. All but the last two come from one inductive invariant, `RunInv`, which
is the properties and what they need:

* For what is performed: the verdict an answer is made of is the last record of the trace
  (`VerdictIsLast`), and the agent is asked only where an attempt is left (`AttemptLeft`).
* For the relay: a record is half written between its two writes only (`HalfWritten`); what was
  relayed lies below the offset of the next read (`RelayedBelow`), and everything below the
  offset was relayed or torn (`CompleteBelow`). `RelayedInOrder` alone is not inductive, as
  nothing in it keeps a record from being read twice. `ReadKeeps` proves the step once for the
  poll and for the last read; it rests on what halving does to the offset.
* For the end: `EndIsRead`, the last read has read everything, and `StartsInBound`.

`UsedOnce` and `ResumedOnEvidence` have `HandoffInv`, which any other step keeps that leaves the
script where it is or ends it (`OutsideRecord`). Neither is inductive alone. A script that is
writing has created its file, the handoff is not attested yet, and the two scripts never write
the same one (`OwnFiles`); whoever is past the record has its completion on file and no run was
started from it (`Earned`); and a script that began too late is still before the check, or was
refused (`BeganInTime`). `RecordingWrites` proves the step of the record once for both scripts.

`NothingPersonal` (`[]NothingPersonalPerformed`) has an invariant of its own, `Discretion`: a
proposed action is verified under the rule on a lawful basis as it was proposed, so one with
personal data does not pass, and what a repair leaves is not personal (`Weighed`); what the
guard then allows and records is not either (`Told`). It is assumed that the run is regulated
(`RegulatedRun`): the packages are well formed as above and GDPR or PIPL is among them. TLC
evaluates this on the instance (`MCWebRun!RunIsRegulated`). `ActionObjectAssumption` says that
an action's id is not the value for nothing.

**AutoPolicy** (`AutoPolicyProofs`), for every set of processes and outputs and any number of
directories. Assumed: `AutoPolicyAssumption` (the bound is a number and `ExtractLtl` are runs)
and `OutputsAssumption` (an output is the three fields the loader looks at, with finitely many
policies). The theorems are `TypeCorrect`, `OlderOnlyIfNoneHolds`, `NoToolLeftHolds` and
`BundleIsTraceableHolds`. The invariant `LoadInv` adds to the types that a tool works only for
a run that waits for it (`ToolIsAwaited`), that a directory the run's own tool made is new to it
and is preferred (`Prefers`), that whoever loads has a directory (`HasDirectory`), and what a
loader has read so far (`Read`): the files up to its index are whole and their contents agree
with each other. `Read` survives the steps of the other processes because required files that
are whole are not written again. That a review template shows as many policies as a rule has
sources is a bijection between them (`TemplateIsFaithful`), as ids are distinct.

Only model-checked:

* Liveness, out of the prover's reach: `EveryCallSettles`, `NoExecutionIsLost`, both `RunEnds`.
* What the six violation runs show, which no theorem could state.

## 5. Plan

The components the program's promises rest on are modelled, and every safety property and action
property of the passing runs is proved. What a later version could add:

1. A statement about repairs for arbitrary packages: which interventions can make an event break
   a rule that it met before. For the bundled packages the session's and the web run's proofs
   say what a repair leaves.
2. Object ids that name their process, if the code comes to have them: the conditions
   `~IdReuse` and `MaxSessions <= 2` of `TransferProofs` would then go, since `OneBody` would hold
   always.
3. The checks of `upstreams.py` before a run, and the start-up handshake and shutdown of
   `service.py`.

## 6. Not modelled

* Task planning (`planning.py`): prompts and deterministic fallbacks around a language model,
  with no state of their own. Evaluation and examples: drivers and measurements.
* Of the policy engine, the every-event strategy and the ShieldAgent-style verifier, which are
  baselines of the evaluation, and the shielding plan, which explains a decision.
* Of regulations, the schema validation of the YAML files. Of detectors, the regular
  expressions: what they say of each kind of body is part of the model.
* Of the state, task and policy context, time and confidence, which no bundled rule reads. The
  audit tables and the fields of a log entry other than event and outcome: nothing reads them.
* HTTP framing, the client's own timeout (a retry is one more request of the same effect), the
  projection of the timeline and the fixture demonstration of the dashboard, which present.
* AWM, BrowserGym and the pinned AutoPolicy tools are not in this repository: they are modelled
  from how `src/` uses them, as processes that may do anything in any order, fail or hang.
* Of the console, a second script that starts while the first still polls its child (the old one
  raises in its next callback and ends its child, so `NoOrphan` is per run), other sessions of the
  same server, and a server that ends under a running child.
* Duplicate rule ids within a selection: that there are none is a condition (`RegulatedRun` and
  `WellFormed` of the proofs).

`PROJECT.json` lists every component with its status and every known hazard with the property
that covers it or the reason why none does.
