-------------------------------- MODULE WebRun --------------------------------
(***************************************************************************)
(* A web task run from the dashboard: the console (dashboard/ui.py), the   *)
(* runner that polls a child process (integrations/awm_webarena.py), and   *)
(* in the child the guarded AWM agent (integrations/browsergym.py,         *)
(* awm_runner.py) over the compliance harness.  What needs a human ends in *)
(* a user handoff (integrations/user_handoff.py).                          *)
(*                                                                         *)
(* AWM and BrowserGym are outside the repository: the agent may propose    *)
(* any candidate or fail, the environment may go on, end or fail after any *)
(* step, and the child may hang anywhere.  A record of the trace is        *)
(* written in two halves (it may be longer than a write buffer), and the   *)
(* trace is read in units of a half.  Wall-clock time is two facts: a run  *)
(* may time out, a handoff expires.  A handoff is named by its run: only   *)
(* the last one of a run is ever offered.  Of a run that is over only the  *)
(* handoff it offers is kept: each run has a directory of its own.         *)
(*                                                                         *)
(* The console's framework is outside the repository too: what the user    *)
(* does next starts a script at once, and the one under way ends only      *)
(* where it next calls the framework.  Recording a completion makes no     *)
(* such call, so two scripts can be within it; at most one superseded      *)
(* script is kept here.                                                    *)
(*                                                                         *)
(* FillsAreCalls, ReturnsCandidate, AsksOnceMore, RereadsTrace,            *)
(* SkipsLastRead, SkipsAhead, Overwrites, NeverStops, LeavesChild and      *)
(* NeverTimesOut are faulty variants; no action uses them.                 *)
(***************************************************************************)
EXTENDS Harness

CONSTANTS
    Loaded,      \* the regulation packages of the run, in order
    Candidates,  \* the actions AWM proposes, [kind, body]
    MaxReplans,  \* guarded agent: max_replans
    MaxSteps,    \* run: max_steps of the environment
    MaxRuns      \* bound: runs of the console

ASSUME WebRunAssumption ==
    /\ {MaxReplans, MaxSteps, MaxRuns} \subseteq Nat
    /\ \A c \in Candidates : DOMAIN c = {"kind", "body"}

\* The objects the guard names, one for each candidate; Python's None is none of them.
ActionObject == {"action"} \X Nat
ASSUME ActionObjectAssumption == None \notin ActionObject

VARIABLES
    console,      \* [at, resume, handoff, runs, from, late]: the dashboard session and its script
    superseded,   \* [at, handoff]: a script that goes on until it calls the framework
    runner,       \* [at, offset]: the runner's poll loop
    relayed,      \* the records handed to the progress callback, in order
    torn,         \* the records of which a poll saw only a part
    child,        \* [at, candidate, event, repairs, verdict, asked, steps]: the child process
    guard,        \* [state, sequence, attempt] of the action guard
    trace,        \* the records the guard began to write
    written,      \* halves of records in the file
    performed,    \* what the environment was given, in order
    expired,      \* handoffs whose half hour is over
    files,        \* handoffs that have a completion file, whatever is in it
    attested,     \* handoffs whose completion was written in full, in order
    resumed       \* [handoff, late] of the runs started from a handoff, in order

vars == <<console, superseded, runner, relayed, torn, child, guard, trace, written, performed,
          expired, files, attested, resumed>>

processes == <<child, guard, trace, written, performed>>
evidence == <<superseded, expired, files, attested, resumed>>

Policy == Compile(Loaded)

-----------------------------------------------------------------------------
(* The console *)

FreshGuard == [state |-> ComplianceState, sequence |-> -1, attempt |-> 0]

NoRunner == [at |-> "none", offset |-> 0]

NoChild == [at |-> "none", candidate |-> None, event |-> None, repairs |-> 0,
            verdict |-> None, asked |-> 0, steps |-> 0]

NoScript == [at |-> "none", handoff |-> None]

\* The console between two scripts.
Idle == [console EXCEPT !.at = "idle", !.from = None, !.late = FALSE]

\* A script run of the console with the button pressed or a resume under way.  "late" is
\* history: whether the half hour of its handoff was over when the script began.
Launch ==
    /\ console.at = "idle"
    /\ console.runs < MaxRuns
    /\ console' = [console EXCEPT !.at = IF console.resume = None THEN "starting"
                                        ELSE "recording",
                                  !.from = console.resume,
                                  !.late = console.resume \in expired]
    /\ UNCHANGED <<runner, relayed, torn, processes, evidence>>

handoff_valid(handoff) == handoff \notin expired

\* Faulty variant: the completion file is opened for writing, not created.
Overwrites(handoff) == TRUE

\* The completion file is created exclusively.
Creates(handoff) == handoff \notin files

\* A step of a script that records a completion: the half hour is looked at, the file
\* created, its content written.  Directory, file and write may each fail, and a file that
\* could not be written stays.
Recording(at, handoff, next) ==
    \/ /\ at = "recording"
       /\ next = (IF handoff_valid(handoff) THEN "checked" ELSE "refused")
       /\ UNCHANGED <<files, attested>>
    \/ /\ at = "checked"
       /\ Creates(handoff)
       /\ next = "writing"
       /\ files' = files \cup {handoff}
       /\ UNCHANGED attested
    \/ /\ at = "checked"
       /\ next = "refused"
       /\ UNCHANGED <<files, attested>>
    \/ /\ at = "writing"
       /\ next = "recorded"
       /\ attested' = Append(attested, handoff)
       /\ UNCHANGED files
    \/ /\ at = "writing"
       /\ next = "refused"
       /\ UNCHANGED <<files, attested>>

RecordCompletion ==
    /\ \E next \in {"checked", "writing", "recorded", "refused"} :
        /\ Recording(console.at, console.from, next)
        /\ console' = [console EXCEPT !.at = next]
    /\ UNCHANGED <<superseded, runner, relayed, torn, processes, expired, resumed>>

\* A superseded script goes on with its record, and ends at its next call of the framework.
SupersededRecords ==
    /\ \E next \in {"checked", "writing", "recorded", "refused"} :
        /\ Recording(superseded.at, superseded.handoff, next)
        /\ superseded' = IF next \in {"recorded", "refused"} THEN NoScript
                         ELSE [superseded EXCEPT !.at = next]
    /\ UNCHANGED <<console, runner, relayed, torn, processes, expired, resumed>>

\* The user does something else while the completion is being recorded.
Supersede ==
    /\ console.at \in {"recording", "checked", "writing"}
    /\ superseded = NoScript
    /\ superseded' = [at |-> console.at, handoff |-> console.from]
    /\ console' = Idle
    /\ UNCHANGED <<runner, relayed, torn, processes, expired, files, attested, resumed>>

\* Faulty variant: the error is shown and the script goes on.
NeverStops(at) == "starting"

\* A refused handoff stops the script.
AfterRecord(at) == IF at = "recorded" THEN "starting" ELSE "idle"

\* The resume is forgotten whether its handoff was recorded or refused.
ForgetResume ==
    /\ console.at \in {"recorded", "refused"}
    /\ LET at == AfterRecord(console.at)
       IN  console' = [(IF at = "idle" THEN Idle ELSE [console EXCEPT !.at = at])
                        EXCEPT !.resume = None]
    /\ UNCHANGED <<runner, relayed, torn, processes, evidence>>

\* Touching session state or the page is where the framework may end the script for a newer
\* one, before or after the previous result is dropped.
ScriptInterrupted ==
    /\ console.at \in {"recorded", "refused", "starting"}
    /\ console' \in {Idle, [Idle EXCEPT !.handoff = None]}
    /\ UNCHANGED <<runner, relayed, torn, processes, evidence>>

\* The server is stopped between two runs, scripts and session with it; the files stay.
ServerEnds ==
    /\ console.at \notin {"running", "ended"}
    /\ console' = [Idle EXCEPT !.resume = None, !.handoff = None]
    /\ superseded' = NoScript
    /\ UNCHANGED <<runner, relayed, torn, processes, expired, files, attested, resumed>>

\* The previous result is dropped and the child is started.
StartRun ==
    /\ console.at = "starting"
    /\ console' = [Idle EXCEPT !.at = "running", !.handoff = None, !.runs = @ + 1]
    /\ runner' = [at |-> "polling", offset |-> 0]
    /\ child' = [NoChild EXCEPT !.at = "observe"]
    /\ guard' = FreshGuard
    /\ relayed' = <<>> /\ torn' = {} /\ trace' = <<>> /\ written' = 0 /\ performed' = <<>>
    /\ resumed' = IF console.from = None THEN resumed
                  ELSE Append(resumed, [handoff |-> console.from, late |-> console.late])
    /\ UNCHANGED <<superseded, expired, files, attested>>

\* The runner is not ready, or the process cannot be started.
StartFails ==
    /\ console.at = "starting"
    /\ console' = [Idle EXCEPT !.handoff = None, !.runs = @ + 1]
    /\ UNCHANGED <<runner, relayed, torn, processes, evidence>>

\* The user attests that the step is done; the button is there until the half hour is over.
ConfirmHandoff ==
    /\ console.at = "idle"
    /\ console.handoff # None
    /\ console.handoff \notin expired
    /\ console' = [console EXCEPT !.resume = console.handoff, !.handoff = None]
    /\ UNCHANGED <<runner, relayed, torn, processes, evidence>>

\* Expiry matters of the handoffs the console offers or a script is about to record.
HandoffExpires ==
    /\ \E handoff \in {console.handoff, console.resume, console.from, superseded.handoff} \ {None} :
        /\ handoff \notin expired
        /\ expired' = expired \cup {handoff}
    /\ UNCHANGED <<console, superseded, runner, relayed, torn, processes, files, attested, resumed>>

-----------------------------------------------------------------------------
(* The guarded agent, in the child *)

Alive == child.at \notin {"none", "exited", "failed"}

ChildAt(label) == child.at = label
Parent == UNCHANGED <<console, runner, relayed, torn, evidence>>

\* Faulty variant: typing into a field counts as moving about the page.
FillsAreCalls ==
    [message |-> "RESPONSE_GENERATED", fill |-> "TOOL_CALL", submit |-> "TOOL_CALL",
     click |-> "TOOL_CALL"]

\* A submit is a direct effect, or a click where the page speaks of one.  Only invalid
\* candidates are refused before they become an event.
ActionEvents ==
    [message |-> "RESPONSE_GENERATED", fill |-> "EXTERNAL_TRANSFER", submit |-> "TOOL_CALL",
     click |-> "TOOL_CALL"]

ActionEvent(candidate, sequence, object) ==
    LET type == ActionEvents[candidate.kind]
    IN  [LifecycleEvent(type, sequence) EXCEPT
            !.body = candidate.body, !.objects = {object}, !.introduces = object,
            !.recipient = "page",
            !.facts = [side_effectful |-> Truth(candidate.kind # "click"),
                       trust_boundary |-> Truth(type # "TOOL_CALL"),
                       recipient_type |-> IF type = "EXTERNAL_TRANSFER" THEN "external"
                                          ELSE "user"]]

GuardSequence ==
    (IF guard.sequence > guard.state.last_sequence THEN guard.sequence
     ELSE guard.state.last_sequence) + 1

\* The candidate of a verdict is what may be performed: the action as a repair left it.
Verdict(allowed, decision, handoff) ==
    [candidate |-> IF allowed THEN [child.candidate EXCEPT !.body = child.event.body] ELSE None,
     allowed |-> allowed, decision |-> decision, handoff |-> handoff]

\* What is no action of the action space is answered at once.
Proposes(candidate) ==
    IF candidate.kind \in DOMAIN ActionEvents
    THEN /\ guard' = [guard EXCEPT !.attempt = @ + 1, !.sequence = GuardSequence]
         /\ child' = [child EXCEPT
                !.at = "verify", !.candidate = candidate, !.repairs = 0, !.asked = @ + 1,
                !.event = ActionEvent(candidate, GuardSequence, <<"action", guard.attempt + 1>>)]
    ELSE /\ child' = [child EXCEPT !.at = "record", !.candidate = candidate, !.asked = @ + 1,
                                   !.verdict = Verdict(FALSE, "REPLAN", None)]
         /\ UNCHANGED guard

\* AWM proposes a candidate, any there is.
GetAction ==
    /\ ChildAt("observe")
    /\ \E candidate \in Candidates : Proposes(candidate)
    /\ UNCHANGED <<trace, written, performed>> /\ Parent

\* A pass of the harness.  A repair that is accepted but leaves no other browser action
\* does not allow the one that was proposed.
VerifyAction ==
    /\ ChildAt("verify")
    /\ LET v == Enforced(Policy, child.event, guard.state)
           repaired == Continues(child.event, v, child.repairs)
           outcome == Outcome(v)
           is_action == child.repairs = 0 \/ (Allowed(outcome)
                                                /\ child.event.body \notin {"stub", child.candidate.body})
           allowed == Allowed(outcome) /\ is_action
       IN  /\ guard' = [guard EXCEPT !.state = v.state]
           /\ \/ \E e \in repaired : child' = [child EXCEPT !.event = e, !.repairs = @ + 1]
              \/ /\ repaired = {}
                 /\ child' = [child EXCEPT
                        !.at = "record",
                        !.verdict = Verdict(allowed,
                            IF ~allowed /\ ~is_action THEN "REPLAN" ELSE outcome,
                            IF outcome \in {"REQUIRE_APPROVAL", "REQUIRE_CONSENT"}
                            THEN console.runs ELSE None)]
    /\ UNCHANGED <<trace, written, performed>> /\ Parent

RecordVerdict ==
    /\ ChildAt("record")
    /\ trace' = Append(trace, child.verdict)
    /\ written' = written + 1
    /\ child' = [child EXCEPT !.at = "flush"]
    /\ UNCHANGED <<guard, performed>> /\ Parent

FlushVerdict ==
    /\ ChildAt("flush")
    /\ written' = written + 1
    /\ child' = [child EXCEPT !.at = "answer"]
    /\ UNCHANGED <<guard, trace, performed>> /\ Parent

Step(status, candidate) == [status |-> status, candidate |-> candidate, line |-> Len(trace)]

\* Faulty variant: when the attempts are used up the last candidate is returned.
ReturnsCandidate(verdict) ==
    IF verdict.allowed THEN Step("ALLOWED", verdict.candidate)
    ELSE IF verdict.handoff # None THEN Step("WAITING_USER", None)
    ELSE Step("BLOCKED", child.candidate)

\* What the environment is given: the action, or a message of the guard in its place.
Answer(verdict) ==
    IF verdict.allowed THEN Step("ALLOWED", verdict.candidate)
    ELSE IF verdict.handoff # None THEN Step("WAITING_USER", None) ELSE Step("BLOCKED", None)

\* Faulty variant: counts the replans from one.
AsksOnceMore(verdict) ==
    ~verdict.allowed /\ verdict.handoff = None /\ child.asked <= MaxReplans + 1

\* AWM is asked again with the rejection as the last error.
Replans(verdict) ==
    ~verdict.allowed /\ verdict.handoff = None /\ child.asked <= MaxReplans

AnswerAction ==
    /\ ChildAt("answer")
    /\ IF Replans(child.verdict)
       THEN /\ child' = [child EXCEPT !.at = "observe"]
            /\ UNCHANGED performed
       ELSE /\ performed' = Append(performed, Answer(child.verdict))
            /\ child' = [child EXCEPT !.at = "stepped", !.steps = @ + 1]
    /\ UNCHANGED <<guard, trace, written>> /\ Parent

\* The environment goes on until its task is done or its steps are used up.
NextObservation ==
    /\ ChildAt("stepped")
    /\ \/ /\ child.steps < MaxSteps
          /\ child' = [child EXCEPT !.at = "observe", !.asked = 0, !.candidate = None,
                                    !.event = None, !.verdict = None, !.repairs = 0]
       \/ child' = [child EXCEPT !.at = "exited"]
    /\ UNCHANGED <<guard, trace, written, performed>> /\ Parent

\* The model, the audit log, the trace or the page fails: the process ends with a non-zero code.
ChildFails ==
    /\ child.at \in {"observe", "verify", "record", "stepped"}
    /\ child' = [child EXCEPT !.at = "failed"]
    /\ UNCHANGED <<guard, trace, written, performed>> /\ Parent

-----------------------------------------------------------------------------
(* The runner's poll loop *)

Polling(label) == runner.at = label /\ console.at = "running"

\* Faulty variant: the next read starts where this one did.
RereadsTrace(size) == runner.offset

\* Faulty variant: the next read starts behind the unit that is still to be written.
SkipsAhead(size) == size + 1

NextOffset(size) == size

\* The whole records of what a read returns; the two ends of a torn one are no JSON.
Whole(size) == (runner.offset + 1) \div 2 + 1 .. size \div 2
Partial(size) == {l \in DOMAIN trace : 2 * l - 1 = size /\ 2 * l - 2 >= runner.offset}

\* Records are numbered as they were written.
InOrder(first, last) == [i \in 1 .. last - first + 1 |-> first + i - 1]

ReadTrace ==
    /\ relayed' = relayed \o InOrder((runner.offset + 1) \div 2 + 1, written \div 2)
    /\ torn' = torn \cup Partial(written)
    /\ runner' = [runner EXCEPT !.offset = NextOffset(written)]

Poll ==
    /\ Polling("polling")
    /\ Alive
    /\ written > runner.offset
    /\ ReadTrace
    /\ UNCHANGED <<console, processes, evidence>>

\* The runner returns or raises, and nothing of the run goes on.
LeaveRun ==
    /\ runner' = NoRunner
    /\ child' = NoChild
    /\ guard' = FreshGuard
    /\ relayed' = <<>> /\ torn' = {} /\ trace' = <<>> /\ written' = 0 /\ performed' = <<>>

RunFailed == console' = [console EXCEPT !.at = "idle"]

\* Faulty variant: the loop has no deadline.
NeverTimesOut(alive) == FALSE

\* Time passes: the deadline may be reached whenever the child still runs.
PastDeadline(alive) == alive

\* The child is killed and waited for before the error is raised.
TimeOut ==
    /\ Polling("polling")
    /\ PastDeadline(Alive)
    /\ LeaveRun
    /\ RunFailed
    /\ UNCHANGED evidence

\* Faulty variant: an exception of the loop leaves the process alone.
LeavesChild(alive) == FALSE

TerminatesChild(alive) == alive

\* The callback raises (the script was interrupted while it drew), or a read ends within a
\* character: the child is told to terminate and goes on until it does.
PollRaises ==
    /\ Polling("polling")
    /\ Whole(written) # {} \/ (written % 2 = 1 /\ written > runner.offset)
    /\ IF TerminatesChild(Alive)
       THEN /\ runner' = [runner EXCEPT !.at = "terminating"]
            /\ UNCHANGED console
       ELSE /\ runner' = [runner EXCEPT !.at = "none"]
            /\ RunFailed
    /\ UNCHANGED <<relayed, torn, processes, evidence>>

\* It terminates, or is killed after ten seconds.
Reap ==
    /\ Polling("terminating")
    /\ LeaveRun
    /\ RunFailed
    /\ UNCHANGED evidence

\* Faulty variant: what was written since the last poll is left unread.
SkipsLastRead == UNCHANGED <<relayed, torn>> /\ runner' = runner

LastRead == ReadTrace

\* The child has ended: the rest of the trace is read, then its code is looked at.
ChildEnded ==
    /\ Polling("polling")
    /\ ~Alive
    /\ LastRead
    /\ console' = [console EXCEPT !.at = "ended"]
    /\ UNCHANGED <<processes, evidence>>

\* The handoff the console offers: the last one of the trace, wherever in the run it was.
PendingHandoff ==
    LET lines == {l \in DOMAIN trace : trace[l].handoff # None}
    IN  IF lines = {} THEN None
        ELSE trace[CHOOSE l \in lines : \A k \in lines : k <= l].handoff

CollectResult ==
    /\ console.at = "ended"
    /\ console' = [console EXCEPT !.at = "idle",
                                  !.handoff = IF child.at = "exited" THEN PendingHandoff
                                              ELSE None]
    /\ LeaveRun
    /\ UNCHANGED evidence

-----------------------------------------------------------------------------
(* Specification *)

Init ==
    /\ console = [at |-> "idle", resume |-> None, handoff |-> None, runs |-> 0,
                  from |-> None, late |-> FALSE]
    /\ superseded = NoScript
    /\ runner = NoRunner
    /\ relayed = <<>> /\ torn = {}
    /\ child = NoChild
    /\ guard = FreshGuard
    /\ trace = <<>> /\ written = 0 /\ performed = <<>>
    /\ expired = {} /\ files = {} /\ attested = <<>> /\ resumed = <<>>

Script == Launch \/ RecordCompletion \/ ForgetResume \/ StartRun \/ CollectResult
Runner == Poll \/ TimeOut \/ Reap \/ ChildEnded
Child ==
    \/ GetAction \/ VerifyAction \/ RecordVerdict \/ FlushVerdict
    \/ AnswerAction \/ NextObservation \/ ChildFails

Next ==
    \/ Script \/ ScriptInterrupted \/ StartFails \/ ConfirmHandoff \/ HandoffExpires
    \/ SupersededRecords \/ Supersede \/ ServerEnds
    \/ Runner \/ PollRaises
    \/ Child

\* The console's script and the runner's loop go on, and time passes.  The child may hang
\* and nobody has to press a button.
Fairness ==
    /\ WF_vars(Runner)
    /\ WF_vars(RecordCompletion \/ ForgetResume \/ StartRun \/ CollectResult)

Spec == Init /\ [][Next]_vars /\ Fairness

-----------------------------------------------------------------------------
(* What a run should guarantee *)

\* The types of the state of a run and of the two ends of its trace.
TypeOK ==
    /\ console.at \in {"idle", "recording", "checked", "writing", "recorded", "refused",
                       "starting", "running", "ended"}
    /\ console.runs \in 0 .. MaxRuns
    /\ console.late \in BOOLEAN
    /\ superseded.at \in {"none", "recording", "checked", "writing"}
    /\ runner.at \in {"none", "polling", "terminating"}
    /\ runner.offset \in 0 .. written
    /\ child.at \in {"none", "observe", "verify", "record", "flush", "answer", "stepped",
                     "exited", "failed"}
    /\ written \in {2 * Len(trace) - 1, 2 * Len(trace)}
    /\ child.steps = Len(performed)

\* Whatever the agent is asked again, and whatever handoff came before, the environment is
\* given no candidate but the one its own last record allows.
PerformedWasAllowed ==
    \A i \in DOMAIN performed :
        performed[i].candidate # None =>
            /\ performed[i].line \in DOMAIN trace
            /\ trace[performed[i].line].allowed
            /\ trace[performed[i].line].candidate = performed[i].candidate

\* The run's packages are what the loader makes of them, no two of their rules differ under
\* one id, and one of the bundled regulations is among them.
RegulatedRun ==
    /\ DOMAIN Loaded \subseteq Nat
    /\ \A p \in DOMAIN Loaded :
        /\ DOMAIN Loaded[p].rules \subseteq Nat
        /\ \A i \in DOMAIN Loaded[p].rules : ComplianceRule(Loaded[p].rules[i])
    /\ \A p, q \in DOMAIN Loaded : \A i \in DOMAIN Loaded[p].rules :
        \A j \in DOMAIN Loaded[q].rules :
            Loaded[p].rules[i].rule_id = Loaded[q].rules[j].rule_id
                => Loaded[p].rules[i] = Loaded[q].rules[j]
    /\ \E p \in DOMAIN Loaded : Loaded[p] = GDPR \/ Loaded[p] = PIPL

\* Under the run's regulations nothing that holds personal data is filled in or said, however
\* often its repair, the agent or the console tries again.
NothingPersonalPerformed ==
    \A i \in DOMAIN performed :
        (performed[i].candidate # None /\ performed[i].candidate.kind \in {"fill", "message"})
            => Classification(performed[i].candidate.body)[Personal] # "true"

\* One step of the environment asks the agent at most max_replans times again.
AskedAtMost == child.asked <= MaxReplans + 1

\* The console is told of each verdict at most once, in the order of the trace, and only
\* when its record is whole.
RelayedInOrder ==
    /\ \A i, j \in DOMAIN relayed : i < j => relayed[i] < relayed[j]
    /\ \A i \in DOMAIN relayed : 2 * relayed[i] <= written

\* When the child has ended, every record of its trace was relayed, but for those of which a
\* poll had read a part.
RelayIsComplete ==
    console.at = "ended" =>
        \A l \in DOMAIN trace : l \in torn \/ \E i \in DOMAIN relayed : relayed[i] = l

\* However many scripts record at once, and whatever fails or ends on the way, a handoff is
\* attested at most once.
UsedOnce == \A i, j \in DOMAIN attested : attested[i] = attested[j] => i = j

\* A run goes on from a handoff only with its completion on file in full, only if the half
\* hour was not over when the script began, and no second run from the same one: not where
\* recording fails, is superseded, or the server ends within it.
ResumedOnEvidence ==
    /\ \A i \in DOMAIN resumed :
        /\ \E k \in DOMAIN attested : attested[k] = resumed[i].handoff
        /\ ~resumed[i].late
    /\ \A i, j \in DOMAIN resumed : resumed[i].handoff = resumed[j].handoff => i = j

\* Once the console is no longer running, no child goes on acting on the page: not after a
\* timeout, an interrupted script or an unreadable trace.
NoOrphan == console.at # "running" => ~Alive

\* Every run comes back to the console, even if its child hangs.
RunEnds == console.at = "running" ~> console.at = "idle"
=============================================================================
