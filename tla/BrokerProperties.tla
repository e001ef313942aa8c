-------------------------- MODULE BrokerProperties --------------------------
(***************************************************************************)
(* What CapabilityBroker should guarantee.  Some properties hold of every  *)
(* deployment, whatever processes share the database; some need resumes to *)
(* be quiet (resume_authorized takes no lock: one that overlaps another    *)
(* call on its transaction saves over it); the others need the deployment  *)
(* docs/threat_model.md assumes ("sequential broker handling").            *)
(***************************************************************************)
EXTENDS CapabilityBroker

\* An AUTHORIZED transaction is resumed only while no call is under way.
QuietResumes ==
    \A p \in Process : "resume" \notin Offered[p] /\ "quiet_resume" \in Offered[p]

\* One broker process; nothing else opens its database while it runs.
SoleBroker ==
    /\ \A p, q \in Process : p = q
    /\ ~Observed
    /\ QuietResumes

Ran(t) == ran[t] > 0

\* Worker w is between the save of EXECUTING and the end of the call.
Executing(w) == pc[w] \in Guarded \cup {"fail"}

-----------------------------------------------------------------------------
(* Properties of every deployment.                                         *)

\* A side effect answered as SUCCEEDED has its row in the effects table, so a retry is
\* replayed and not executed: Settle comes after Persist on every path, and no write of
\* another process (blind upserts, recovery) can make a row SUCCEEDED.
SucceededIsCommitted ==
    \A t \in TransactionId :
        (Status(t) = "SUCCEEDED" /\ SideEffect(transactions[t].effect_id))
            => effects[transactions[t].effect_id] # None

\* A row of the effects table names a transaction whose backend did run: a replay never
\* answers for an effect that did not happen.
CommittedWasPerformed ==
    \A e \in EffectId : effects[e] # None => Ran(effects[e])

-----------------------------------------------------------------------------
(* Properties of every deployment with quiet resumes.                      *)

\* A paused transaction leaves WAITING_APPROVAL only once a human decision about it is
\* stored (approve and deny insert the approval row before they save the transaction).
HeldReleasedOnlyByDecision ==
    [][\A t \in TransactionId :
        (Status(t) = "WAITING_APPROVAL" /\ Status(t)' # "WAITING_APPROVAL")
            => \E a \in approvals : a.transaction_id = t]_vars

\* However approve and deny race in different processes, a transaction that a human denied
\* and nobody approved never reaches a backend.
DeniedNeverRuns ==
    \A t \in TransactionId :
        (\E a \in approvals : a.transaction_id = t /\ a.decision = "DENIED")
        /\ (\A a \in approvals : a.transaction_id = t => a.decision = "DENIED")
            => ~Ran(t)

-----------------------------------------------------------------------------
(* Properties of a sole broker.                                            *)

\* A transaction that is not past AUTHORIZED, was blocked, was replaced by a repair or
\* waits for a human has reached no backend, whatever crashed or raised before.
HeldBeforeEffect ==
    \A t \in TransactionId :
        Status(t) \in {"ABSENT", "CREATED", "CHECKING", "BLOCKED", "WAITING_APPROVAL",
                       "AUTHORIZED"} => ~Ran(t)

\* No sequence of approvals, resumes, crashes and recoveries runs the backend twice on
\* behalf of one transaction.
AtMostOncePerTransaction == \A t \in TransactionId : ran[t] <= 1

\* approve or resume sent this transaction, or the one it repairs, back to verification.
Reentered(t) ==
    \/ t \in reentered
    \/ transactions[t] # None /\ transactions[t].repair_parent \in reentered

\* An effect that is already committed is executed again only on behalf of a transaction
\* that approve or resume sent back: handle's lookup protects every other path.
CommittedRepeatedOnlyOnReentry ==
    [][\A t \in TransactionId :
        (ran'[t] > ran[t] /\ effects[transactions[t].effect_id] # None) => Reentered(t)]_vars

\* Two transactions of one effect both executed and both SUCCEEDED only if a human or an
\* operator sent one of them back: a repetition that a crash or an exception caused always
\* shows as a row that is not SUCCEEDED.
RepetitionIsVisible ==
    \A t, u \in TransactionId :
        (/\ t # u
         /\ Status(t) = "SUCCEEDED" /\ Status(u) = "SUCCEEDED"
         /\ transactions[t].effect_id = transactions[u].effect_id
         /\ SideEffect(transactions[t].effect_id)) => Reentered(t) \/ Reentered(u)

\* A repair child stands for exactly one original: closed as BLOCKED/REPAIR, of the same
\* effect, never executed itself, and with no other child.
RepairClosesParent ==
    \A c \in TransactionId :
        (transactions[c] # None /\ transactions[c].repair_parent # None) =>
            LET p == transactions[c].repair_parent IN
            /\ Status(p) = "BLOCKED"
            /\ transactions[p].decision = "REPAIR"
            /\ transactions[p].effect_id = transactions[c].effect_id
            /\ ~Ran(p)
            /\ \A d \in TransactionId \ {c} :
                transactions[d] # None => transactions[d].repair_parent # p

\* While the broker is up, an EXECUTING row has a live call behind it, unless an exception
\* kept the call from saving its outcome: restart leaves no uncertain row unmarked.
ExecutingIsAttended ==
    \A t \in TransactionId :
        (Status(t) = "EXECUTING" /\ (\E p \in Process : up[p]) /\ errors = 0) =>
            \E w \in Worker : current[w] = t /\ Executing(w)

\* The broker implements the abstract lifecycle of a transaction.
Lifecycle == INSTANCE EffectLifecycle WITH
    status <- [t \in TransactionId |-> Status(t)],
    runs <- ran
ImplementsLifecycle == Lifecycle!Spec

-----------------------------------------------------------------------------
(* Progress.                                                               *)

Underway == {"CREATED", "CHECKING", "AUTHORIZED", "EXECUTING"}

\* Every transaction comes to rest, settled, blocked or with a human, unless the process
\* that was working on it ended: nothing picks up a CREATED or CHECKING row again.
EveryCallSettles ==
    \A t \in TransactionId :
        Status(t) \in Underway ~> (Status(t) \notin Underway \/ terminations > 0)

\* An execution cut off by the end of its process does not stay EXECUTING for ever.
NoExecutionIsLost ==
    \A t \in TransactionId : Status(t) = "EXECUTING" ~> Status(t) # "EXECUTING"

-----------------------------------------------------------------------------
(* What the documentation says and the code does not do.                   *)

\* docs/architecture.md, runtime invariant 6: "A successful effect_id is not executed
\* again in this store."
SuccessfulEffectNotRepeated ==
    [][\A t \in TransactionId :
        ran'[t] > ran[t] => effects[transactions[t].effect_id] = None]_vars

\* docs/architecture.md, "Transaction state machine": EXECUTING becomes
\* REQUIRE_HUMAN_REVIEW "observed at startup", when a crash left the outcome unknown.
ReviewOnlyAfterInterruption ==
    [][\A t \in TransactionId :
        (Status(t) = "EXECUTING" /\ Status(t)' = "REQUIRE_HUMAN_REVIEW")
            => ~\E w \in Worker : current[w] = t /\ Executing(w)]_vars

\* docs/architecture.md, "Transaction state machine": SUCCEEDED has no outgoing edge.
SucceededIsFinal ==
    [][\A t \in TransactionId :
        Status(t) = "SUCCEEDED" => Status(t)' = "SUCCEEDED"]_vars
=============================================================================
