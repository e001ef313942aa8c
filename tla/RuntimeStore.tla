---------------------------- MODULE RuntimeStore ----------------------------
(***************************************************************************)
(* The durable state of one AgentShield deployment: the SQLite tables that *)
(* effects/store.py keeps (transactions, effects, approvals) and the       *)
(* statements that change them.  Every operator below is one committed     *)
(* SQL statement, hence one atomic change.                                 *)
(*                                                                         *)
(* Data is cut down to what the properties distinguish.  A row of          *)
(* `transactions' keeps the effect it stands for, its status, the policy   *)
(* decision and the parent it repairs; arguments, timestamps, rule lists   *)
(* and error texts are left out.  A row of `effects' keeps the transaction *)
(* that last wrote it (its status column only ever holds SUCCEEDED).       *)
(* The audit table is not kept: no code path reads it back.                *)
(*                                                                         *)
(* ForgetfulLookup, DroppedEffect, DroppedApproval, SkippedRecovery and    *)
(* RecoveryToWaiting are faulty variants of the definition that follows    *)
(* them, there to see that a property notices them; no action uses them.   *)
(***************************************************************************)
EXTENDS Naturals

CONSTANTS
    TransactionId,   \* ids uuid4 may hand out
    EffectId,        \* idempotency keys clients use
    None             \* absent row, no reference

VARIABLES
    transactions,    \* TransactionId -> row of the transactions table, or None
    effects,         \* EffectId -> id of the transaction whose effect is stored, or None
    approvals        \* rows of the approvals table

store == <<transactions, effects, approvals>>

EffectStatus == {"CREATED", "CHECKING", "BLOCKED", "WAITING_APPROVAL", "AUTHORIZED",
                 "EXECUTING", "SUCCEEDED", "FAILED", "REQUIRE_HUMAN_REVIEW"}

\* REQUIRE_CONSENT pauses a call exactly as REQUIRE_APPROVAL does and is not told apart.
Decision == {"PENDING", "ALLOW", "BLOCK", "REPAIR", "REQUIRE_APPROVAL", "DENIED"}

EffectTransaction == [effect_id : EffectId, status : EffectStatus, decision : Decision,
                      repair_parent : TransactionId \cup {None}]

\* None is the NULL of a column and the absence of a row.
ASSUME NoneIsFresh == None \notin TransactionId \cup EffectTransaction

Approval == [transaction_id : TransactionId, decision : {"APPROVED", "DENIED"}]

StoreTypeOK ==
    /\ transactions \in [TransactionId -> EffectTransaction \cup {None}]
    /\ effects \in [EffectId -> TransactionId \cup {None}]
    /\ approvals \subseteq Approval

StoreInit ==
    /\ transactions = [t \in TransactionId |-> None]
    /\ effects = [e \in EffectId |-> None]
    /\ approvals = {}

Status(t) == IF transactions[t] = None THEN "ABSENT" ELSE transactions[t].status

\* The fresh row TransactionManager.create builds in memory.
create(e) == [effect_id |-> e, status |-> "CREATED", decision |-> "PENDING",
              repair_parent |-> None]

-----------------------------------------------------------------------------
(* Upsert of a whole row from the caller's copy: nothing compares it with  *)
(* what the table holds.                                                   *)
save_transaction(t, row) == transactions' = [transactions EXCEPT ![t] = row]

\* The effect already stored for e, if any, as the idempotency lookup sees it.
ForgetfulLookup(e) == None
get_succeeded_effect(e) == effects[e]

DroppedEffect(e, t) == UNCHANGED effects
save_effect(e, t) == effects' = [effects EXCEPT ![e] = t]

DroppedApproval(t, decision) == UNCHANGED approvals
save_approval(t, decision) ==
    approvals' = approvals \cup {[transaction_id |-> t, decision |-> decision]}

(* Run by the constructor of every store object, whoever opens it.         *)
SkippedRecovery == UNCHANGED transactions
RecoveryToWaiting ==
    transactions' = [t \in TransactionId |->
        IF Status(t) = "EXECUTING"
        THEN [transactions[t] EXCEPT !.status = "WAITING_APPROVAL"]
        ELSE transactions[t]]
recover_uncertain_executions ==
    transactions' = [t \in TransactionId |->
        IF Status(t) = "EXECUTING"
        THEN [transactions[t] EXCEPT !.status = "REQUIRE_HUMAN_REVIEW"]
        ELSE transactions[t]]
=============================================================================
