---------------------------- MODULE BrokerProofs ----------------------------
(***************************************************************************)
(* Theorems about CapabilityBroker, for every value of its constants.      *)
(***************************************************************************)
EXTENDS BrokerProperties, TLAPS

-----------------------------------------------------------------------------
(* Calls and rows: the invariant the type invariant rests on.              *)

CallTypeOK ==
    /\ lock \in [Process -> Worker \cup {None}]
    /\ pc \in [Worker -> Label]
    /\ current \in [Worker -> TransactionId \cup {None}]
    /\ row \in [Worker -> EffectTransaction \cup {None}]

\* t is a stored transaction of the same effect as copy.
Stands(t, copy) ==
    /\ t \in TransactionId
    /\ copy \in EffectTransaction
    /\ transactions[t] # None
    /\ transactions[t].effect_id = copy.effect_id

\* A call under way holds a copy of a stored row.
CallOK == \A w \in Worker : pc[w] # "idle" => Stands(current[w], row[w])

CallInv == TypeOK /\ CallOK

\* Rows are never deleted and never change their effect.
RowsKept ==
    \A t \in TransactionId : transactions[t] # None =>
        transactions'[t] # None /\ transactions'[t].effect_id = transactions[t].effect_id

\* An absent row and the pseudo-status ABSENT are the same thing.
LEMMA AbsentRow ==
    ASSUME StoreTypeOK, NEW t \in TransactionId
    PROVE  /\ Status(t) = "ABSENT" <=> transactions[t] = None
           /\ transactions[t] # None => /\ transactions[t] \in EffectTransaction
                                        /\ Status(t) = transactions[t].status
BY NoneIsFresh DEF StoreTypeOK, Status, EffectTransaction, EffectStatus

\* An upsert that keeps the effect of the row it overwrites.
LEMMA SaveKeepsRows ==
    ASSUME StoreTypeOK, NEW t \in TransactionId, NEW copy \in EffectTransaction,
           save_transaction(t, copy),
           transactions[t] # None => transactions[t].effect_id = copy.effect_id
    PROVE  /\ transactions' \in [TransactionId -> EffectTransaction \cup {None}]
           /\ RowsKept
           /\ transactions'[t] = copy /\ copy # None
BY NoneIsFresh DEF StoreTypeOK, save_transaction, RowsKept

\* The recovery of the store's constructor.
LEMMA RecoveryKeepsRows ==
    ASSUME StoreTypeOK, recover_uncertain_executions
    PROVE  /\ transactions' \in [TransactionId -> EffectTransaction \cup {None}]
           /\ RowsKept
<1>1. ASSUME NEW t \in TransactionId
      PROVE  /\ transactions'[t] \in EffectTransaction \cup {None}
             /\ transactions[t] # None =>
                    /\ transactions'[t] # None
                    /\ transactions'[t].effect_id = transactions[t].effect_id
  <2>1. CASE Status(t) = "EXECUTING"
    <3>1. transactions[t] \in EffectTransaction
      BY <2>1, AbsentRow
    <3>2. transactions'[t] = [transactions[t] EXCEPT !.status = "REQUIRE_HUMAN_REVIEW"]
      BY <2>1 DEF recover_uncertain_executions
    <3> QED BY <3>1, <3>2, NoneIsFresh DEF EffectTransaction, EffectStatus
  <2>2. CASE Status(t) # "EXECUTING"
    BY <2>2 DEF recover_uncertain_executions, StoreTypeOK
  <2> QED BY <2>1, <2>2
<1> QED BY <1>1 DEF recover_uncertain_executions, RowsKept

\* A worker that goes on with a stored row, or returns.
LEMMA ContinueKeepsCalls ==
    ASSUME CallInv, RowsKept, NEW w \in Worker, NEW label \in Label,
           NEW t \in TransactionId \cup {None}, NEW copy \in EffectTransaction \cup {None},
           Continue(w, label, t, copy),
           label # "idle" => Stands(t, copy)'
    PROVE  /\ pc' \in [Worker -> Label]
           /\ current' \in [Worker -> TransactionId \cup {None}]
           /\ row' \in [Worker -> EffectTransaction \cup {None}]
           /\ CallOK'
<1>1. /\ pc' \in [Worker -> Label]
      /\ current' \in [Worker -> TransactionId \cup {None}]
      /\ row' \in [Worker -> EffectTransaction \cup {None}]
  BY DEF CallInv, TypeOK, Continue
<1>2. ASSUME NEW v \in Worker, pc'[v] # "idle"
      PROVE  Stands(current[v], row[v])'
  <2>1. CASE v = w
    BY <1>2, <2>1 DEF CallInv, TypeOK, Continue, Stands
  <2>2. CASE v # w
    <3>1. pc'[v] = pc[v] /\ current'[v] = current[v] /\ row'[v] = row[v]
      BY <2>2 DEF CallInv, TypeOK, Continue
    <3>2. Stands(current[v], row[v])
      BY <1>2, <3>1 DEF CallInv, CallOK
    <3> QED BY <3>1, <3>2 DEF Stands, RowsKept
  <2> QED BY <2>1, <2>2
<1> QED BY <1>1, <1>2 DEF CallOK

\* A save that the call goes on from.
LEMMA SaveThenKeepsCalls ==
    ASSUME CallInv, NEW w \in Worker, pc[w] # "idle", NEW label \in Label,
           NEW copy \in EffectTransaction, copy.effect_id = row[w].effect_id,
           SaveThen(w, copy, label)
    PROVE  /\ transactions' \in [TransactionId -> EffectTransaction \cup {None}]
           /\ CallTypeOK'
           /\ CallOK'
<1>1. Stands(current[w], row[w])
  BY DEF CallInv, CallOK
<1>2. /\ transactions' \in [TransactionId -> EffectTransaction \cup {None}]
      /\ RowsKept
      /\ Stands(current[w], copy)'
  BY <1>1, SaveKeepsRows DEF CallInv, TypeOK, SaveThen, Stands, Continue
<1> QED
  BY <1>1, <1>2, ContinueKeepsCalls DEF SaveThen, Stands, Continue, CallTypeOK, CallInv, TypeOK

\* The end of a call, with or without a save.
LEMMA ReturnKeepsCalls ==
    ASSUME CallInv, RowsKept, NEW w \in Worker, Return(w)
    PROVE  CallTypeOK' /\ CallOK'
<1>1. "idle" \in Label
  BY DEF Label
<1>2. lock' \in [Process -> Worker \cup {None}]
  BY DEF Return, CallInv, TypeOK
<1> QED
  BY <1>1, <1>2, ContinueKeepsCalls DEF Return, CallTypeOK

LEMMA SaveAndReturnKeepsCalls ==
    ASSUME CallInv, NEW w \in Worker, pc[w] # "idle",
           NEW copy \in EffectTransaction, copy.effect_id = row[w].effect_id,
           SaveAndReturn(w, copy)
    PROVE  /\ transactions' \in [TransactionId -> EffectTransaction \cup {None}]
           /\ CallTypeOK'
           /\ CallOK'
<1>1. Stands(current[w], row[w])
  BY DEF CallInv, CallOK
<1>2. /\ transactions' \in [TransactionId -> EffectTransaction \cup {None}]
      /\ RowsKept
  BY <1>1, SaveKeepsRows DEF CallInv, TypeOK, SaveAndReturn, Stands
<1> QED
  BY <1>2, ReturnKeepsCalls DEF SaveAndReturn

\* A step that only moves the call on.
LEMMA MoveKeepsCalls ==
    ASSUME CallInv, NEW w \in Worker, pc[w] # "idle", NEW label \in Label,
           Continue(w, label, current[w], row[w]), UNCHANGED <<transactions, lock>>
    PROVE  /\ transactions' \in [TransactionId -> EffectTransaction \cup {None}]
           /\ CallTypeOK'
           /\ CallOK'
<1>1. PICK t, copy : /\ t = current[w] /\ copy = row[w]
                     /\ Continue(w, label, t, copy)
  OBVIOUS
<1>2. Stands(t, copy)
  BY <1>1 DEF CallInv, CallOK
<1>3. Stands(t, copy)' /\ RowsKept
  BY <1>2 DEF Stands, RowsKept
<1> QED
  BY <1>1, <1>2, <1>3, ContinueKeepsCalls DEF Stands, CallTypeOK, CallInv, TypeOK, StoreTypeOK

\* EffectTransaction.update keeps the shape and the effect of the row.
LEMMA UpdatedCopy ==
    ASSUME CallInv, NEW w \in Worker, pc[w] # "idle",
           NEW status \in EffectStatus, NEW decision \in Decision
    PROVE  /\ Update(w, status, decision) \in EffectTransaction
           /\ Update(w, status, decision).effect_id = row[w].effect_id
           /\ Update(w, status, decision).status = status
           /\ row[w].decision \in Decision
           /\ row[w] \in EffectTransaction
           /\ current[w] \in TransactionId
           /\ row[w].effect_id \in EffectId
<1>1. Stands(current[w], row[w])
  BY DEF CallInv, CallOK
<1> QED
  BY <1>1 DEF Stands, Update, EffectTransaction

LEMMA UpdatedStatus ==
    ASSUME CallInv, NEW w \in Worker, pc[w] # "idle", NEW status \in EffectStatus
    PROVE  /\ Update(w, status, row[w].decision) \in EffectTransaction
           /\ Update(w, status, row[w].decision).effect_id = row[w].effect_id
           /\ Update(w, status, row[w].decision).status = status
<1>1. row[w].decision \in Decision
  BY DEF CallInv, CallOK, Stands, EffectTransaction
<1> QED BY <1>1, UpdatedCopy

-----------------------------------------------------------------------------
(* Every action keeps the type invariant and the calls' rows.              *)

TransactionsTypeOK == transactions \in [TransactionId -> EffectTransaction \cup {None}]

RestTypeOK ==
    /\ effects \in [EffectId -> TransactionId \cup {None}]
    /\ approvals \subseteq Approval
    /\ up \in [Process -> BOOLEAN]
    /\ decisions \in 0 .. MaxDecisions
    /\ terminations \in 0 .. MaxTerminations
    /\ errors \in 0 .. MaxErrors
    /\ ran \in [TransactionId -> Nat]
    /\ reentered \subseteq TransactionId

LEMMA RestUnchanged ==
    ASSUME CallInv, UNCHANGED <<effects, approvals, up, bounds, history>>
    PROVE  RestTypeOK'
BY DEF CallInv, TypeOK, StoreTypeOK, RestTypeOK, bounds, history

LEMMA StepKeepsCalls ==
    ASSUME CallInv, NEW w \in Worker, Step(w)
    PROVE  CallInv'
<1> SUFFICES TransactionsTypeOK' /\ CallTypeOK' /\ CallOK' /\ RestTypeOK'
  BY DEF CallInv, TypeOK, StoreTypeOK, TransactionsTypeOK, CallTypeOK, RestTypeOK
<1> USE DEF TransactionsTypeOK
<1>1. CASE Check(w)
  <2>1. RestTypeOK'
    BY <1>1, RestUnchanged DEF Check
  <2> QED
    BY <1>1, <2>1, UpdatedStatus, SaveThenKeepsCalls DEF Check, Label, EffectStatus
<1>2. CASE StopTool(w)
  <2>1. RestTypeOK'
    BY <1>2, RestUnchanged DEF StopTool
  <2> QED
    BY <1>2, <2>1, UpdatedCopy, SaveAndReturnKeepsCalls DEF StopTool, EffectStatus, Decision
<1>3. CASE StopResponse(w)
  BY <1>3, UpdatedCopy, SaveAndReturnKeepsCalls, RestUnchanged
  DEF StopResponse, EffectStatus, Decision
<1>4. CASE UnregisteredTool(w)
  BY <1>4, ReturnKeepsCalls, RestUnchanged
  DEF UnregisteredTool, RowsKept, store, CallInv, TypeOK, StoreTypeOK
<1>5. CASE Authorize(w)
  BY <1>5, UpdatedCopy, SaveThenKeepsCalls, RestUnchanged
  DEF Authorize, Label, EffectStatus, Decision
<1>6. CASE RepairParent(w)
  BY <1>6, UpdatedCopy, SaveThenKeepsCalls, RestUnchanged
  DEF RepairParent, CloseRepaired, Label, EffectStatus, Decision
<1>7. CASE RepairChild(w)
  <2>1. PICK t \in TransactionId, copy \in {Child(w)} :
          /\ Status(t) = "ABSENT"
          /\ save_transaction(t, copy)
          /\ Continue(w, "execute", t, copy)
    BY <1>7 DEF RepairChild
  <2>2. Stands(current[w], row[w])
    BY <1>7 DEF RepairChild, CallInv, CallOK
  <2>3. copy \in EffectTransaction
    BY <2>1, <2>2 DEF Child, Stands, EffectTransaction, EffectStatus, Decision
  <2>4. StoreTypeOK /\ transactions[t] = None
    BY <2>1, AbsentRow DEF CallInv, TypeOK
  <2>5. TransactionsTypeOK' /\ RowsKept /\ Stands(t, copy)'
    BY <2>1, <2>3, <2>4, SaveKeepsRows DEF Stands
  <2>6. UNCHANGED lock /\ lock \in [Process -> Worker \cup {None}]
    BY <1>7 DEF RepairChild, CallInv, TypeOK
  <2>7. RestTypeOK'
    BY <1>7, RestUnchanged DEF RepairChild
  <2> QED
    BY <2>1, <2>3, <2>5, <2>6, <2>7, ContinueKeepsCalls DEF CallTypeOK, Label
<1>8. CASE Execute(w)
  BY <1>8, UpdatedStatus, SaveThenKeepsCalls, RestUnchanged
  DEF Execute, Label, EffectStatus
<1>9. CASE GatewayCheck(w)
  <2>1. PICK label \in Label : Continue(w, label, current[w], row[w])
    BY <1>9 DEF GatewayCheck, Label
  <2> QED
    BY <1>9, <2>1, MoveKeepsCalls, RestUnchanged DEF GatewayCheck, store
<1>10. CASE Backend(w)
  <2>1. PICK label \in Label : Continue(w, label, current[w], row[w])
    BY <1>10 DEF Backend, Label
  <2>2. ran' \in [TransactionId -> Nat]
    BY <1>10, UpdatedCopy DEF Backend, CallInv, TypeOK
  <2>3. RestTypeOK'
    BY <1>10, <2>2 DEF Backend, store, bounds, RestTypeOK, CallInv, TypeOK, StoreTypeOK
  <2> QED
    BY <1>10, <2>1, <2>3, MoveKeepsCalls DEF Backend, store
<1>11. CASE Persist(w)
  <2>1. Stands(current[w], row[w])
    BY <1>11 DEF Persist, CallInv, CallOK
  <2>2. effects' \in [EffectId -> TransactionId \cup {None}]
    BY <1>11, <2>1 DEF Persist, save_effect, CallInv, TypeOK, StoreTypeOK, Stands
  <2>3. RestTypeOK'
    BY <1>11, <2>2 DEF Persist, bounds, history, RestTypeOK, CallInv, TypeOK, StoreTypeOK
  <2> QED
    BY <1>11, <2>3, MoveKeepsCalls DEF Persist, Label
<1>12. CASE Settle(w)
  BY <1>12, UpdatedStatus, SaveThenKeepsCalls, RestUnchanged
  DEF Settle, Label, EffectStatus
<1>13. CASE Report(w)
  BY <1>13, ReturnKeepsCalls, RestUnchanged
  DEF Report, RowsKept, store, CallInv, TypeOK, StoreTypeOK
<1>14. CASE Fail(w)
  BY <1>14, UpdatedStatus, SaveAndReturnKeepsCalls, RestUnchanged DEF Fail, EffectStatus
<1>15. CASE BlockDenied(w)
  BY <1>15, UpdatedCopy, SaveAndReturnKeepsCalls, RestUnchanged
  DEF BlockDenied, EffectStatus, Decision
<1>16. CASE Recheck(w)
  <2>1. Stands(current[w], row[w])
    BY <1>16 DEF Recheck, CallInv, CallOK
  <2>2. RestTypeOK'
    BY <1>16, <2>1 DEF Recheck, Stands, bounds, RestTypeOK, CallInv, TypeOK, StoreTypeOK
  <2> QED
    BY <1>16, <2>2, UpdatedStatus, SaveThenKeepsCalls DEF Recheck, Label, EffectStatus
<1> QED
  BY <1>1, <1>2, <1>3, <1>4, <1>5, <1>6, <1>7, <1>8, <1>9, <1>10, <1>11, <1>12, <1>13,
     <1>14, <1>15, <1>16
  DEF Step

\* A call that begins with a row it has read.
LEMMA BeginKeepsCalls ==
    ASSUME CallInv, NEW w \in Worker, NEW t \in TransactionId, NEW label \in Label,
           transactions[t] # None, Continue(w, label, t, transactions[t]),
           UNCHANGED transactions, UNCHANGED lock \/ Acquire(w)
    PROVE  TransactionsTypeOK' /\ CallTypeOK' /\ CallOK'
<1>1. PICK copy : copy = transactions[t] /\ Continue(w, label, t, copy)
  OBVIOUS
<1>2. Stands(t, copy)' /\ copy \in EffectTransaction
  BY <1>1 DEF Stands, CallInv, TypeOK, StoreTypeOK
<1>3. RowsKept /\ lock' \in [Process -> Worker \cup {None}]
  BY ConstantsOK DEF RowsKept, Acquire, CallInv, TypeOK
<1>4. TransactionsTypeOK'
  BY DEF TransactionsTypeOK, CallInv, TypeOK, StoreTypeOK
<1> QED
  BY <1>1, <1>2, <1>3, <1>4, ContinueKeepsCalls DEF CallTypeOK

\* approve and deny.
LEMMA DecisionKeepsCalls ==
    ASSUME CallInv, NEW w \in Worker, NEW t \in TransactionId, NEW label \in Label,
           NEW d \in {"APPROVED", "DENIED"},
           Acquire(w), Decide(t, d), Continue(w, label, t, transactions[t]),
           UNCHANGED <<transactions, effects, up, terminations, errors, history>>
    PROVE  CallInv'
<1>1. transactions[t] # None
  BY AbsentRow DEF Decide, AwaitsDecision, CallInv, TypeOK
<1>2. TransactionsTypeOK' /\ CallTypeOK' /\ CallOK'
  BY <1>1, BeginKeepsCalls
<1>3. approvals' \subseteq Approval
  BY DEF Decide, save_approval, Approval, CallInv, TypeOK, StoreTypeOK
<1>4. decisions' \in 0 .. MaxDecisions
  BY ConstantsOK DEF Decide, CallInv, TypeOK
<1> QED
  BY <1>2, <1>3, <1>4
  DEF CallInv, TypeOK, StoreTypeOK, TransactionsTypeOK, CallTypeOK, history

LEMMA RequestKeepsCalls ==
    ASSUME CallInv, NEW w \in Worker, Request(w)
    PROVE  CallInv'
<1>1. ASSUME NEW e \in EffectId, Replay(w, e)
      PROVE  CallInv'
  BY <1>1
  DEF Replay, vars, store, call, bounds, history, CallInv, TypeOK, StoreTypeOK, CallOK, Stands
<1>2. ASSUME NEW e \in EffectId, Handle(w, e)
      PROVE  CallInv'
  <2>1. PICK t \in TransactionId, copy \in {create(e)} :
          /\ Status(t) = "ABSENT"
          /\ save_transaction(t, copy)
          /\ Continue(w, "checking", t, copy)
    BY <1>2 DEF Handle
  <2>2. copy \in EffectTransaction
    BY <2>1 DEF create, EffectTransaction, EffectStatus, Decision
  <2>3. StoreTypeOK /\ transactions[t] = None
    BY <2>1, AbsentRow DEF CallInv, TypeOK
  <2>4. TransactionsTypeOK' /\ RowsKept /\ Stands(t, copy)'
    BY <2>1, <2>2, <2>3, SaveKeepsRows DEF Stands, TransactionsTypeOK
  <2>5. lock' \in [Process -> Worker \cup {None}]
    BY <1>2 DEF Handle, Acquire, CallInv, TypeOK
  <2>6. CallTypeOK' /\ CallOK'
    BY <2>1, <2>2, <2>4, <2>5, ContinueKeepsCalls DEF CallTypeOK, Label
  <2>7. RestTypeOK'
    BY <1>2, RestUnchanged DEF Handle
  <2> QED
    BY <2>4, <2>6, <2>7
    DEF CallInv, TypeOK, StoreTypeOK, TransactionsTypeOK, CallTypeOK, RestTypeOK
<1>3. ASSUME NEW t \in TransactionId, Approve(w, t)
      PROVE  CallInv'
  BY <1>3, DecisionKeepsCalls DEF Approve, Label
<1>4. ASSUME NEW t \in TransactionId, Deny(w, t)
      PROVE  CallInv'
  BY <1>4, DecisionKeepsCalls DEF Deny, Label
<1>5. ASSUME NEW t \in TransactionId, Resume(w, t)
      PROVE  CallInv'
  <2>1. transactions[t] # None
    BY <1>5, AbsentRow DEF Resume, CallInv, TypeOK
  <2>2. TransactionsTypeOK' /\ CallTypeOK' /\ CallOK'
    BY <1>5, <2>1, BeginKeepsCalls DEF Resume, store, Label
  <2>3. RestTypeOK'
    BY <1>5, RestUnchanged DEF Resume, store
  <2> QED
    BY <2>2, <2>3
    DEF CallInv, TypeOK, StoreTypeOK, TransactionsTypeOK, CallTypeOK, RestTypeOK
<1> QED
  BY <1>1, <1>2, <1>3, <1>4, <1>5 DEF Request

LEMMA RaiseKeepsCalls ==
    ASSUME CallInv, NEW w \in Worker, Raise(w)
    PROVE  CallInv'
<1>1. errors' \in 0 .. MaxErrors
  BY ConstantsOK DEF Raise, CallInv, TypeOK
<1>2. RestTypeOK'
  BY <1>1 DEF Raise, store, history, RestTypeOK, CallInv, TypeOK, StoreTypeOK
<1>3. TransactionsTypeOK' /\ RowsKept
  BY DEF Raise, store, TransactionsTypeOK, RowsKept, CallInv, TypeOK, StoreTypeOK
<1>4. CallTypeOK' /\ CallOK'
  <2>1. CASE pc[w] \in Guarded
    BY <2>1, MoveKeepsCalls DEF Raise, store, Label
  <2>2. CASE pc[w] \notin Guarded
    BY <2>2, <1>3, ReturnKeepsCalls DEF Raise
  <2> QED BY <2>1, <2>2
<1> QED
  BY <1>2, <1>3, <1>4
  DEF CallInv, TypeOK, StoreTypeOK, TransactionsTypeOK, CallTypeOK, RestTypeOK

LEMMA TerminateKeepsCalls ==
    ASSUME CallInv, NEW p \in Process, Terminate(p)
    PROVE  CallInv'
<1>1. terminations' \in 0 .. MaxTerminations
  BY ConstantsOK DEF Terminate, CallInv, TypeOK
<1>2. RestTypeOK' /\ TransactionsTypeOK'
  BY <1>1
  DEF Terminate, store, history, RestTypeOK, TransactionsTypeOK, CallInv, TypeOK, StoreTypeOK
<1>3. CallTypeOK'
  BY DEF Terminate, CallTypeOK, CallInv, TypeOK, Label
<1>4. CallOK'
  BY DEF Terminate, store, CallOK, Stands, CallInv
<1> QED
  BY <1>2, <1>3, <1>4
  DEF CallInv, TypeOK, StoreTypeOK, TransactionsTypeOK, CallTypeOK, RestTypeOK

\* Start and OpenStore.
LEMMA RecoveryKeepsCalls ==
    ASSUME CallInv, recover_uncertain_executions, up' \in [Process -> BOOLEAN],
           UNCHANGED <<effects, approvals, call, bounds, history>>
    PROVE  CallInv'
<1>1. TransactionsTypeOK' /\ RowsKept
  BY RecoveryKeepsRows DEF TransactionsTypeOK, CallInv, TypeOK
<1>2. CallOK'
  BY <1>1 DEF CallOK, RowsKept, Stands, CallInv, call
<1> QED
  BY <1>1, <1>2
  DEF CallInv, TypeOK, StoreTypeOK, TransactionsTypeOK, call, bounds, history

LEMMA NextKeepsCalls == CallInv /\ [Next]_vars => CallInv'
<1> SUFFICES ASSUME CallInv, [Next]_vars PROVE CallInv'
  OBVIOUS
<1>1. CASE \E w \in Worker : Step(w) \/ Request(w) \/ Raise(w)
  BY <1>1, StepKeepsCalls, RequestKeepsCalls, RaiseKeepsCalls
<1>2. CASE \E p \in Process : Start(p) \/ Terminate(p)
  <2>1. ASSUME NEW p \in Process, Start(p)
        PROVE  up' \in [Process -> BOOLEAN]
    BY <2>1 DEF Start, CallInv, TypeOK
  <2> QED
    BY <1>2, <2>1, RecoveryKeepsCalls, TerminateKeepsCalls DEF Start
<1>3. CASE OpenStore
  BY <1>3, RecoveryKeepsCalls DEF OpenStore, CallInv, TypeOK
<1>4. CASE UNCHANGED vars
  BY <1>4
  DEF vars, store, call, bounds, history, CallInv, TypeOK, StoreTypeOK, CallOK, Stands
<1> QED BY <1>1, <1>2, <1>3, <1>4 DEF Next

LEMMA InitCalls == Init => CallInv
BY ConstantsOK DEF Init, StoreInit, CallInv, TypeOK, StoreTypeOK, CallOK, Label

LEMMA CallsInvariant == Spec => []CallInv
BY InitCalls, NextKeepsCalls, PTL DEF Spec

\* Every reachable state is well typed, whatever the deployment: in particular no call ever
\* saves a copy it does not hold, and no write changes the effect a row stands for.
THEOREM TypeCorrect == Spec => []TypeOK
<1>1. CallInv => TypeOK
  BY DEF CallInv
<1> QED BY <1>1, CallsInvariant, PTL

-----------------------------------------------------------------------------
(* What one write changes, row by row: for the proofs that build on these. *)

\* A save over the call's own row.
LEMMA SavedStatus ==
    ASSUME CallInv, NEW w \in Worker, pc[w] # "idle",
           NEW status \in EffectStatus, NEW decision \in Decision,
           save_transaction(current[w], Update(w, status, decision)),
           NEW t \in TransactionId
    PROVE  Status(t)' = IF t = current[w] THEN status ELSE Status(t)
<1>1. CASE t # current[w]
  BY <1>1 DEF save_transaction, Status, CallInv, TypeOK, StoreTypeOK
<1>2. CASE t = current[w]
  <2>1. transactions'[t] = Update(w, status, decision)
    BY <1>2 DEF save_transaction, CallInv, TypeOK, StoreTypeOK
  <2> QED BY <1>2, <2>1, UpdatedCopy, NoneIsFresh DEF Status
<1> QED BY <1>1, <1>2

\* A fresh row.
LEMMA FreshSave ==
    ASSUME CallInv, NEW u \in TransactionId, Status(u) = "ABSENT",
           NEW copy \in EffectTransaction, save_transaction(u, copy), NEW t \in TransactionId
    PROVE  /\ t # u => transactions'[t] = transactions[t] /\ Status(t)' = Status(t)
           /\ t = u => /\ transactions[t] = None
                       /\ transactions'[t] = copy /\ transactions'[t] # None
                       /\ Status(t)' = copy.status
BY NoneIsFresh, AbsentRow DEF save_transaction, Status, CallInv, TypeOK, StoreTypeOK

\* Recovery.
LEMMA RecoveredRow ==
    ASSUME CallInv, recover_uncertain_executions, NEW t \in TransactionId
    PROVE  /\ Status(t) # "EXECUTING" => transactions'[t] = transactions[t] /\ Status(t)' = Status(t)
           /\ Status(t) = "EXECUTING" =>
                /\ Status(t)' = "REQUIRE_HUMAN_REVIEW"
                /\ transactions'[t] # None
                /\ transactions'[t].effect_id = transactions[t].effect_id
                /\ transactions'[t].repair_parent = transactions[t].repair_parent
<1>1. CASE Status(t) # "EXECUTING"
  BY <1>1 DEF recover_uncertain_executions, Status
<1>2. CASE Status(t) = "EXECUTING"
  <2>1. transactions[t] \in EffectTransaction
    BY <1>2, AbsentRow DEF CallInv, TypeOK
  <2>2. transactions'[t] = [transactions[t] EXCEPT !.status = "REQUIRE_HUMAN_REVIEW"]
    BY <1>2 DEF recover_uncertain_executions
  <2>3. transactions'[t] \in EffectTransaction
    BY <2>1, <2>2 DEF EffectTransaction, EffectStatus
  <2> QED BY <1>2, <2>1, <2>2, <2>3, NoneIsFresh DEF Status, EffectTransaction
<1> QED BY <1>1, <1>2

LEMMA FreshCopies ==
    ASSUME CallInv
    PROVE  /\ \A e \in EffectId : create(e) \in EffectTransaction
           /\ \A w \in Worker : pc[w] # "idle" => Child(w) \in EffectTransaction
<1>1. \A e \in EffectId : create(e) \in EffectTransaction
  BY DEF create, EffectTransaction, EffectStatus, Decision
<1>2. ASSUME NEW w \in Worker, pc[w] # "idle"
      PROVE  Child(w) \in EffectTransaction
  BY <1>2 DEF Child, EffectTransaction, EffectStatus, Decision, CallInv, CallOK, Stands
<1> QED BY <1>1, <1>2
-----------------------------------------------------------------------------
(* Execution and record, in every deployment: what the effects table says  *)
(* happened did happen, and what a transaction reports as SUCCEEDED is in  *)
(* the effects table.  The invariant: what a call in the gateway did.      *)

PersistAfterRun ==
    \A w \in Worker : pc[w] = "persist" => Ran(current[w]) /\ SideEffect(row[w].effect_id)

SettleAfterPersist ==
    \A w \in Worker : (pc[w] \in {"settle", "report"} /\ SideEffect(row[w].effect_id))
                        => effects[row[w].effect_id] # None

CommitInv ==
    /\ CallInv
    /\ PersistAfterRun
    /\ SettleAfterPersist
    /\ SucceededIsCommitted
    /\ CommittedWasPerformed

\* The three parts that do not look at the transactions table.
RecordOK == PersistAfterRun /\ SettleAfterPersist /\ CommittedWasPerformed

\* A step of a worker that runs no backend and records no effect, and does not bring the
\* worker past one.
LEMMA QuietStepKeepsRecord ==
    ASSUME CallInv, RecordOK, NEW w \in Worker, NEW label,
           label \notin {"persist", "settle", "report"}, NEW t, NEW copy,
           Continue(w, label, t, copy), UNCHANGED <<effects, ran>>
    PROVE  RecordOK'
<1>1. ASSUME NEW v \in Worker, pc'[v] \in {"persist", "settle", "report"}
      PROVE  pc'[v] = pc[v] /\ current'[v] = current[v] /\ row'[v] = row[v]
  BY <1>1 DEF Continue, CallInv, TypeOK
<1>2. PersistAfterRun'
  BY <1>1 DEF PersistAfterRun, RecordOK, Ran
<1>3. SettleAfterPersist'
  BY <1>1 DEF SettleAfterPersist, RecordOK
<1>4. CommittedWasPerformed'
  BY DEF CommittedWasPerformed, RecordOK, Ran
<1> QED BY <1>2, <1>3, <1>4 DEF RecordOK

\* A save that does not report success, or reports a stored effect.
LEMMA SaveKeepsCommitted ==
    ASSUME CallInv, SucceededIsCommitted, UNCHANGED effects,
           NEW t \in TransactionId, NEW copy \in EffectTransaction, save_transaction(t, copy),
           (copy.status = "SUCCEEDED" /\ SideEffect(copy.effect_id))
                => effects[copy.effect_id] # None
    PROVE  SucceededIsCommitted'
<1> SUFFICES ASSUME NEW u \in TransactionId, Status(u)' = "SUCCEEDED",
                    SideEffect(transactions'[u].effect_id)
             PROVE  effects[transactions'[u].effect_id] # None
  BY DEF SucceededIsCommitted
<1>1. CASE u = t
  BY <1>1, NoneIsFresh DEF save_transaction, Status, CallInv, TypeOK, StoreTypeOK
<1>2. CASE u # t
  BY <1>2 DEF save_transaction, Status, SucceededIsCommitted, CallInv, TypeOK, StoreTypeOK
<1> QED BY <1>1, <1>2

\* Recovery reports no success.
LEMMA RecoveryKeepsCommitted ==
    ASSUME CallInv, SucceededIsCommitted, UNCHANGED effects, recover_uncertain_executions
    PROVE  SucceededIsCommitted'
<1> SUFFICES ASSUME NEW u \in TransactionId, Status(u)' = "SUCCEEDED",
                    SideEffect(transactions'[u].effect_id)
             PROVE  effects[transactions'[u].effect_id] # None
  BY DEF SucceededIsCommitted
<1>1. CASE Status(u) = "EXECUTING"
  <2>1. transactions[u] \in EffectTransaction
    BY <1>1, AbsentRow DEF CallInv, TypeOK
  <2>2. transactions'[u] = [transactions[u] EXCEPT !.status = "REQUIRE_HUMAN_REVIEW"]
    BY <1>1 DEF recover_uncertain_executions
  <2> QED BY <2>1, <2>2 DEF Status, EffectTransaction
<1>2. CASE Status(u) # "EXECUTING"
  BY <1>2 DEF recover_uncertain_executions, Status, SucceededIsCommitted
<1> QED BY <1>1, <1>2

LEMMA UnchangedTransactionsKeepCommitted ==
    ASSUME SucceededIsCommitted, UNCHANGED <<transactions, effects>>
    PROVE  SucceededIsCommitted'
BY DEF SucceededIsCommitted, Status

\* Most steps save a copy that is not SUCCEEDED and go on, or return.
LEMMA OrdinarySave ==
    ASSUME CommitInv, NEW w \in Worker, pc[w] # "idle", UNCHANGED <<effects, ran>>,
           NEW status \in EffectStatus \ {"SUCCEEDED"}, NEW decision \in Decision,
           NEW label, label \notin {"persist", "settle", "report"},
           \/ SaveThen(w, Update(w, status, decision), label)
           \/ SaveAndReturn(w, Update(w, status, decision))
    PROVE  RecordOK' /\ SucceededIsCommitted'
<1>1. SucceededIsCommitted'
  BY UpdatedCopy, SaveKeepsCommitted DEF SaveThen, SaveAndReturn, CommitInv
<1>2. RecordOK'
  BY QuietStepKeepsRecord DEF SaveThen, SaveAndReturn, Return, CommitInv, RecordOK
<1> QED BY <1>1, <1>2

LEMMA OrdinaryMove ==
    ASSUME CommitInv, NEW w \in Worker, UNCHANGED <<transactions, effects, ran>>,
           NEW label, NEW t, NEW copy, label \notin {"persist", "settle", "report"},
           Continue(w, label, t, copy)
    PROVE  RecordOK' /\ SucceededIsCommitted'
BY QuietStepKeepsRecord, UnchangedTransactionsKeepCommitted DEF CommitInv, RecordOK

\* A fresh row.
LEMMA FreshRow ==
    ASSUME CommitInv, NEW w \in Worker, UNCHANGED <<effects, ran>>,
           NEW t \in TransactionId, NEW copy \in EffectTransaction, copy.status # "SUCCEEDED",
           save_transaction(t, copy),
           NEW label, label \notin {"persist", "settle", "report"}, Continue(w, label, t, copy)
    PROVE  RecordOK' /\ SucceededIsCommitted'
BY QuietStepKeepsRecord, SaveKeepsCommitted DEF CommitInv, RecordOK

LEMMA StepKeepsCommit ==
    ASSUME CommitInv, NEW w \in Worker, Step(w)
    PROVE  RecordOK' /\ SucceededIsCommitted'
<1>0. /\ CallInv
      /\ pc[w] # "idle" => /\ row[w] \in EffectTransaction
                           /\ row[w].decision \in Decision
                           /\ current[w] \in TransactionId
                           /\ row[w].effect_id \in EffectId
  BY DEF CommitInv, CallInv, CallOK, Stands, EffectTransaction
<1>1. CASE Check(w)
  BY <1>0, <1>1, OrdinarySave DEF Check, EffectStatus, history
<1>2. CASE StopTool(w)
  BY <1>0, <1>2, OrdinarySave DEF StopTool, EffectStatus, Decision, history
<1>3. CASE StopResponse(w)
  BY <1>0, <1>3, OrdinarySave DEF StopResponse, EffectStatus, Decision, history
<1>4. CASE UnregisteredTool(w)
  BY <1>4, OrdinaryMove DEF UnregisteredTool, Return, store, history
<1>5. CASE Authorize(w)
  BY <1>0, <1>5, OrdinarySave DEF Authorize, EffectStatus, Decision, history
<1>6. CASE RepairParent(w)
  BY <1>0, <1>6, OrdinarySave
  DEF RepairParent, CloseRepaired, EffectStatus, Decision, history
<1>7. CASE RepairChild(w)
  <2>1. Child(w) \in EffectTransaction /\ Child(w).status = "AUTHORIZED"
    BY <1>0, <1>7 DEF RepairChild, Child, EffectTransaction, EffectStatus, Decision
  <2> QED
    BY <1>7, <2>1, FreshRow DEF RepairChild, history
<1>8. CASE Execute(w)
  BY <1>0, <1>8, OrdinarySave DEF Execute, EffectStatus, history
<1>9. CASE GatewayCheck(w)
  BY <1>9, OrdinaryMove DEF GatewayCheck, store, history
<1>10. CASE Backend(w)
  <2>1. \A t \in TransactionId : Ran(t) => Ran(t)'
    BY <1>10 DEF Backend, Ran, CommitInv, CallInv, TypeOK
  <2>2. SucceededIsCommitted'
    BY <1>10, UnchangedTransactionsKeepCommitted DEF Backend, store, CommitInv
  <2>3. CommittedWasPerformed'
    BY <1>10, <2>1
    DEF Backend, store, CommitInv, CommittedWasPerformed, CallInv, TypeOK, StoreTypeOK
  <2>4. PersistAfterRun'
    <3> SUFFICES ASSUME NEW v \in Worker, pc'[v] = "persist"
                 PROVE  Ran(current[v])' /\ SideEffect(row'[v].effect_id)
      BY DEF PersistAfterRun
    <3>1. CASE v = w
      BY <1>0, <1>10, <3>1
      DEF Backend, Continue, RecordsEffect, Ran, CommitInv, CallInv, TypeOK
    <3>2. CASE v # w
      <4>1. pc'[v] = pc[v] /\ current'[v] = current[v] /\ row'[v] = row[v]
        BY <1>10, <3>2 DEF Backend, Continue, CommitInv, CallInv, TypeOK
      <4>2. current[v] \in TransactionId
        BY <4>1 DEF CommitInv, CallInv, CallOK, Stands
      <4> QED BY <2>1, <4>1, <4>2 DEF CommitInv, PersistAfterRun
    <3> QED BY <3>1, <3>2
  <2>5. SettleAfterPersist'
    BY <1>10
    DEF Backend, Continue, RecordsEffect, store, CommitInv, SettleAfterPersist, CallInv, TypeOK
  <2> QED BY <2>2, <2>3, <2>4, <2>5 DEF RecordOK
<1>11. CASE Persist(w)
  <2>1. /\ effects'[row[w].effect_id] = current[w]
        /\ \A e \in EffectId \ {row[w].effect_id} : effects'[e] = effects[e]
        /\ current[w] # None
        /\ Ran(current[w])
    BY <1>0, <1>11, NoneIsFresh
    DEF Persist, save_effect, CommitInv, PersistAfterRun, CallInv, TypeOK, StoreTypeOK
  <2>2. \A e \in EffectId : effects[e] # None => effects'[e] # None
    BY <2>1
  <2>3. CommittedWasPerformed'
    BY <1>11, <2>1 DEF Persist, history, CommitInv, CommittedWasPerformed, Ran
  <2>4. SucceededIsCommitted'
    <3>1. \A t \in TransactionId : Status(t) = "SUCCEEDED" => transactions[t].effect_id \in EffectId
      BY AbsentRow DEF CommitInv, CallInv, TypeOK, EffectTransaction
    <3> QED BY <1>11, <2>2, <3>1 DEF Persist, CommitInv, SucceededIsCommitted, Status
  <2>5. ASSUME NEW v \in Worker, pc'[v] # "idle", v # w
        PROVE  /\ pc'[v] = pc[v] /\ current'[v] = current[v] /\ row'[v] = row[v]
               /\ row[v].effect_id \in EffectId
    BY <1>11, <2>5
    DEF Persist, Continue, CommitInv, CallInv, CallOK, Stands, TypeOK, EffectTransaction
  <2>6. pc'[w] = "settle" /\ row'[w] = row[w]
    BY <1>0, <1>11 DEF Persist, Continue, CommitInv, CallInv, TypeOK
  <2>7. PersistAfterRun'
    BY <1>11, <2>5, <2>6 DEF Persist, history, CommitInv, PersistAfterRun, Ran
  <2>8. SettleAfterPersist'
    BY <2>1, <2>2, <2>5, <2>6 DEF CommitInv, SettleAfterPersist
  <2> QED BY <2>3, <2>4, <2>7, <2>8 DEF RecordOK
<1>12. CASE Settle(w)
  <2>1. PICK copy \in EffectTransaction : /\ copy = Update(w, "SUCCEEDED", row[w].decision)
                                          /\ SaveThen(w, copy, "report")
                                          /\ copy.effect_id = row[w].effect_id
    BY <1>0, <1>12, UpdatedCopy DEF Settle, EffectStatus
  <2>2. SideEffect(copy.effect_id) => effects[copy.effect_id] # None
    BY <1>12, <2>1 DEF Settle, CommitInv, SettleAfterPersist
  <2>3. UNCHANGED <<effects, ran>>
    BY <1>12 DEF Settle, history
  <2>4. SucceededIsCommitted'
    BY <1>0, <1>12, <2>1, <2>2, <2>3, SaveKeepsCommitted DEF Settle, SaveThen, CommitInv
  <2>5. ASSUME NEW v \in Worker, v # w
        PROVE  pc'[v] = pc[v] /\ current'[v] = current[v] /\ row'[v] = row[v]
    BY <2>1, <2>5 DEF SaveThen, Continue, CommitInv, CallInv, TypeOK
  <2>6. pc'[w] = "report" /\ row'[w] = copy
    BY <2>1 DEF SaveThen, Continue, CommitInv, CallInv, TypeOK
  <2>7. PersistAfterRun' /\ SettleAfterPersist' /\ CommittedWasPerformed'
    BY <2>2, <2>3, <2>5, <2>6
    DEF CommitInv, PersistAfterRun, SettleAfterPersist, CommittedWasPerformed, Ran
  <2> QED BY <2>4, <2>7 DEF RecordOK
<1>13. CASE Report(w)
  BY <1>13, OrdinaryMove DEF Report, Return, store, history
<1>14. CASE Fail(w)
  BY <1>0, <1>14, OrdinarySave DEF Fail, EffectStatus, history
<1>15. CASE BlockDenied(w)
  BY <1>0, <1>15, OrdinarySave DEF BlockDenied, EffectStatus, Decision, history
<1>16. CASE Recheck(w)
  BY <1>0, <1>16, OrdinarySave DEF Recheck, EffectStatus
<1> QED
  BY <1>1, <1>2, <1>3, <1>4, <1>5, <1>6, <1>7, <1>8, <1>9, <1>10, <1>11, <1>12, <1>13,
     <1>14, <1>15, <1>16
  DEF Step

LEMMA RequestKeepsCommit ==
    ASSUME CommitInv, NEW w \in Worker, Request(w)
    PROVE  RecordOK' /\ SucceededIsCommitted'
<1>1. ASSUME NEW e \in EffectId, Replay(w, e)
      PROVE  RecordOK' /\ SucceededIsCommitted'
  BY <1>1
  DEF Replay, vars, store, call, history, CommitInv, RecordOK, PersistAfterRun,
      SettleAfterPersist, SucceededIsCommitted, CommittedWasPerformed, Ran, Status
<1>2. ASSUME NEW e \in EffectId, Handle(w, e)
      PROVE  RecordOK' /\ SucceededIsCommitted'
  <2>1. create(e) \in EffectTransaction /\ create(e).status = "CREATED"
    BY DEF create, EffectTransaction, EffectStatus, Decision
  <2> QED BY <1>2, <2>1, FreshRow DEF Handle, history
<1>3. ASSUME NEW t \in TransactionId, Approve(w, t) \/ Deny(w, t) \/ Resume(w, t)
      PROVE  RecordOK' /\ SucceededIsCommitted'
  BY <1>3, OrdinaryMove DEF Approve, Deny, Resume, store, history
<1> QED BY <1>1, <1>2, <1>3 DEF Request

LEMMA RaiseKeepsCommit ==
    ASSUME CommitInv, NEW w \in Worker, Raise(w)
    PROVE  RecordOK' /\ SucceededIsCommitted'
BY OrdinaryMove DEF Raise, Return, store, history

\* A terminated process forgets its calls; the tables stay.
LEMMA TerminateKeepsCommit ==
    ASSUME CommitInv, NEW p \in Process, Terminate(p)
    PROVE  RecordOK' /\ SucceededIsCommitted'
<1>1. SucceededIsCommitted' /\ CommittedWasPerformed'
  BY UnchangedTransactionsKeepCommitted
  DEF Terminate, store, history, CommitInv, CommittedWasPerformed, Ran
<1>2. ASSUME NEW v \in Worker, pc'[v] # "idle"
      PROVE  pc'[v] = pc[v] /\ current'[v] = current[v] /\ row'[v] = row[v]
  BY <1>2 DEF Terminate
<1>3. PersistAfterRun' /\ SettleAfterPersist'
  BY <1>2
  DEF Terminate, store, history, CommitInv, PersistAfterRun, SettleAfterPersist, Ran
<1> QED BY <1>1, <1>3 DEF RecordOK

LEMMA RecoveryKeepsCommit ==
    ASSUME CommitInv, recover_uncertain_executions, UNCHANGED <<effects, call, history>>
    PROVE  RecordOK' /\ SucceededIsCommitted'
<1>1. SucceededIsCommitted'
  BY RecoveryKeepsCommitted DEF CommitInv
<1>2. RecordOK'
  BY DEF call, history, CommitInv, RecordOK, PersistAfterRun, SettleAfterPersist,
         CommittedWasPerformed, Ran
<1> QED BY <1>1, <1>2

LEMMA NextKeepsCommit == CommitInv /\ [Next]_vars => CommitInv'
<1> SUFFICES ASSUME CommitInv, [Next]_vars PROVE CommitInv'
  OBVIOUS
<1>0. CallInv'
  BY NextKeepsCalls DEF CommitInv
<1>1. CASE \E w \in Worker : Step(w) \/ Request(w) \/ Raise(w)
  BY <1>0, <1>1, StepKeepsCommit, RequestKeepsCommit, RaiseKeepsCommit DEF CommitInv, RecordOK
<1>2. CASE \E p \in Process : Start(p) \/ Terminate(p)
  BY <1>0, <1>2, RecoveryKeepsCommit, TerminateKeepsCommit DEF Start, CommitInv, RecordOK
<1>3. CASE OpenStore
  BY <1>0, <1>3, RecoveryKeepsCommit DEF OpenStore, CommitInv, RecordOK
<1>4. CASE UNCHANGED vars
  BY <1>0, <1>4
  DEF vars, store, call, history, CommitInv, PersistAfterRun, SettleAfterPersist,
      SucceededIsCommitted, CommittedWasPerformed, Ran, Status
<1> QED BY <1>1, <1>2, <1>3, <1>4 DEF Next

LEMMA InitCommit == Init => CommitInv
BY InitCalls
DEF Init, StoreInit, CommitInv, PersistAfterRun, SettleAfterPersist, SucceededIsCommitted,
    CommittedWasPerformed, Status

LEMMA CommitInvariant == Spec => []CommitInv
BY InitCommit, NextKeepsCommit, PTL DEF Spec

\* In every deployment (any number of processes on the database, live resumes, observers,
\* crashes and exceptions anywhere) a side effect answered as SUCCEEDED has its row in the
\* effects table: handle's lookup will replay it.
THEOREM SucceededCommitted == Spec => []SucceededIsCommitted
<1>1. CommitInv => SucceededIsCommitted
  BY DEF CommitInv
<1> QED BY <1>1, CommitInvariant, PTL

\* In every deployment a row of the effects table names a transaction whose backend ran:
\* a replay never answers for an effect that did not happen.
THEOREM CommittedPerformed == Spec => []CommittedWasPerformed
<1>1. CommitInv => CommittedWasPerformed
  BY DEF CommitInv
<1> QED BY <1>1, CommitInvariant, PTL
=============================================================================
