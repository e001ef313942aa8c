----------------------------- MODULE SoleProofs -----------------------------
(***************************************************************************)
(* A sole broker, the deployment of docs/threat_model.md: what a           *)
(* transaction goes through, that the broker implements the documented     *)
(* life of a transaction, what stands between a committed effect and its   *)
(* repetition, and what a repair stands for, for every number of threads,  *)
(* transactions and effects.                                               *)
(***************************************************************************)
EXTENDS BrokerProofs

-----------------------------------------------------------------------------
(* Calls: one at a time, each with the stored row in its hands             *)

\* What a call that has come so far has saved last.
StatusAt(label) ==
    CASE label = "checking" -> {"CREATED"}
      [] label \in {"handle_tool", "handle_response"} -> {"CHECKING"}
      [] label = "repair_child" -> {"BLOCKED"}
      [] label = "execute" -> {"AUTHORIZED"}
      [] label \in {"gateway", "backend", "persist", "settle"} -> {"EXECUTING"}
      [] label = "report" -> {"SUCCEEDED"}
      [] label = "fail" -> {"EXECUTING", "SUCCEEDED"}
      [] label = "recheck" -> {"WAITING_APPROVAL", "AUTHORIZED"}
      [] OTHER -> {"WAITING_APPROVAL"}

Busy(w) == pc[w] # "idle"

OneCall == \A v, w \in Worker : Busy(v) /\ Busy(w) => v = w

\* A call runs in a process that is up, so none is under way when one starts.
CallsAreUp == \A w \in Worker : Busy(w) => up[ProcessOf[w]]

\* A call's copy is the stored row, in a state that fits what the call does next.
Holds(w) ==
    /\ transactions[current[w]] = row[w]
    /\ row[w].status \in StatusAt(pc[w])
    /\ pc[w] = "repair_child" => row[w].decision = "REPAIR"

CopyIsCurrent == \A w \in Worker : Busy(w) => Holds(w)

SoleCalls == OneCall /\ CallsAreUp /\ CopyIsCurrent

\* The call that is under way, and what is known of it.
LEMMA TheCall ==
    ASSUME CallInv, SoleCalls, NEW w \in Worker, pc[w] # "idle"
    PROVE  /\ \A v \in Worker : pc[v] # "idle" => v = w
           /\ current[w] \in TransactionId
           /\ row[w] \in EffectTransaction
           /\ transactions[current[w]] = row[w]
           /\ Status(current[w]) = row[w].status
           /\ row[w].status \in StatusAt(pc[w])
           /\ row[w].decision \in Decision
           /\ row[w].effect_id \in EffectId
           /\ pc[w] = "repair_child" => row[w].decision = "REPAIR"
<1>1. Stands(current[w], row[w])
  BY DEF CallInv, CallOK
<1>2. /\ \A v \in Worker : pc[v] # "idle" => v = w
      /\ Holds(w)
  BY DEF SoleCalls, OneCall, CopyIsCurrent, Busy
<1>3. row[w] # None
  BY <1>1, NoneIsFresh DEF Stands
<1> QED
  BY <1>1, <1>2, <1>3 DEF Stands, Holds, Status, EffectTransaction

\* The call goes on with what is stored, in a state that fits.
LEMMA ContinueKeepsSole ==
    ASSUME CallInv, SoleCalls, NEW w \in Worker, pc[w] # "idle" \/ up[ProcessOf[w]],
           \A v \in Worker : pc[v] # "idle" => v = w,
           NEW label, NEW t, NEW copy, Continue(w, label, t, copy), UNCHANGED up,
           label # "idle" => /\ transactions'[t] = copy
                             /\ copy.status \in StatusAt(label)
                             /\ label = "repair_child" => copy.decision = "REPAIR"
    PROVE  SoleCalls'
<1>1. \A v \in Worker : pc'[v] # "idle" => /\ v = w
                                           /\ pc'[v] = label /\ current'[v] = t /\ row'[v] = copy
  BY DEF Continue, CallInv, TypeOK
<1>2. OneCall'
  BY <1>1 DEF OneCall, Busy
<1>3. CallsAreUp'
  BY <1>1 DEF CallsAreUp, SoleCalls, Busy
<1>4. CopyIsCurrent'
  BY <1>1 DEF CopyIsCurrent, Holds, Busy
<1> QED BY <1>2, <1>3, <1>4 DEF SoleCalls

\* Saves that go on, saves that return, and steps that save nothing.
LEMMA SaveThenKeepsSole ==
    ASSUME CallInv, SoleCalls, NEW w \in Worker, pc[w] # "idle", NEW label,
           NEW status \in EffectStatus, NEW decision \in Decision, UNCHANGED up,
           SaveThen(w, Update(w, status, decision), label), status \in StatusAt(label),
           label = "repair_child" => decision = "REPAIR"
    PROVE  SoleCalls'
<1>0. row[w] \in EffectTransaction /\ current[w] \in TransactionId
  BY TheCall
<1>1. /\ Update(w, status, decision).status = status
      /\ Update(w, status, decision).decision = decision
  BY <1>0 DEF Update, EffectTransaction
<1>2. transactions'[current[w]] = Update(w, status, decision)
  BY <1>0 DEF SaveThen, save_transaction, CallInv, TypeOK, StoreTypeOK
<1> QED
  BY <1>1, <1>2, TheCall, ContinueKeepsSole DEF SaveThen

LEMMA ReturnKeepsSole ==
    ASSUME CallInv, SoleCalls, NEW w \in Worker, pc[w] # "idle", Return(w), UNCHANGED up
    PROVE  SoleCalls'
BY TheCall, ContinueKeepsSole DEF Return

LEMMA MoveKeepsSole ==
    ASSUME CallInv, SoleCalls, NEW w \in Worker, pc[w] # "idle", NEW label,
           Continue(w, label, current[w], row[w]), UNCHANGED <<transactions, up>>,
           row[w].status \in StatusAt(label), label # "repair_child"
    PROVE  SoleCalls'
BY TheCall, ContinueKeepsSole

LEMMA StepKeepsSole ==
    ASSUME CallInv, SoleCalls, NEW w \in Worker, Step(w)
    PROVE  SoleCalls'
<1>0. pc[w] # "idle" => /\ row[w].status \in StatusAt(pc[w])
                        /\ row[w].decision \in Decision
                        /\ \A v \in Worker : pc[v] # "idle" => v = w
                        /\ Status(current[w]) = row[w].status
  BY TheCall
<1>1. CASE Check(w)
  BY <1>0, <1>1, SaveThenKeepsSole DEF Check, EffectStatus, StatusAt
<1>2. CASE StopTool(w)
  BY <1>2, ReturnKeepsSole DEF StopTool, SaveAndReturn
<1>3. CASE StopResponse(w)
  BY <1>3, ReturnKeepsSole DEF StopResponse, SaveAndReturn
<1>4. CASE UnregisteredTool(w)
  BY <1>4, ReturnKeepsSole DEF UnregisteredTool
<1>5. CASE Authorize(w)
  BY <1>5, SaveThenKeepsSole DEF Authorize, EffectStatus, Decision, StatusAt
<1>6. CASE RepairParent(w)
  BY <1>6, SaveThenKeepsSole DEF RepairParent, CloseRepaired, EffectStatus, Decision, StatusAt
<1>7. CASE RepairChild(w)
  <2>1. PICK t \in TransactionId, copy \in {Child(w)} :
          save_transaction(t, copy) /\ Continue(w, "execute", t, copy)
    BY <1>7 DEF RepairChild
  <2>2. transactions'[t] = copy /\ copy.status = "AUTHORIZED"
    BY <2>1 DEF save_transaction, Child, CallInv, TypeOK, StoreTypeOK
  <2> QED
    BY <1>0, <1>7, <2>1, <2>2, ContinueKeepsSole DEF RepairChild, StatusAt
<1>8. CASE Execute(w)
  BY <1>0, <1>8, SaveThenKeepsSole DEF Execute, EffectStatus, StatusAt
<1>9. CASE GatewayCheck(w)
  BY <1>0, <1>9, MoveKeepsSole DEF GatewayCheck, store, StatusAt
<1>10. CASE Backend(w)
  BY <1>0, <1>10, MoveKeepsSole DEF Backend, store, StatusAt
<1>11. CASE Persist(w)
  BY <1>0, <1>11, MoveKeepsSole DEF Persist, StatusAt
<1>12. CASE Settle(w)
  BY <1>0, <1>12, SaveThenKeepsSole DEF Settle, EffectStatus, StatusAt
<1>13. CASE Report(w)
  BY <1>13, ReturnKeepsSole DEF Report
<1>14. CASE Fail(w)
  BY <1>14, ReturnKeepsSole DEF Fail, SaveAndReturn
<1>15. CASE BlockDenied(w)
  BY <1>15, ReturnKeepsSole DEF BlockDenied, SaveAndReturn
<1>16. CASE Recheck(w)
  BY <1>0, <1>16, SaveThenKeepsSole DEF Recheck, EffectStatus, StatusAt
<1> QED
  BY <1>1, <1>2, <1>3, <1>4, <1>5, <1>6, <1>7, <1>8, <1>9, <1>10, <1>11, <1>12, <1>13,
     <1>14, <1>15, <1>16
  DEF Step

\* A call begins only where none is under way: one that holds the lock keeps others out, and
\* one that resumes without it is waited for.
LEMMA BeginsAlone ==
    ASSUME SoleBroker, CallInv, NEW w \in Worker, Request(w)
    PROVE  /\ \A v \in Worker : pc[v] = "idle" \/ UNCHANGED vars
           /\ up[ProcessOf[w]]
<1>1. /\ \A v \in Worker : ProcessOf[v] \in Process /\ v # None
      /\ \A v \in Worker : ProcessOf[v] = ProcessOf[w]
      /\ "resume" \notin Offered[ProcessOf[w]] /\ "quiet_resume" \in Offered[ProcessOf[w]]
  BY ConstantsOK DEF SoleBroker, QuietResumes
<1>2. ASSUME Free(w), Acquire(w), NEW v \in Worker
      PROVE  pc[v] = "idle"
  BY <1>1, <1>2 DEF Free, Acquire, Resuming
<1> QED
  BY <1>1, <1>2 DEF Request, Replay, Handle, Approve, Deny, Resume, Free

LEMMA RequestKeepsSole ==
    ASSUME SoleBroker, CallInv, SoleCalls, NEW w \in Worker, Request(w)
    PROVE  SoleCalls'
<1>1. CASE UNCHANGED vars
  BY <1>1
  DEF vars, store, call, SoleCalls, OneCall, CallsAreUp, CopyIsCurrent, Holds, Busy
<1>2. CASE ~UNCHANGED vars
  <2>1. /\ \A v \in Worker : pc[v] = "idle"
        /\ up[ProcessOf[w]]
    BY <1>2, BeginsAlone
  <2>2. ASSUME NEW e \in EffectId, Handle(w, e)
        PROVE  SoleCalls'
    <3>1. PICK t \in TransactionId, copy \in {create(e)} :
            save_transaction(t, copy) /\ Continue(w, "checking", t, copy)
      BY <2>2 DEF Handle
    <3>2. transactions'[t] = copy /\ copy.status = "CREATED"
      BY <3>1 DEF save_transaction, create, CallInv, TypeOK, StoreTypeOK
    <3> QED
      BY <2>1, <2>2, <3>1, <3>2, ContinueKeepsSole DEF Handle, StatusAt
  <2>3. ASSUME NEW t \in TransactionId, NEW label \in {"recheck", "denied"},
               Status(t) \in StatusAt(label), Continue(w, label, t, transactions[t]),
               UNCHANGED <<transactions, up>>
        PROVE  SoleCalls'
    <3>1. Status(t) = transactions[t].status
      BY <2>3 DEF Status, StatusAt
    <3> QED BY <2>1, <2>3, <3>1, ContinueKeepsSole
  <2>4. ASSUME NEW t \in TransactionId, Approve(w, t)
        PROVE  SoleCalls'
    BY <2>3, <2>4 DEF Approve, Decide, AwaitsDecision, StatusAt
  <2>5. ASSUME NEW t \in TransactionId, Deny(w, t)
        PROVE  SoleCalls'
    BY <2>3, <2>5 DEF Deny, Decide, AwaitsDecision, StatusAt
  <2>6. ASSUME NEW t \in TransactionId, Resume(w, t)
        PROVE  SoleCalls'
    BY <2>3, <2>6 DEF Resume, StatusAt, store
  <2> QED
    BY <1>2, <2>2, <2>4, <2>5, <2>6 DEF Request, Replay
<1> QED BY <1>1, <1>2

LEMMA RaiseKeepsSole ==
    ASSUME CallInv, SoleCalls, NEW w \in Worker, Raise(w)
    PROVE  SoleCalls'
<1>1. CASE pc[w] \in Guarded
  BY <1>1, TheCall, MoveKeepsSole DEF Raise, Guarded, StatusAt, store
<1>2. CASE pc[w] \notin Guarded
  BY <1>2, ReturnKeepsSole DEF Raise
<1> QED BY <1>1, <1>2

\* The process that ends was the only one, and its calls end with it.
LEMMA NobodyLeft ==
    ASSUME SoleBroker, CallInv, NEW p \in Process, Terminate(p)
    PROVE  /\ \A w \in Worker : pc'[w] = "idle"
           /\ \A q \in Process : ~up'[q]
<1>1. \A w \in Worker : ProcessOf[w] = p
  BY ConstantsOK DEF SoleBroker
<1>2. \A q \in Process : q = p
  BY DEF SoleBroker
<1> QED BY <1>1, <1>2 DEF Terminate, CallInv, TypeOK

\* No call is under way where a process starts.
LEMMA NobodyBusy ==
    ASSUME SoleBroker, SoleCalls, NEW p \in Process, Start(p)
    PROVE  \A w \in Worker : pc[w] = "idle"
BY ConstantsOK DEF SoleBroker, SoleCalls, CallsAreUp, Busy, Start

LEMMA NextKeepsSole ==
    ASSUME SoleBroker, CallInv, SoleCalls, [Next]_vars
    PROVE  SoleCalls'
<1>1. CASE \E w \in Worker : Step(w) \/ Request(w) \/ Raise(w)
  BY <1>1, StepKeepsSole, RequestKeepsSole, RaiseKeepsSole
<1>2. ASSUME NEW p \in Process, Terminate(p)
      PROVE  SoleCalls'
  BY <1>2, NobodyLeft DEF SoleCalls, OneCall, CallsAreUp, CopyIsCurrent, Busy
<1>3. ASSUME NEW p \in Process, Start(p)
      PROVE  SoleCalls'
  BY <1>3, NobodyBusy
  DEF Start, call, SoleCalls, OneCall, CallsAreUp, CopyIsCurrent, Busy
<1>4. CASE OpenStore
  BY <1>4 DEF OpenStore, SoleBroker
<1>5. CASE UNCHANGED vars
  BY <1>5 DEF vars, store, call, SoleCalls, OneCall, CallsAreUp, CopyIsCurrent, Holds, Busy
<1> QED BY <1>1, <1>2, <1>3, <1>4, <1>5 DEF Next
-----------------------------------------------------------------------------
(* Rows: what one write changes                                            *)

\* A save over the call's own row.
LEMMA SavedRow ==
    ASSUME CallInv, SoleCalls, NEW w \in Worker, pc[w] # "idle",
           NEW status \in EffectStatus, NEW decision \in Decision,
           save_transaction(current[w], Update(w, status, decision)),
           NEW t \in TransactionId
    PROVE  /\ t # current[w] => transactions'[t] = transactions[t] /\ Status(t)' = Status(t)
           /\ t = current[w] =>
                /\ transactions'[t] # None
                /\ transactions'[t].effect_id = transactions[t].effect_id
                /\ transactions'[t].repair_parent = transactions[t].repair_parent
                /\ transactions'[t].decision = decision
                /\ Status(t)' = status
<1>1. CASE t # current[w]
  BY <1>1 DEF save_transaction, Status, CallInv, TypeOK, StoreTypeOK
<1>2. CASE t = current[w]
  <2>1. row[w] \in EffectTransaction /\ transactions[t] = row[w]
    BY <1>2, TheCall
  <2>2. transactions'[t] = Update(w, status, decision)
    BY <1>2 DEF save_transaction, CallInv, TypeOK, StoreTypeOK
  <2>3. Update(w, status, decision) \in EffectTransaction
    BY <2>1 DEF Update, EffectTransaction
  <2> QED
    BY <1>2, <2>1, <2>2, <2>3, NoneIsFresh DEF Update, EffectTransaction, Status
<1> QED BY <1>1, <1>2

\* Where the workers are once w has gone on.
LEMMA OnlyThisCall ==
    ASSUME CallInv, NEW w \in Worker, \A v \in Worker : pc[v] # "idle" => v = w,
           NEW label, NEW t, NEW copy, Continue(w, label, t, copy), NEW v \in Worker
    PROVE  /\ pc'[v] # "idle" => v = w /\ label # "idle"
           /\ v = w => pc'[v] = label /\ current'[v] = t /\ row'[v] = copy
BY DEF Continue, CallInv, TypeOK

-----------------------------------------------------------------------------
(* Runs: when a backend has run                                            *)

\* The states of a transaction that HeldBeforeEffect says have reached no backend.
Held == {"ABSENT", "CREATED", "CHECKING", "BLOCKED", "WAITING_APPROVAL", "AUTHORIZED"}

\* The call that is about to run the backend is the first to do so.
NotRunYet == \A w \in Worker : pc[w] \in {"gateway", "backend"} => ~Ran(current[w])

Runs == HeldBeforeEffect /\ AtMostOncePerTransaction /\ NotRunYet

LEMMA SaveKeepsRuns ==
    ASSUME CallInv, SoleCalls, Runs, NEW w \in Worker, pc[w] # "idle",
           NEW status \in EffectStatus, NEW decision \in Decision, UNCHANGED ran,
           NEW label, \/ SaveThen(w, Update(w, status, decision), label)
                      \/ SaveAndReturn(w, Update(w, status, decision)) /\ label = "idle",
           status \in Held \/ label \in {"gateway", "backend"} => Status(current[w]) \in Held
    PROVE  Runs'
<1>1. /\ \A v \in Worker : pc[v] # "idle" => v = w
      /\ current[w] \in TransactionId
  BY TheCall
<1>2. save_transaction(current[w], Update(w, status, decision))
  BY DEF SaveThen, SaveAndReturn
<1>3. HeldBeforeEffect'
  <2> SUFFICES ASSUME NEW t \in TransactionId, Status(t)' \in Held
               PROVE  Status(t) \in Held
    BY DEF HeldBeforeEffect, Held, Runs, Ran
  <2>1. CASE t = current[w]
    <3>1. Status(t)' = status
      BY <1>2, <2>1, SavedRow
    <3> QED BY <2>1, <3>1
  <2>2. CASE t # current[w]
    <3>1. Status(t)' = Status(t)
      BY <1>2, <2>2, SavedRow
    <3> QED BY <3>1
  <2> QED BY <2>1, <2>2
<1>4. NotRunYet'
  <2> SUFFICES ASSUME NEW v \in Worker, pc'[v] \in {"gateway", "backend"}
               PROVE  ~Ran(current'[v])
    BY DEF NotRunYet, Ran
  <2>1. v = w /\ pc'[v] = label /\ current'[v] = current[w]
    BY <1>1, OnlyThisCall DEF SaveThen, SaveAndReturn, Return
  <2>2. Status(current[w]) \in Held
    BY <2>1
  <2> QED BY <1>1, <2>1, <2>2 DEF Runs, HeldBeforeEffect, Held
<1>5. AtMostOncePerTransaction'
  BY DEF AtMostOncePerTransaction, Runs
<1> QED BY <1>3, <1>4, <1>5 DEF Runs

LEMMA MoveKeepsRuns ==
    ASSUME CallInv, Runs, NEW w \in Worker, \A v \in Worker : pc[v] # "idle" => v = w,
           NEW label, NEW t, NEW copy, Continue(w, label, t, copy),
           UNCHANGED <<transactions, ran>>,
           label \in {"gateway", "backend"} => pc[w] \in {"gateway", "backend"} /\ t = current[w]
    PROVE  Runs'
<1>1. HeldBeforeEffect' /\ AtMostOncePerTransaction'
  BY DEF HeldBeforeEffect, AtMostOncePerTransaction, Runs, Ran, Status
<1>2. NotRunYet'
  BY OnlyThisCall DEF NotRunYet, Runs, Ran
<1> QED BY <1>1, <1>2 DEF Runs

LEMMA FreshKeepsRuns ==
    ASSUME CallInv, Runs, NEW w \in Worker, \A v \in Worker : pc[v] # "idle" => v = w,
           NEW u \in TransactionId, Status(u) = "ABSENT", NEW copy \in EffectTransaction,
           save_transaction(u, copy), UNCHANGED ran,
           NEW label, label \notin {"gateway", "backend"}, Continue(w, label, u, copy)
    PROVE  Runs'
<1>1. HeldBeforeEffect'
  <2> SUFFICES ASSUME NEW t \in TransactionId, Status(t)' \in Held
               PROVE  Status(t) \in Held
    BY DEF HeldBeforeEffect, Held, Runs, Ran
  <2> QED BY FreshSave DEF Held
<1>2. NotRunYet' /\ AtMostOncePerTransaction'
  BY OnlyThisCall DEF NotRunYet, AtMostOncePerTransaction, Runs
<1> QED BY <1>1, <1>2 DEF Runs

\* The backend is called for an EXECUTING row, once.
LEMMA BackendKeepsRuns ==
    ASSUME CallInv, SoleCalls, Runs, NEW w \in Worker, Backend(w)
    PROVE  Runs'
<1>1. /\ \A v \in Worker : pc[v] # "idle" => v = w
      /\ current[w] \in TransactionId
      /\ Status(current[w]) = "EXECUTING"
      /\ ran[current[w]] = 0
  BY TheCall DEF Backend, StatusAt, Runs, NotRunYet, Ran, CallInv, TypeOK
<1>2. PICK label : label \in {"persist", "settle"} /\ Continue(w, label, current[w], row[w])
  BY DEF Backend
<1>3. \A t \in TransactionId : /\ ran'[t] # ran[t] => t = current[w] /\ ran'[t] = 1
                               /\ Status(t)' = Status(t)
  BY <1>1 DEF Backend, store, Status, CallInv, TypeOK
<1>4. HeldBeforeEffect' /\ AtMostOncePerTransaction'
  BY <1>1, <1>3 DEF HeldBeforeEffect, AtMostOncePerTransaction, Runs, Ran
<1>5. NotRunYet'
  BY <1>1, <1>2, OnlyThisCall DEF NotRunYet
<1> QED BY <1>4, <1>5 DEF Runs

LEMMA StepKeepsRuns ==
    ASSUME CallInv, SoleCalls, Runs, NEW w \in Worker, Step(w)
    PROVE  Runs'
<1>0. pc[w] # "idle" => /\ row[w].status \in StatusAt(pc[w])
                        /\ row[w].decision \in Decision
                        /\ \A v \in Worker : pc[v] # "idle" => v = w
                        /\ Status(current[w]) = row[w].status
  BY TheCall
<1>1. CASE Check(w)
  BY <1>0, <1>1, SaveKeepsRuns DEF Check, EffectStatus, StatusAt, Held, history
<1>2. CASE StopTool(w)
  <2>1. PICK status \in {"BLOCKED", "WAITING_APPROVAL"}, decision \in Decision :
          SaveAndReturn(w, Update(w, status, decision))
    BY <1>2 DEF StopTool, Decision
  <2> QED
    BY <1>0, <1>2, <2>1, SaveKeepsRuns DEF StopTool, EffectStatus, StatusAt, Held, history
<1>3. CASE StopResponse(w)
  BY <1>0, <1>3, SaveKeepsRuns DEF StopResponse, EffectStatus, Decision, StatusAt, Held, history
<1>4. CASE UnregisteredTool(w)
  BY <1>0, <1>4, MoveKeepsRuns DEF UnregisteredTool, Return, store, history
<1>5. CASE Authorize(w)
  BY <1>0, <1>5, SaveKeepsRuns DEF Authorize, EffectStatus, Decision, StatusAt, Held, history
<1>6. CASE RepairParent(w)
  BY <1>0, <1>6, SaveKeepsRuns
  DEF RepairParent, CloseRepaired, EffectStatus, Decision, StatusAt, Held, history
<1>7. CASE RepairChild(w)
  BY <1>0, <1>7, FreshCopies, FreshKeepsRuns DEF RepairChild, history
<1>8. CASE Execute(w)
  BY <1>0, <1>8, SaveKeepsRuns DEF Execute, EffectStatus, StatusAt, Held, history
<1>9. CASE GatewayCheck(w)
  BY <1>0, <1>9, MoveKeepsRuns DEF GatewayCheck, store, history
<1>10. CASE Backend(w)
  BY <1>10, BackendKeepsRuns
<1>11. CASE Persist(w)
  BY <1>0, <1>11, MoveKeepsRuns DEF Persist, history
<1>12. CASE Settle(w)
  BY <1>0, <1>12, SaveKeepsRuns DEF Settle, EffectStatus, StatusAt, Held, history
<1>13. CASE Report(w)
  BY <1>0, <1>13, MoveKeepsRuns DEF Report, Return, store, history
<1>14. CASE Fail(w)
  BY <1>0, <1>14, SaveKeepsRuns DEF Fail, EffectStatus, StatusAt, Held, history
<1>15. CASE BlockDenied(w)
  BY <1>0, <1>15, SaveKeepsRuns DEF BlockDenied, EffectStatus, Decision, StatusAt, Held, history
<1>16. CASE Recheck(w)
  BY <1>0, <1>16, SaveKeepsRuns DEF Recheck, EffectStatus, StatusAt, Held
<1> QED
  BY <1>1, <1>2, <1>3, <1>4, <1>5, <1>6, <1>7, <1>8, <1>9, <1>10, <1>11, <1>12, <1>13,
     <1>14, <1>15, <1>16
  DEF Step

LEMMA NextKeepsRuns ==
    ASSUME SoleBroker, CallInv, SoleCalls, Runs, [Next]_vars
    PROVE  Runs'
<1>1. ASSUME NEW w \in Worker, Step(w)
      PROVE  Runs'
  BY <1>1, StepKeepsRuns
<1>2. CASE UNCHANGED vars
  BY <1>2
  DEF vars, store, call, history, Runs, HeldBeforeEffect, AtMostOncePerTransaction, NotRunYet,
      Ran, Status
<1>3. ASSUME NEW w \in Worker, Request(w), ~UNCHANGED vars
      PROVE  Runs'
  <2>1. \A v \in Worker : pc[v] # "idle" => v = w
    BY <1>3, BeginsAlone
  <2>2. ASSUME NEW e \in EffectId, Handle(w, e)
        PROVE  Runs'
    BY <2>1, <2>2, FreshCopies, FreshKeepsRuns DEF Handle, history
  <2>3. ASSUME NEW t \in TransactionId, Approve(w, t) \/ Deny(w, t) \/ Resume(w, t)
        PROVE  Runs'
    BY <2>1, <2>3, MoveKeepsRuns DEF Approve, Deny, Resume, store, history
  <2> QED BY <1>3, <2>2, <2>3 DEF Request, Replay
<1>4. ASSUME NEW w \in Worker, Raise(w)
      PROVE  Runs'
  BY <1>4, TheCall, MoveKeepsRuns DEF Raise, Return, store, history
<1>5. ASSUME NEW p \in Process, Terminate(p)
      PROVE  Runs'
  BY <1>5, NobodyLeft
  DEF Terminate, store, history, Runs, HeldBeforeEffect, AtMostOncePerTransaction, NotRunYet,
      Ran, Status
<1>6. ASSUME NEW p \in Process, Start(p)
      PROVE  Runs'
  <2>1. \A t \in TransactionId : Status(t)' \in Held => Status(t) \in Held
    BY <1>6, RecoveredRow DEF Start, Held
  <2>2. HeldBeforeEffect'
    BY <1>6, <2>1 DEF Start, history, Runs, HeldBeforeEffect, Held, Ran
  <2> QED
    BY <1>6, <2>2 DEF Start, call, history, Runs, AtMostOncePerTransaction, NotRunYet, Ran
<1>7. CASE OpenStore
  BY <1>7 DEF OpenStore, SoleBroker
<1> QED BY <1>1, <1>2, <1>3, <1>4, <1>5, <1>6, <1>7 DEF Next
-----------------------------------------------------------------------------
(* Uncertain rows: who is executing what                                   *)

\* An EXECUTING row of a running broker is the row of the call that is under way.
LEMMA AttendedByTheCall ==
    ASSUME ExecutingIsAttended, errors = 0, NEW p \in Process, up[p],
           NEW w \in Worker, \A v \in Worker : pc[v] # "idle" => v = w,
           NEW t \in TransactionId, Status(t) = "EXECUTING"
    PROVE  t = current[w] /\ pc[w] # "idle" /\ Executing(w)
BY DEF ExecutingIsAttended, Executing, Guarded

LEMMA SaveKeepsAttended ==
    ASSUME CallInv, SoleCalls, ExecutingIsAttended, NEW w \in Worker, pc[w] # "idle",
           NEW status \in EffectStatus, NEW decision \in Decision, UNCHANGED <<up, errors>>,
           NEW label, \/ SaveThen(w, Update(w, status, decision), label)
                      \/ SaveAndReturn(w, Update(w, status, decision)) /\ label = "idle",
           status = "EXECUTING" => label = "gateway"
    PROVE  ExecutingIsAttended'
<1> SUFFICES ASSUME NEW t \in TransactionId, Status(t)' = "EXECUTING",
                    NEW p \in Process, up[p], errors = 0
             PROVE  \E v \in Worker : current'[v] = t /\ Executing(v)'
  BY DEF ExecutingIsAttended
<1>1. save_transaction(current[w], Update(w, status, decision))
  BY DEF SaveThen, SaveAndReturn
<1>2. \A v \in Worker : pc[v] # "idle" => v = w
  BY TheCall
<1>3. CASE t = current[w]
  <2>1. Status(t)' = status
    BY <1>1, <1>3, SavedRow
  <2>2. label = "gateway"
    BY <2>1
  <2>3. pc'[w] = "gateway" /\ current'[w] = t
    BY <1>2, <1>3, <2>2, OnlyThisCall DEF SaveThen
  <2> QED BY <2>3 DEF Executing, Guarded
<1>4. CASE t # current[w]
  <2>1. Status(t) = "EXECUTING"
    BY <1>1, <1>4, SavedRow
  <2> QED BY <1>2, <1>4, <2>1, AttendedByTheCall
<1> QED BY <1>3, <1>4

LEMMA MoveKeepsAttended ==
    ASSUME CallInv, SoleCalls, ExecutingIsAttended, NEW w \in Worker, pc[w] # "idle",
           UNCHANGED <<transactions, up, errors>>,
           NEW label, NEW t, NEW copy, Continue(w, label, t, copy),
           \/ Status(current[w]) # "EXECUTING"
           \/ label \in Guarded \cup {"fail"} /\ t = current[w]
    PROVE  ExecutingIsAttended'
<1> SUFFICES ASSUME NEW u \in TransactionId, Status(u) = "EXECUTING",
                    NEW p \in Process, up[p], errors = 0
             PROVE  \E v \in Worker : current'[v] = u /\ Executing(v)'
  BY DEF ExecutingIsAttended, Status
<1>1. \A v \in Worker : pc[v] # "idle" => v = w
  BY TheCall
<1>2. u = current[w]
  BY <1>1, AttendedByTheCall
<1>3. label \in Guarded \cup {"fail"} /\ t = current[w]
  BY <1>2
<1>4. pc'[w] = label /\ current'[w] = u
  BY <1>1, <1>2, <1>3, OnlyThisCall
<1> QED BY <1>3, <1>4 DEF Executing

\* Where no call is under way nothing is EXECUTING, and a fresh row is not either.
LEMMA FreshKeepsAttended ==
    ASSUME CallInv, ExecutingIsAttended, UNCHANGED <<up, errors>>,
           NEW w \in Worker, \A v \in Worker : pc[v] # "idle" => v = w,
           pc[w] \in {"idle", "repair_child"},
           NEW u \in TransactionId, Status(u) = "ABSENT", NEW copy \in EffectTransaction,
           save_transaction(u, copy), copy.status # "EXECUTING"
    PROVE  ExecutingIsAttended'
<1> SUFFICES ASSUME NEW t \in TransactionId, Status(t)' = "EXECUTING",
                    NEW p \in Process, up[p], errors = 0
             PROVE  FALSE
  BY DEF ExecutingIsAttended
<1>1. CASE t = u
  <2>1. Status(t)' = copy.status
    BY <1>1, FreshSave
  <2> QED BY <2>1
<1>2. CASE t # u
  <2>1. Status(t) = "EXECUTING"
    BY <1>2, FreshSave
  <2> QED BY <2>1, AttendedByTheCall DEF Executing, Guarded
<1> QED BY <1>1, <1>2

LEMMA StepKeepsAttended ==
    ASSUME CallInv, SoleCalls, ExecutingIsAttended, NEW w \in Worker, Step(w)
    PROVE  ExecutingIsAttended'
<1>0. pc[w] # "idle" => /\ row[w].status \in StatusAt(pc[w])
                        /\ row[w].decision \in Decision
                        /\ \A v \in Worker : pc[v] # "idle" => v = w
                        /\ Status(current[w]) = row[w].status
  BY TheCall
<1>1. CASE Check(w)
  BY <1>0, <1>1, SaveKeepsAttended DEF Check, EffectStatus, bounds
<1>2. CASE StopTool(w)
  <2>1. PICK status \in {"BLOCKED", "WAITING_APPROVAL"}, decision \in Decision :
          SaveAndReturn(w, Update(w, status, decision))
    BY <1>2 DEF StopTool, Decision
  <2> QED
    BY <1>0, <1>2, <2>1, SaveKeepsAttended DEF StopTool, EffectStatus, bounds
<1>3. CASE StopResponse(w)
  BY <1>0, <1>3, SaveKeepsAttended DEF StopResponse, EffectStatus, Decision, bounds
<1>4. CASE UnregisteredTool(w)
  BY <1>0, <1>4, MoveKeepsAttended DEF UnregisteredTool, Return, store, bounds, StatusAt
<1>5. CASE Authorize(w)
  BY <1>0, <1>5, SaveKeepsAttended DEF Authorize, EffectStatus, Decision, bounds
<1>6. CASE RepairParent(w)
  BY <1>0, <1>6, SaveKeepsAttended
  DEF RepairParent, CloseRepaired, EffectStatus, Decision, bounds
<1>7. CASE RepairChild(w)
  <2>1. Child(w) \in EffectTransaction /\ Child(w).status # "EXECUTING"
    BY <1>7, FreshCopies DEF RepairChild, Child
  <2> QED
    BY <1>0, <1>7, <2>1, FreshKeepsAttended DEF RepairChild, bounds
<1>8. CASE Execute(w)
  BY <1>0, <1>8, SaveKeepsAttended DEF Execute, EffectStatus, bounds
<1>9. CASE GatewayCheck(w)
  BY <1>0, <1>9, MoveKeepsAttended DEF GatewayCheck, store, bounds, Guarded
<1>10. CASE Backend(w)
  BY <1>0, <1>10, MoveKeepsAttended DEF Backend, store, bounds, Guarded
<1>11. CASE Persist(w)
  BY <1>0, <1>11, MoveKeepsAttended DEF Persist, bounds, Guarded
<1>12. CASE Settle(w)
  BY <1>0, <1>12, SaveKeepsAttended DEF Settle, EffectStatus, bounds
<1>13. CASE Report(w)
  BY <1>0, <1>13, MoveKeepsAttended DEF Report, Return, store, bounds, StatusAt
<1>14. CASE Fail(w)
  BY <1>0, <1>14, SaveKeepsAttended DEF Fail, EffectStatus, bounds
<1>15. CASE BlockDenied(w)
  BY <1>0, <1>15, SaveKeepsAttended DEF BlockDenied, EffectStatus, Decision, bounds
<1>16. CASE Recheck(w)
  BY <1>0, <1>16, SaveKeepsAttended DEF Recheck, EffectStatus, bounds
<1> QED
  BY <1>1, <1>2, <1>3, <1>4, <1>5, <1>6, <1>7, <1>8, <1>9, <1>10, <1>11, <1>12, <1>13,
     <1>14, <1>15, <1>16
  DEF Step

LEMMA NextKeepsAttended ==
    ASSUME SoleBroker, CallInv, SoleCalls, ExecutingIsAttended, [Next]_vars
    PROVE  ExecutingIsAttended'
<1>1. ASSUME NEW w \in Worker, Step(w)
      PROVE  ExecutingIsAttended'
  BY <1>1, StepKeepsAttended
<1>2. CASE UNCHANGED vars
  BY <1>2 DEF vars, store, call, bounds, ExecutingIsAttended, Executing, Status
<1>3. ASSUME NEW w \in Worker, Request(w), ~UNCHANGED vars
      PROVE  ExecutingIsAttended'
  <2>1. \A v \in Worker : pc[v] = "idle"
    BY <1>3, BeginsAlone
  <2>2. ASSUME NEW e \in EffectId, Handle(w, e)
        PROVE  ExecutingIsAttended'
    <3>1. create(e) \in EffectTransaction /\ create(e).status # "EXECUTING"
      BY FreshCopies DEF create
    <3> QED BY <2>1, <2>2, <3>1, FreshKeepsAttended DEF Handle, bounds
  <2>3. ASSUME NEW t \in TransactionId, Approve(w, t) \/ Deny(w, t) \/ Resume(w, t)
        PROVE  ExecutingIsAttended'
    <3>1. UNCHANGED <<transactions, up, errors>>
      BY <2>3 DEF Approve, Deny, Resume, store, bounds
    <3> QED BY <2>1, <3>1 DEF ExecutingIsAttended, Executing, Guarded, Status
  <2> QED BY <1>3, <2>2, <2>3 DEF Request, Replay
<1>4. ASSUME NEW w \in Worker, Raise(w)
      PROVE  ExecutingIsAttended'
  BY <1>4 DEF Raise, ExecutingIsAttended, CallInv, TypeOK
<1>5. ASSUME NEW p \in Process, Terminate(p)
      PROVE  ExecutingIsAttended'
  BY <1>5, NobodyLeft DEF ExecutingIsAttended
<1>6. ASSUME NEW p \in Process, Start(p)
      PROVE  ExecutingIsAttended'
  <2>1. \A t \in TransactionId : Status(t)' # "EXECUTING"
    BY <1>6, RecoveredRow DEF Start
  <2> QED BY <2>1 DEF ExecutingIsAttended
<1>7. CASE OpenStore
  BY <1>7 DEF OpenStore, SoleBroker
<1> QED BY <1>1, <1>2, <1>3, <1>4, <1>5, <1>6, <1>7 DEF Next

-----------------------------------------------------------------------------
(* The theorems                                                            *)

SoleInv == CallInv /\ SoleCalls /\ Runs /\ ExecutingIsAttended

LEMMA InitSole == Init => SoleInv
<1> SUFFICES ASSUME Init PROVE SoleInv
  OBVIOUS
<1>1. CallInv
  BY InitCalls
<1>2. SoleCalls
  BY DEF Init, SoleCalls, OneCall, CallsAreUp, CopyIsCurrent, Busy
<1>3. Runs
  BY DEF Init, Runs, HeldBeforeEffect, AtMostOncePerTransaction, NotRunYet, Ran
<1>4. ExecutingIsAttended
  BY DEF Init, ExecutingIsAttended
<1> QED BY <1>1, <1>2, <1>3, <1>4 DEF SoleInv

LEMMA NextKeepsSoleInv == SoleBroker /\ SoleInv /\ [Next]_vars => SoleInv'
BY NextKeepsCalls, NextKeepsSole, NextKeepsRuns, NextKeepsAttended DEF SoleInv

LEMMA SoleInvariant == ASSUME SoleBroker PROVE Spec => []SoleInv
BY InitSole, NextKeepsSoleInv, PTL DEF Spec

\* A sole broker, whatever crashes or raises and however often humans and operators send
\* transactions back: a transaction that is held has reached no backend.
THEOREM HeldHasNotRun == ASSUME SoleBroker PROVE Spec => []HeldBeforeEffect
<1>1. SoleInv => HeldBeforeEffect
  BY DEF SoleInv, Runs
<1> QED BY <1>1, SoleInvariant, PTL

\* A sole broker runs the backend at most once on behalf of one transaction.
THEOREM AtMostOnce == ASSUME SoleBroker PROVE Spec => []AtMostOncePerTransaction
<1>1. SoleInv => AtMostOncePerTransaction
  BY DEF SoleInv, Runs
<1> QED BY <1>1, SoleInvariant, PTL

\* While a sole broker is up, every EXECUTING row has a live call behind it, unless an
\* exception kept a call from saving its outcome.
THEOREM UncertainAttended == ASSUME SoleBroker PROVE Spec => []ExecutingIsAttended
<1>1. SoleInv => ExecutingIsAttended
  BY DEF SoleInv
<1> QED BY <1>1, SoleInvariant, PTL
-----------------------------------------------------------------------------
(* The refinement: the broker implements EffectLifecycle                   *)

\* A save follows an edge of the lifecycle.
LEMMA SaveAdvances ==
    ASSUME CallInv, SoleCalls, NEW w \in Worker, pc[w] # "idle",
           NEW status \in EffectStatus, NEW decision \in Decision, UNCHANGED ran,
           \/ SaveAndReturn(w, Update(w, status, decision))
           \/ \E label : SaveThen(w, Update(w, status, decision), label),
           <<Status(current[w]), status>> \in Lifecycle!Edge
    PROVE  Lifecycle!Next
<1>1. /\ current[w] \in TransactionId
      /\ save_transaction(current[w], Update(w, status, decision))
  BY TheCall DEF SaveThen, SaveAndReturn
<1>2. ASSUME NEW t \in TransactionId
      PROVE  Status(t)' = IF t = current[w] THEN status ELSE Status(t)
  BY <1>1, SavedRow
<1>3. [t \in TransactionId |-> Status(t)]'
        = [[t \in TransactionId |-> Status(t)] EXCEPT ![current[w]] = status]
  BY <1>2
<1>4. Lifecycle!Advance(current[w], status)
  BY <1>1, <1>3 DEF Lifecycle!Advance
<1>5. status \in {e[2] : e \in Lifecycle!Edge}
  <2>1. <<Status(current[w]), status>>[2] = status
    OBVIOUS
  <2> QED BY <2>1
<1> QED BY <1>1, <1>4, <1>5 DEF Lifecycle!Next

\* A step that changes no status and runs no backend is none of the lifecycle's.
LEMMA MoveStutters ==
    ASSUME UNCHANGED <<transactions, ran>>
    PROVE  UNCHANGED Lifecycle!lifecycle
BY DEF Status, Lifecycle!lifecycle

LEMMA FreshRowStates ==
    ASSUME CallInv, NEW u \in TransactionId, Status(u) = "ABSENT",
           NEW copy \in EffectTransaction, save_transaction(u, copy)
    PROVE  [t \in TransactionId |-> Status(t)]'
                = [[t \in TransactionId |-> Status(t)] EXCEPT ![u] = copy.status]
<1>1. ASSUME NEW t \in TransactionId
      PROVE  Status(t)' = IF t = u THEN copy.status ELSE Status(t)
  BY FreshSave
<1> QED BY <1>1

LEMMA HandleSubmits ==
    ASSUME CallInv, NEW w \in Worker, NEW e \in EffectId, Handle(w, e)
    PROVE  Lifecycle!Next
<1>1. PICK u \in TransactionId, copy \in {create(e)} :
        Status(u) = "ABSENT" /\ save_transaction(u, copy)
  BY DEF Handle
<1>2. copy \in EffectTransaction /\ copy.status = "CREATED"
  BY <1>1, FreshCopies DEF create
<1>3. Lifecycle!Submit(u)
  BY <1>1, <1>2, FreshRowStates DEF Lifecycle!Submit, Handle, history
<1> QED BY <1>3 DEF Lifecycle!Next

LEMMA RepairChildDerives ==
    ASSUME CallInv, SoleCalls, NEW w \in Worker, RepairChild(w)
    PROVE  Lifecycle!Next
<1>1. PICK u \in TransactionId, copy \in {Child(w)} :
        Status(u) = "ABSENT" /\ save_transaction(u, copy)
  BY DEF RepairChild
<1>2. copy \in EffectTransaction /\ copy.status = "AUTHORIZED"
  BY <1>1, FreshCopies DEF RepairChild, Child
<1>3. current[w] \in TransactionId /\ Status(current[w]) = "BLOCKED"
  BY TheCall DEF RepairChild, StatusAt
<1>4. Lifecycle!Derive(u, current[w])
  BY <1>1, <1>2, <1>3, FreshRowStates DEF Lifecycle!Derive, RepairChild, history
<1> QED BY <1>3, <1>4 DEF Lifecycle!Next

LEMMA BackendRuns ==
    ASSUME CallInv, SoleCalls, Runs, NEW w \in Worker, Backend(w)
    PROVE  Lifecycle!Next \/ UNCHANGED Lifecycle!lifecycle
<1>1. /\ current[w] \in TransactionId
      /\ Status(current[w]) = "EXECUTING"
      /\ ran[current[w]] = 0
  BY TheCall DEF Backend, StatusAt, Runs, NotRunYet, Ran, CallInv, TypeOK
<1>2. [t \in TransactionId |-> Status(t)]' = [t \in TransactionId |-> Status(t)]
  BY DEF Backend, store, Status
<1>3. CASE UNCHANGED ran
  BY <1>2, <1>3 DEF Lifecycle!lifecycle
<1>4. CASE ~UNCHANGED ran
  <2>1. ran' = [ran EXCEPT ![current[w]] = 1]
    BY <1>1, <1>4 DEF Backend
  <2>2. Lifecycle!Run(current[w])
    BY <1>1, <1>2, <2>1 DEF Lifecycle!Run
  <2> QED BY <1>1, <2>2 DEF Lifecycle!Next
<1> QED BY <1>3, <1>4

LEMMA StartRecovers ==
    ASSUME CallInv, NEW p \in Process, Start(p)
    PROVE  Lifecycle!Next
<1>1. ASSUME NEW t \in TransactionId
      PROVE  Status(t)' = IF Status(t) = "EXECUTING" THEN "REQUIRE_HUMAN_REVIEW" ELSE Status(t)
  BY RecoveredRow DEF Start
<1>2. Lifecycle!Recover
  BY <1>1 DEF Lifecycle!Recover, Start, history
<1> QED BY <1>2 DEF Lifecycle!Next

LEMMA StepRefines ==
    ASSUME CallInv, SoleCalls, Runs, NEW w \in Worker, Step(w)
    PROVE  Lifecycle!Next \/ UNCHANGED Lifecycle!lifecycle
<1>0. pc[w] # "idle" => /\ row[w].decision \in Decision
                        /\ Status(current[w]) \in StatusAt(pc[w])
  BY TheCall
<1>1. CASE Check(w)
  BY <1>0, <1>1, SaveAdvances DEF Check, EffectStatus, StatusAt, history, Lifecycle!Edge
<1>2. CASE StopTool(w)
  <2>1. PICK status \in {"BLOCKED", "WAITING_APPROVAL"}, decision \in Decision :
          SaveAndReturn(w, Update(w, status, decision))
    BY <1>2 DEF StopTool, Decision
  <2> QED
    BY <1>0, <1>2, <2>1, SaveAdvances
    DEF StopTool, EffectStatus, StatusAt, history, Lifecycle!Edge
<1>3. CASE StopResponse(w)
  BY <1>0, <1>3, SaveAdvances
  DEF StopResponse, EffectStatus, Decision, StatusAt, history, Lifecycle!Edge
<1>4. CASE UnregisteredTool(w)
  BY <1>4, MoveStutters DEF UnregisteredTool, store, history
<1>5. CASE Authorize(w)
  BY <1>0, <1>5, SaveAdvances
  DEF Authorize, EffectStatus, Decision, StatusAt, history, Lifecycle!Edge
<1>6. CASE RepairParent(w)
  BY <1>0, <1>6, SaveAdvances
  DEF RepairParent, CloseRepaired, EffectStatus, Decision, StatusAt, history, Lifecycle!Edge
<1>7. CASE RepairChild(w)
  BY <1>7, RepairChildDerives
<1>8. CASE Execute(w)
  BY <1>0, <1>8, SaveAdvances DEF Execute, EffectStatus, StatusAt, history, Lifecycle!Edge
<1>9. CASE GatewayCheck(w)
  BY <1>9, MoveStutters DEF GatewayCheck, store, history
<1>10. CASE Backend(w)
  BY <1>10, BackendRuns
<1>11. CASE Persist(w)
  BY <1>11, MoveStutters DEF Persist, history
<1>12. CASE Settle(w)
  BY <1>0, <1>12, SaveAdvances DEF Settle, EffectStatus, StatusAt, history, Lifecycle!Edge
<1>13. CASE Report(w)
  BY <1>13, MoveStutters DEF Report, store, history
<1>14. CASE Fail(w)
  BY <1>0, <1>14, SaveAdvances DEF Fail, EffectStatus, StatusAt, history, Lifecycle!Edge
<1>15. CASE BlockDenied(w)
  BY <1>0, <1>15, SaveAdvances
  DEF BlockDenied, EffectStatus, Decision, StatusAt, history, Lifecycle!Edge
<1>16. CASE Recheck(w)
  BY <1>0, <1>16, SaveAdvances DEF Recheck, EffectStatus, StatusAt, Lifecycle!Edge
<1> QED
  BY <1>1, <1>2, <1>3, <1>4, <1>5, <1>6, <1>7, <1>8, <1>9, <1>10, <1>11, <1>12, <1>13,
     <1>14, <1>15, <1>16
  DEF Step

LEMMA NextRefines ==
    ASSUME SoleBroker, SoleInv, [Next]_vars
    PROVE  [Lifecycle!Next]_Lifecycle!lifecycle
<1>0. CallInv /\ SoleCalls /\ Runs
  BY DEF SoleInv
<1>1. ASSUME NEW w \in Worker, Step(w)
      PROVE  Lifecycle!Next \/ UNCHANGED Lifecycle!lifecycle
  BY <1>0, <1>1, StepRefines
<1>2. ASSUME NEW w \in Worker, Request(w)
      PROVE  Lifecycle!Next \/ UNCHANGED Lifecycle!lifecycle
  <2>1. ASSUME NEW e \in EffectId, Handle(w, e)
        PROVE  Lifecycle!Next
    BY <1>0, <2>1, HandleSubmits
  <2>2. ASSUME UNCHANGED <<transactions, ran>>
        PROVE  UNCHANGED Lifecycle!lifecycle
    BY <2>2, MoveStutters
  <2> QED
    BY <1>2, <2>1, <2>2
    DEF Request, Replay, Approve, Deny, Resume, vars, store, history
<1>3. ASSUME NEW w \in Worker, Raise(w)
      PROVE  UNCHANGED Lifecycle!lifecycle
  BY <1>3, MoveStutters DEF Raise, store, history
<1>4. ASSUME NEW p \in Process, Terminate(p)
      PROVE  UNCHANGED Lifecycle!lifecycle
  BY <1>4, MoveStutters DEF Terminate, store, history
<1>5. ASSUME NEW p \in Process, Start(p)
      PROVE  Lifecycle!Next
  BY <1>0, <1>5, StartRecovers
<1>6. CASE OpenStore
  BY <1>6 DEF OpenStore, SoleBroker
<1>7. CASE UNCHANGED vars
  BY <1>7, MoveStutters DEF vars, store, history
<1> QED BY <1>1, <1>2, <1>3, <1>4, <1>5, <1>6, <1>7 DEF Next

\* The broker starts with every transaction absent and never run, as the lifecycle does.
LEMMA InitRefines == Init => Lifecycle!Init
BY DEF Init, StoreInit, Status, Lifecycle!Init

\* A sole broker implements the life of a transaction that docs/architecture.md draws: each
\* of its steps follows one edge of the diagram, derives a repair child, runs a backend for
\* the first time, recovers, or shows nothing.
THEOREM LifecycleImplemented == ASSUME SoleBroker PROVE Spec => ImplementsLifecycle
BY InitRefines, NextRefines, SoleInvariant, PTL DEF Spec, ImplementsLifecycle, Lifecycle!Spec

-----------------------------------------------------------------------------
(* Repairs: a child and the original it closes                             *)

\* A call that is about to create a repair child creates the first of its original.
NoChildYet ==
    \A w \in Worker : pc[w] = "repair_child" =>
        \A d \in TransactionId :
            transactions[d] # None => transactions[d].repair_parent # current[w]

Repairs == RepairClosesParent /\ NoChildYet

\* What RepairClosesParent says of one child and its original.
Closed(p, c) == /\ Status(p) = "BLOCKED"
                /\ transactions[p].decision = "REPAIR"
                /\ transactions[p].effect_id = transactions[c].effect_id
                /\ ~Ran(p)
                /\ \A d \in TransactionId \ {c} :
                    transactions[d] # None => transactions[d].repair_parent # p

IsChild(c, p) == transactions[c] # None /\ transactions[c].repair_parent = p /\ p # None

LEMMA RepairsByRow ==
    RepairClosesParent <=> \A c \in TransactionId : \A p : IsChild(c, p) => Closed(p, c)
BY DEF RepairClosesParent, IsChild, Closed

LEMMA RepairsByRowNext ==
    RepairClosesParent' <=> \A c \in TransactionId : \A p : IsChild(c, p)' => Closed(p, c)'
BY DEF RepairClosesParent, IsChild, Closed

LEMMA ParentOf ==
    ASSUME CallInv, NEW c \in TransactionId, NEW p, IsChild(c, p)
    PROVE  p \in TransactionId /\ transactions[c] \in EffectTransaction
BY DEF IsChild, CallInv, TypeOK, StoreTypeOK, EffectTransaction

\* What all steps but one do to the rows: parents and effects stay, a fresh row is nobody's
\* child, and what is BLOCKED is neither saved nor run.
BlockedStay ==
    /\ \A t \in TransactionId : transactions[t] # None =>
        /\ transactions'[t] # None
        /\ transactions'[t].repair_parent = transactions[t].repair_parent
        /\ transactions'[t].effect_id = transactions[t].effect_id
    /\ \A t \in TransactionId : transactions[t] = None /\ transactions'[t] # None =>
        transactions'[t].repair_parent = None
    /\ \A t \in TransactionId : Status(t) = "BLOCKED" =>
        transactions'[t] = transactions[t] /\ Status(t)' = Status(t) /\ ran'[t] = ran[t]

LEMMA BlockedStayClosed ==
    ASSUME CallInv, RepairClosesParent, BlockedStay
    PROVE  RepairClosesParent'
<1> SUFFICES ASSUME NEW c \in TransactionId, NEW p, IsChild(c, p)'
             PROVE  Closed(p, c)'
  BY RepairsByRowNext
<1>1. \A d \in TransactionId : transactions'[d] # None /\ transactions'[d].repair_parent = p
                                => IsChild(d, p)
  BY DEF IsChild, BlockedStay
<1>2. IsChild(c, p) /\ Closed(p, c)
  BY <1>1, RepairsByRow DEF IsChild
<1>3. p \in TransactionId
  BY <1>2, ParentOf
<1>4. Status(p)' = "BLOCKED" /\ transactions'[p] = transactions[p] /\ ran'[p] = ran[p]
  BY <1>2, <1>3 DEF Closed, BlockedStay
<1>5. transactions'[c].effect_id = transactions[c].effect_id
  BY <1>2 DEF IsChild, BlockedStay
<1>6. \A d \in TransactionId \ {c} :
        transactions'[d] # None => transactions'[d].repair_parent # p
  BY <1>1, <1>2 DEF Closed, IsChild
<1> QED BY <1>2, <1>4, <1>5, <1>6 DEF Closed, Ran

LEMMA SaveLeavesBlocked ==
    ASSUME CallInv, SoleCalls, NEW w \in Worker, pc[w] # "idle",
           NEW status \in EffectStatus, NEW decision \in Decision, UNCHANGED ran,
           save_transaction(current[w], Update(w, status, decision)),
           Status(current[w]) # "BLOCKED"
    PROVE  BlockedStay
<1>1. /\ current[w] \in TransactionId
      /\ transactions[current[w]] # None
  BY TheCall, NoneIsFresh
<1>2. ASSUME NEW t \in TransactionId, t # current[w]
      PROVE  transactions'[t] = transactions[t] /\ Status(t)' = Status(t)
  BY <1>2, SavedRow
<1>3. /\ transactions'[current[w]] # None
      /\ transactions'[current[w]].repair_parent = transactions[current[w]].repair_parent
      /\ transactions'[current[w]].effect_id = transactions[current[w]].effect_id
  BY <1>1, SavedRow
<1> QED BY <1>1, <1>2, <1>3 DEF BlockedStay

LEMMA FreshLeavesBlocked ==
    ASSUME CallInv, NEW u \in TransactionId, Status(u) = "ABSENT", UNCHANGED ran,
           NEW copy \in EffectTransaction, copy.repair_parent = None, save_transaction(u, copy)
    PROVE  BlockedStay
<1>1. ASSUME NEW t \in TransactionId, t # u
      PROVE  transactions'[t] = transactions[t] /\ Status(t)' = Status(t)
  BY <1>1, FreshSave
<1>2. transactions[u] = None /\ transactions'[u] = copy
  BY FreshSave
<1> QED BY <1>1, <1>2 DEF BlockedStay

LEMMA RecoveryLeavesBlocked ==
    ASSUME CallInv, recover_uncertain_executions, UNCHANGED ran
    PROVE  BlockedStay
<1>1. ASSUME NEW t \in TransactionId, transactions[t] # None
      PROVE  /\ transactions'[t] # None
             /\ transactions'[t].repair_parent = transactions[t].repair_parent
             /\ transactions'[t].effect_id = transactions[t].effect_id
  BY <1>1, RecoveredRow
<1>2. ASSUME NEW t \in TransactionId, transactions[t] = None
      PROVE  transactions'[t] = None
  BY <1>2, RecoveredRow DEF Status
<1>3. ASSUME NEW t \in TransactionId, Status(t) = "BLOCKED"
      PROVE  transactions'[t] = transactions[t] /\ Status(t)' = Status(t)
  BY <1>3, RecoveredRow
<1> QED BY <1>1, <1>2, <1>3 DEF BlockedStay

LEMMA SameRowsLeaveBlocked ==
    ASSUME UNCHANGED <<transactions, ran>>
    PROVE  BlockedStay
BY DEF BlockedStay, Status

\* A call that goes on to anything but the creation of a child.
LEMMA NoRepairBegun ==
    ASSUME CallInv, NEW w \in Worker, \A v \in Worker : pc[v] # "idle" => v = w,
           NEW label, label # "repair_child", NEW t, NEW copy, Continue(w, label, t, copy)
    PROVE  NoChildYet'
BY OnlyThisCall DEF NoChildYet

LEMMA SaveKeepsRepairs ==
    ASSUME CallInv, SoleCalls, Repairs, NEW w \in Worker, pc[w] # "idle",
           NEW status \in EffectStatus, NEW decision \in Decision, UNCHANGED ran,
           NEW label, \/ SaveThen(w, Update(w, status, decision), label)
                      \/ SaveAndReturn(w, Update(w, status, decision)) /\ label = "idle",
           label # "repair_child", Status(current[w]) # "BLOCKED"
    PROVE  Repairs'
<1>1. RepairClosesParent'
  BY SaveLeavesBlocked, BlockedStayClosed DEF SaveThen, SaveAndReturn, Repairs
<1>2. NoChildYet'
  BY TheCall, NoRepairBegun DEF SaveThen, SaveAndReturn, Return
<1> QED BY <1>1, <1>2 DEF Repairs

LEMMA MoveKeepsRepairs ==
    ASSUME CallInv, Repairs, NEW w \in Worker, \A v \in Worker : pc[v] # "idle" => v = w,
           NEW label, NEW t, NEW copy, Continue(w, label, t, copy), label # "repair_child",
           UNCHANGED <<transactions, ran>>
    PROVE  Repairs'
BY SameRowsLeaveBlocked, BlockedStayClosed, NoRepairBegun DEF Repairs

\* The original is closed before its only child is created.
LEMMA RepairParentKeepsRepairs ==
    ASSUME CallInv, SoleCalls, Repairs, NEW w \in Worker, RepairParent(w)
    PROVE  Repairs'
<1>1. /\ pc[w] # "idle"
      /\ current[w] \in TransactionId /\ Status(current[w]) = "CHECKING"
      /\ \A v \in Worker : pc[v] # "idle" => v = w
  BY TheCall DEF RepairParent, StatusAt
<1>2. BlockedStay
  BY <1>1, SaveLeavesBlocked
  DEF RepairParent, CloseRepaired, SaveThen, EffectStatus, Decision, history
<1>3. RepairClosesParent'
  BY <1>2, BlockedStayClosed DEF Repairs
<1>4. ASSUME NEW d \in TransactionId, transactions'[d] # None,
             transactions'[d].repair_parent = current[w]
      PROVE  FALSE
  <2>1. current[w] # None
    BY <1>1, NoneIsFresh
  <2>2. IsChild(d, current[w])
    BY <1>2, <1>4, <2>1 DEF BlockedStay, IsChild
  <2> QED BY <1>1, <2>2, RepairsByRow DEF Closed, Repairs
<1>5. ASSUME NEW v \in Worker, pc'[v] = "repair_child"
      PROVE  current'[v] = current[w]
  BY <1>1, <1>5, OnlyThisCall DEF RepairParent, CloseRepaired, SaveThen
<1>6. NoChildYet'
  BY <1>4, <1>5 DEF NoChildYet
<1> QED BY <1>3, <1>6 DEF Repairs

LEMMA RepairChildKeepsRepairs ==
    ASSUME CallInv, SoleCalls, Runs, Repairs, NEW w \in Worker, RepairChild(w)
    PROVE  Repairs'
<1>1. /\ pc[w] = "repair_child"
      /\ current[w] \in TransactionId
      /\ transactions[current[w]] = row[w] /\ row[w] \in EffectTransaction
      /\ Status(current[w]) = "BLOCKED" /\ row[w].decision = "REPAIR"
      /\ \A v \in Worker : pc[v] # "idle" => v = w
      /\ UNCHANGED ran
  BY TheCall DEF RepairChild, StatusAt, history
<1>2. PICK u \in TransactionId, copy \in {Child(w)} :
        Status(u) = "ABSENT" /\ save_transaction(u, copy) /\ Continue(w, "execute", u, copy)
  BY DEF RepairChild
<1>3. /\ copy \in EffectTransaction
      /\ copy.repair_parent = current[w] /\ copy.effect_id = row[w].effect_id
  BY <1>1, <1>2, FreshCopies DEF Child
<1>4. ASSUME NEW t \in TransactionId, t # u
      PROVE  transactions'[t] = transactions[t] /\ Status(t)' = Status(t)
  BY <1>2, <1>3, <1>4, FreshSave
<1>5. transactions[u] = None /\ transactions'[u] = copy
  BY <1>2, <1>3, FreshSave
<1>6. \A d \in TransactionId : transactions[d] # None => transactions[d].repair_parent # current[w]
  BY <1>1 DEF Repairs, NoChildYet
<1>7. ~Ran(current[w])
  BY <1>1 DEF Runs, HeldBeforeEffect
<1>8. ASSUME NEW c \in TransactionId, NEW p, IsChild(c, p)'
      PROVE  Closed(p, c)'
  <2>1. CASE c = u
    <3>1. p = current[w] /\ p # u
      BY <1>1, <1>2, <1>3, <1>5, <1>8, <2>1 DEF IsChild
    <3>2. Status(p)' = "BLOCKED" /\ transactions'[p] = row[w]
      BY <1>1, <1>4, <3>1
    <3>3. \A d \in TransactionId \ {c} :
            transactions'[d] # None => transactions'[d].repair_parent # p
      BY <1>4, <1>6, <2>1, <3>1
    <3> QED BY <1>1, <1>3, <1>5, <1>7, <2>1, <3>1, <3>2, <3>3 DEF Closed, Ran
  <2>2. CASE c # u
    <3>1. transactions'[c] = transactions[c] /\ IsChild(c, p)
      BY <1>4, <1>8, <2>2 DEF IsChild
    <3>2. Closed(p, c) /\ p \in TransactionId
      BY <3>1, RepairsByRow, ParentOf DEF Repairs
    <3>3. p # u /\ p # current[w]
      BY <1>2, <1>6, <3>1, <3>2 DEF Closed, IsChild
    <3>4. Status(p)' = Status(p) /\ transactions'[p] = transactions[p]
      BY <1>4, <3>2, <3>3
    <3>5. \A d \in TransactionId \ {c} :
            transactions'[d] # None => transactions'[d].repair_parent # p
      BY <1>3, <1>4, <1>5, <3>2, <3>3 DEF Closed
    <3> QED BY <1>1, <3>1, <3>2, <3>4, <3>5 DEF Closed, Ran
  <2> QED BY <2>1, <2>2
<1>9. RepairClosesParent'
  BY <1>8, RepairsByRowNext
<1>10. NoChildYet'
  BY <1>1, <1>2, NoRepairBegun
<1> QED BY <1>9, <1>10 DEF Repairs

LEMMA StepKeepsRepairs ==
    ASSUME CallInv, SoleCalls, Runs, Repairs, NEW w \in Worker, Step(w)
    PROVE  Repairs'
<1>0. pc[w] # "idle" => /\ row[w].status \in StatusAt(pc[w])
                        /\ row[w].decision \in Decision
                        /\ current[w] \in TransactionId
                        /\ \A v \in Worker : pc[v] # "idle" => v = w
                        /\ Status(current[w]) = row[w].status
  BY TheCall
<1>1. CASE Check(w)
  BY <1>0, <1>1, SaveKeepsRepairs DEF Check, EffectStatus, StatusAt, history
<1>2. CASE StopTool(w)
  <2>1. PICK status \in {"BLOCKED", "WAITING_APPROVAL"}, decision \in Decision :
          SaveAndReturn(w, Update(w, status, decision))
    BY <1>2 DEF StopTool, Decision
  <2> QED
    BY <1>0, <1>2, <2>1, SaveKeepsRepairs DEF StopTool, EffectStatus, StatusAt, history
<1>3. CASE StopResponse(w)
  BY <1>0, <1>3, SaveKeepsRepairs DEF StopResponse, EffectStatus, Decision, StatusAt, history
<1>4. CASE UnregisteredTool(w)
  BY <1>0, <1>4, MoveKeepsRepairs DEF UnregisteredTool, Return, store, history
<1>5. CASE Authorize(w)
  BY <1>0, <1>5, SaveKeepsRepairs DEF Authorize, EffectStatus, Decision, StatusAt, history
<1>6. CASE RepairParent(w)
  BY <1>6, RepairParentKeepsRepairs
<1>7. CASE RepairChild(w)
  BY <1>7, RepairChildKeepsRepairs
<1>8. CASE Execute(w)
  BY <1>0, <1>8, SaveKeepsRepairs DEF Execute, EffectStatus, StatusAt, history
<1>9. CASE GatewayCheck(w)
  BY <1>0, <1>9, MoveKeepsRepairs DEF GatewayCheck, store, history
<1>10. CASE Backend(w)
  <2>1. PICK label : label \in {"persist", "settle"} /\ Continue(w, label, current[w], row[w])
    BY <1>10 DEF Backend
  <2>2. \A t \in TransactionId : t # current[w] => ran'[t] = ran[t]
    BY <1>10 DEF Backend, CallInv, TypeOK
  <2>3. BlockedStay
    BY <1>0, <1>10, <2>2 DEF Backend, store, StatusAt, BlockedStay, Status
  <2> QED
    BY <1>0, <1>10, <2>1, <2>3, BlockedStayClosed, NoRepairBegun DEF Backend, Repairs
<1>11. CASE Persist(w)
  BY <1>0, <1>11, MoveKeepsRepairs DEF Persist, history
<1>12. CASE Settle(w)
  BY <1>0, <1>12, SaveKeepsRepairs DEF Settle, EffectStatus, StatusAt, history
<1>13. CASE Report(w)
  BY <1>0, <1>13, MoveKeepsRepairs DEF Report, Return, store, history
<1>14. CASE Fail(w)
  BY <1>0, <1>14, SaveKeepsRepairs DEF Fail, EffectStatus, StatusAt, history
<1>15. CASE BlockDenied(w)
  BY <1>0, <1>15, SaveKeepsRepairs DEF BlockDenied, EffectStatus, Decision, StatusAt, history
<1>16. CASE Recheck(w)
  BY <1>0, <1>16, SaveKeepsRepairs DEF Recheck, EffectStatus, StatusAt
<1> QED
  BY <1>1, <1>2, <1>3, <1>4, <1>5, <1>6, <1>7, <1>8, <1>9, <1>10, <1>11, <1>12, <1>13,
     <1>14, <1>15, <1>16
  DEF Step

LEMMA NextKeepsRepairs ==
    ASSUME SoleBroker, CallInv, SoleCalls, Runs, Repairs, [Next]_vars
    PROVE  Repairs'
<1>1. ASSUME NEW w \in Worker, Step(w)
      PROVE  Repairs'
  BY <1>1, StepKeepsRepairs
<1>2. CASE UNCHANGED vars
  BY <1>2, SameRowsLeaveBlocked, BlockedStayClosed
  DEF vars, store, call, history, Repairs, NoChildYet
<1>3. ASSUME NEW w \in Worker, Request(w), ~UNCHANGED vars
      PROVE  Repairs'
  <2>1. \A v \in Worker : pc[v] # "idle" => v = w
    BY <1>3, BeginsAlone
  <2>2. ASSUME NEW e \in EffectId, Handle(w, e)
        PROVE  Repairs'
    <3>1. create(e) \in EffectTransaction /\ create(e).repair_parent = None
      BY FreshCopies DEF create
    <3>2. BlockedStay
      BY <2>2, <3>1, FreshLeavesBlocked DEF Handle, history
    <3> QED
      BY <2>1, <2>2, <3>2, BlockedStayClosed, NoRepairBegun DEF Handle, Repairs
  <2>3. ASSUME NEW t \in TransactionId, Approve(w, t) \/ Deny(w, t) \/ Resume(w, t)
        PROVE  Repairs'
    BY <2>1, <2>3, MoveKeepsRepairs DEF Approve, Deny, Resume, store, history
  <2> QED BY <1>3, <2>2, <2>3 DEF Request, Replay
<1>4. ASSUME NEW w \in Worker, Raise(w)
      PROVE  Repairs'
  BY <1>4, TheCall, MoveKeepsRepairs DEF Raise, Return, store, history
<1>5. ASSUME NEW p \in Process, Terminate(p)
      PROVE  Repairs'
  BY <1>5, NobodyLeft, SameRowsLeaveBlocked, BlockedStayClosed
  DEF Terminate, store, history, Repairs, NoChildYet
<1>6. ASSUME NEW p \in Process, Start(p)
      PROVE  Repairs'
  BY <1>6, NobodyBusy, RecoveryLeavesBlocked, BlockedStayClosed
  DEF Start, call, history, Repairs, NoChildYet
<1>7. CASE OpenStore
  BY <1>7 DEF OpenStore, SoleBroker
<1> QED BY <1>1, <1>2, <1>3, <1>4, <1>5, <1>6, <1>7 DEF Next
-----------------------------------------------------------------------------
(* Effects: an effect is executed again only for a transaction sent back   *)

\* From the creation of a transaction to the call of its backend, and to the record of it.
Verifying == {"checking", "handle_tool", "handle_response", "repair_child"}
OnTheWay == Verifying \cup {"execute", "gateway", "backend", "persist"}

ReenteredIsStored == \A t \in reentered : transactions[t] # None

\* A transaction under verification is an original, unless it was sent back.
OriginalOrReentered(w) ==
    pc[w] \in Verifying => current[w] \in reentered \/ row[w].repair_parent = None

\* What handle's lookup found stays true: the effect is not stored before this call does it.
EffectStillFree(w) ==
    (pc[w] \in OnTheWay /\ SideEffect(row[w].effect_id) /\ ~Reentered(current[w]))
        => effects[row[w].effect_id] = None

\* A call that was not sent back is the first to report its effect as done.
SettlesFirst(w) ==
    (pc[w] = "settle" /\ SideEffect(row[w].effect_id) /\ ~Reentered(current[w])) =>
        \A u \in TransactionId :
            Status(u) = "SUCCEEDED" => transactions[u].effect_id # row[w].effect_id

FirstOrReentered ==
    \A w \in Worker : OriginalOrReentered(w) /\ EffectStillFree(w) /\ SettlesFirst(w)

Repeats == ReenteredIsStored /\ FirstOrReentered /\ RepetitionIsVisible

\* Rows stay, and keep their parents and effects.
ParentsStay ==
    \A t \in TransactionId : transactions[t] # None =>
        /\ transactions'[t] # None
        /\ transactions'[t].repair_parent = transactions[t].repair_parent
        /\ transactions'[t].effect_id = transactions[t].effect_id

LEMMA ReenteredStays ==
    ASSUME ParentsStay, reentered \subseteq reentered',
           NEW t \in TransactionId, transactions[t] # None, Reentered(t)
    PROVE  Reentered(t)'
BY DEF Reentered, ParentsStay

\* A step that reports no success.
LEMMA VisibleStays ==
    ASSUME CallInv, RepetitionIsVisible, ParentsStay, reentered \subseteq reentered',
           \A t \in TransactionId : Status(t)' = "SUCCEEDED" => Status(t) = "SUCCEEDED"
    PROVE  RepetitionIsVisible'
<1> SUFFICES ASSUME NEW t \in TransactionId, NEW u \in TransactionId, t # u,
                    Status(t)' = "SUCCEEDED", Status(u)' = "SUCCEEDED",
                    transactions'[t].effect_id = transactions'[u].effect_id,
                    SideEffect(transactions'[t].effect_id)
             PROVE  Reentered(t)' \/ Reentered(u)'
  BY DEF RepetitionIsVisible
<1>1. /\ Status(t) = "SUCCEEDED" /\ transactions[t] # None
      /\ Status(u) = "SUCCEEDED" /\ transactions[u] # None
  BY AbsentRow DEF CallInv, TypeOK
<1>2. /\ transactions'[t].effect_id = transactions[t].effect_id
      /\ transactions'[u].effect_id = transactions[u].effect_id
  BY <1>1 DEF ParentsStay
<1>3. Reentered(t) \/ Reentered(u)
  BY <1>1, <1>2 DEF RepetitionIsVisible
<1> QED BY <1>1, <1>3, ReenteredStays

\* The stored row behind a call.
LEMMA StoredRow ==
    ASSUME CallInv, SoleCalls, NEW w \in Worker, pc[w] # "idle"
    PROVE  /\ current[w] \in TransactionId
           /\ transactions[current[w]] # None
           /\ transactions[current[w]] = row[w]
           /\ row[w] \in EffectTransaction
           /\ \A v \in Worker : pc[v] # "idle" => v = w
BY TheCall, NoneIsFresh

LEMMA SaveKeepsParents ==
    ASSUME CallInv, SoleCalls, NEW w \in Worker, pc[w] # "idle",
           NEW status \in EffectStatus, NEW decision \in Decision,
           save_transaction(current[w], Update(w, status, decision))
    PROVE  /\ ParentsStay
           /\ status # "SUCCEEDED" =>
                \A t \in TransactionId : Status(t)' = "SUCCEEDED" => Status(t) = "SUCCEEDED"
<1>1. ASSUME NEW t \in TransactionId, t # current[w]
      PROVE  transactions'[t] = transactions[t] /\ Status(t)' = Status(t)
  BY <1>1, SavedRow
<1>2. ASSUME NEW t \in TransactionId, t = current[w]
      PROVE  /\ transactions'[t] # None
             /\ transactions'[t].repair_parent = transactions[t].repair_parent
             /\ transactions'[t].effect_id = transactions[t].effect_id
             /\ Status(t)' = status
  BY <1>2, SavedRow
<1> QED BY <1>1, <1>2 DEF ParentsStay

LEMMA FreshKeepsParents ==
    ASSUME CallInv, NEW u \in TransactionId, Status(u) = "ABSENT",
           NEW copy \in EffectTransaction, copy.status # "SUCCEEDED", save_transaction(u, copy)
    PROVE  /\ ParentsStay
           /\ \A t \in TransactionId : Status(t)' = "SUCCEEDED" => Status(t) = "SUCCEEDED"
<1>1. ASSUME NEW t \in TransactionId, t # u
      PROVE  transactions'[t] = transactions[t] /\ Status(t)' = Status(t)
  BY <1>1, FreshSave
<1>2. transactions[u] = None /\ Status(u)' = copy.status
  BY FreshSave
<1> QED BY <1>1, <1>2 DEF ParentsStay

LEMMA RecoveryKeepsParents ==
    ASSUME CallInv, recover_uncertain_executions
    PROVE  /\ ParentsStay
           /\ \A t \in TransactionId : Status(t)' = "SUCCEEDED" => Status(t) = "SUCCEEDED"
<1>1. ASSUME NEW t \in TransactionId, Status(t) = "EXECUTING"
      PROVE  /\ transactions'[t] # None
             /\ transactions'[t].repair_parent = transactions[t].repair_parent
             /\ transactions'[t].effect_id = transactions[t].effect_id
             /\ Status(t)' = "REQUIRE_HUMAN_REVIEW"
  BY <1>1, RecoveredRow
<1>2. ASSUME NEW t \in TransactionId, Status(t) # "EXECUTING"
      PROVE  transactions'[t] = transactions[t] /\ Status(t)' = Status(t)
  BY <1>2, RecoveredRow
<1> QED BY <1>1, <1>2 DEF ParentsStay

\* Rows stored and not reported: what is left to show is about the call that goes on.
LEMMA RepeatsFromTheCall ==
    ASSUME CallInv, Repeats, NEW w \in Worker, \A v \in Worker : pc[v] # "idle" => v = w,
           NEW label, NEW t, NEW copy, Continue(w, label, t, copy),
           ParentsStay, UNCHANGED reentered,
           \A u \in TransactionId : Status(u)' = "SUCCEEDED" => Status(u) = "SUCCEEDED",
           label # "settle" \/ ~SideEffect(copy.effect_id),
           label \in Verifying => t \in reentered \/ copy.repair_parent = None,
           (label \in OnTheWay /\ SideEffect(copy.effect_id) /\ ~Reentered(t)')
                => effects'[copy.effect_id] = None
    PROVE  Repeats'
<1>1. ReenteredIsStored'
  BY DEF Repeats, ReenteredIsStored, ParentsStay, CallInv, TypeOK
<1>2. RepetitionIsVisible'
  BY VisibleStays DEF Repeats
<1>3. ASSUME NEW v \in Worker, pc'[v] # "idle"
      PROVE  /\ OriginalOrReentered(v)'
             /\ EffectStillFree(v)'
             /\ SettlesFirst(v)'
  <2>1. pc'[v] = label /\ current'[v] = t /\ row'[v] = copy
    BY <1>3, OnlyThisCall
  <2> QED BY <2>1 DEF OriginalOrReentered, EffectStillFree, SettlesFirst, Reentered
<1>4. FirstOrReentered'
  BY <1>3 DEF FirstOrReentered, OriginalOrReentered, EffectStillFree, SettlesFirst,
              Verifying, OnTheWay
<1> QED BY <1>1, <1>2, <1>4 DEF Repeats

\* A save on the way to the backend.
LEMMA SaveKeepsRepeats ==
    ASSUME CallInv, SoleCalls, Repeats, NEW w \in Worker, pc[w] # "idle",
           NEW status \in EffectStatus, status # "SUCCEEDED", NEW decision \in Decision,
           NEW label, SaveThen(w, Update(w, status, decision), label),
           UNCHANGED <<effects, reentered>>, label # "settle",
           label \in Verifying => pc[w] \in Verifying,
           label \in OnTheWay => pc[w] \in OnTheWay
    PROVE  Repeats'
<1>1. /\ current[w] \in TransactionId /\ transactions[current[w]] # None
      /\ row[w] \in EffectTransaction
      /\ \A v \in Worker : pc[v] # "idle" => v = w
  BY StoredRow
<1>2. /\ ParentsStay
      /\ \A u \in TransactionId : Status(u)' = "SUCCEEDED" => Status(u) = "SUCCEEDED"
  BY SaveKeepsParents DEF SaveThen
<1>3. /\ Update(w, status, decision).effect_id = row[w].effect_id
      /\ Update(w, status, decision).repair_parent = row[w].repair_parent
  BY <1>1 DEF Update, EffectTransaction
<1>4. Continue(w, label, current[w], Update(w, status, decision))
  BY DEF SaveThen
<1>5. label \in Verifying => current[w] \in reentered \/ row[w].repair_parent = None
  BY DEF Repeats, FirstOrReentered, OriginalOrReentered
<1>6. ASSUME label \in OnTheWay, SideEffect(row[w].effect_id),
             NEW t \in TransactionId, t = current[w], ~Reentered(t)'
      PROVE  effects'[row[w].effect_id] = None
  <2>1. ~Reentered(t)
    BY <1>1, <1>2, <1>6, ReenteredStays
  <2> QED BY <1>6, <2>1 DEF Repeats, FirstOrReentered, EffectStillFree
<1>7. PICK t \in TransactionId : t = current[w]
  BY <1>1
<1> QED BY <1>1, <1>2, <1>3, <1>4, <1>5, <1>6, <1>7, RepeatsFromTheCall

\* A save that ends the call.
LEMMA EndKeepsRepeats ==
    ASSUME CallInv, SoleCalls, Repeats, NEW w \in Worker, pc[w] # "idle",
           NEW status \in EffectStatus, status # "SUCCEEDED", NEW decision \in Decision,
           SaveAndReturn(w, Update(w, status, decision)), UNCHANGED <<effects, reentered>>
    PROVE  Repeats'
<1>1. /\ ParentsStay
      /\ \A u \in TransactionId : Status(u)' = "SUCCEEDED" => Status(u) = "SUCCEEDED"
      /\ Continue(w, "idle", None, None)
  BY SaveKeepsParents DEF SaveAndReturn, Return
<1> QED BY <1>1, StoredRow, RepeatsFromTheCall DEF Verifying, OnTheWay

LEMMA MoveKeepsRepeats ==
    ASSUME CallInv, Repeats, NEW w \in Worker, \A v \in Worker : pc[v] # "idle" => v = w,
           NEW label, NEW t, NEW copy, Continue(w, label, t, copy),
           UNCHANGED <<transactions, effects, reentered>>, label \notin Verifying,
           label \in OnTheWay => pc[w] \in OnTheWay /\ t = current[w] /\ copy = row[w],
           label = "settle" => ~SideEffect(copy.effect_id)
    PROVE  Repeats'
<1>1. /\ ParentsStay
      /\ \A u \in TransactionId : Status(u)' = Status(u)
      /\ Reentered(t)' <=> Reentered(t)
  BY DEF ParentsStay, Status, Reentered
<1>2. (label \in OnTheWay /\ SideEffect(copy.effect_id) /\ ~Reentered(t))
        => effects[copy.effect_id] = None
  BY DEF Repeats, FirstOrReentered, EffectStillFree
<1> QED BY <1>1, <1>2, RepeatsFromTheCall
\* A new transaction: handle has just found its effect not stored.
LEMMA HandleKeepsRepeats ==
    ASSUME CallInv, Repeats, NEW w \in Worker, \A v \in Worker : pc[v] # "idle" => v = w,
           NEW e \in EffectId, Handle(w, e)
    PROVE  Repeats'
<1>1. PICK u \in TransactionId, copy \in {create(e)} :
        Status(u) = "ABSENT" /\ save_transaction(u, copy) /\ Continue(w, "checking", u, copy)
  BY DEF Handle
<1>2. /\ copy \in EffectTransaction /\ copy.status # "SUCCEEDED"
      /\ copy.effect_id = e /\ copy.repair_parent = None
  BY <1>1, FreshCopies DEF create
<1>3. /\ ParentsStay
      /\ \A t \in TransactionId : Status(t)' = "SUCCEEDED" => Status(t) = "SUCCEEDED"
  BY <1>1, <1>2, FreshKeepsParents
<1>4. SideEffect(e) => effects[e] = None
  BY DEF Handle, get_succeeded_effect
<1>5. UNCHANGED <<effects, reentered>>
  BY DEF Handle, history
<1> QED BY <1>1, <1>2, <1>3, <1>4, <1>5, RepeatsFromTheCall

\* A repair child: its original was not sent back, or it counts as sent back too.
LEMMA RepairChildKeepsRepeats ==
    ASSUME CallInv, SoleCalls, Repeats, NEW w \in Worker, RepairChild(w)
    PROVE  Repeats'
<1>1. PICK u \in TransactionId, copy \in {Child(w)} :
        Status(u) = "ABSENT" /\ save_transaction(u, copy) /\ Continue(w, "execute", u, copy)
  BY DEF RepairChild
<1>2. /\ copy \in EffectTransaction /\ copy.status # "SUCCEEDED"
      /\ copy.effect_id = row[w].effect_id /\ copy.repair_parent = current[w]
  BY <1>1, FreshCopies DEF RepairChild, Child
<1>3. /\ ParentsStay
      /\ \A t \in TransactionId : Status(t)' = "SUCCEEDED" => Status(t) = "SUCCEEDED"
  BY <1>1, <1>2, FreshKeepsParents
<1>4. UNCHANGED <<effects, reentered>> /\ pc[w] = "repair_child"
  BY DEF RepairChild, history
<1>5. transactions'[u] = copy /\ transactions'[u] # None
  BY <1>1, <1>2, FreshSave
<1>6. ASSUME SideEffect(row[w].effect_id), ~Reentered(u)'
      PROVE  effects[row[w].effect_id] = None
  <2>1. current[w] \notin reentered
    BY <1>2, <1>4, <1>5, <1>6 DEF Reentered
  <2>2. row[w].repair_parent = None
    BY <1>4, <2>1 DEF Repeats, FirstOrReentered, OriginalOrReentered, Verifying
  <2>3. ~Reentered(current[w])
    BY <1>4, <2>1, <2>2, StoredRow, NoneIsFresh DEF Reentered, CallInv, TypeOK
  <2> QED
    BY <1>4, <1>6, <2>3 DEF Repeats, FirstOrReentered, EffectStillFree, OnTheWay, Verifying
<1>7. \A v \in Worker : pc[v] # "idle" => v = w
  BY <1>4, StoredRow
<1> QED BY <1>1, <1>2, <1>3, <1>4, <1>6, <1>7, RepeatsFromTheCall DEF Verifying

\* What approve and resume send back counts as sent back from here on.
LEMMA RecheckKeepsRepeats ==
    ASSUME CallInv, SoleCalls, Repeats, NEW w \in Worker, Recheck(w)
    PROVE  Repeats'
<1>1. /\ pc[w] # "idle"
      /\ current[w] \in TransactionId /\ transactions[current[w]] # None
      /\ row[w].decision \in Decision
      /\ \A v \in Worker : pc[v] # "idle" => v = w
  BY StoredRow, TheCall DEF Recheck
<1>2. /\ save_transaction(current[w], Update(w, "CHECKING", row[w].decision))
      /\ Continue(w, "handle_tool", current[w], Update(w, "CHECKING", row[w].decision))
      /\ reentered' = reentered \cup {current[w]}
      /\ UNCHANGED effects
  BY DEF Recheck, SaveThen
<1>3. /\ ParentsStay
      /\ \A u \in TransactionId : Status(u)' = "SUCCEEDED" => Status(u) = "SUCCEEDED"
  BY <1>1, <1>2, SaveKeepsParents DEF EffectStatus
<1>4. ReenteredIsStored'
  BY <1>1, <1>2, <1>3 DEF Repeats, ReenteredIsStored, ParentsStay, CallInv, TypeOK
<1>5. RepetitionIsVisible'
  BY <1>2, <1>3, VisibleStays DEF Repeats
<1>6. ASSUME NEW v \in Worker, pc'[v] # "idle"
      PROVE  current'[v] \in reentered' /\ pc'[v] = "handle_tool"
  BY <1>1, <1>2, <1>6, OnlyThisCall
<1>7. FirstOrReentered'
  BY <1>6
  DEF FirstOrReentered, OriginalOrReentered, EffectStillFree, SettlesFirst, Verifying,
      OnTheWay, Reentered
<1> QED BY <1>4, <1>5, <1>7 DEF Repeats

\* The record of the effect: nothing of this effect has been reported before it.
LEMMA PersistKeepsRepeats ==
    ASSUME CommitInv, SoleCalls, Repeats, NEW w \in Worker, Persist(w)
    PROVE  Repeats'
<1>0. CallInv
  BY DEF CommitInv
<1>1. /\ pc[w] = "persist"
      /\ UNCHANGED <<transactions, reentered>>
      /\ Continue(w, "settle", current[w], row[w])
      /\ \A v \in Worker : pc[v] # "idle" => v = w
  BY <1>0, StoredRow DEF Persist, history
<1>2. ReenteredIsStored' /\ RepetitionIsVisible'
  BY <1>1 DEF Repeats, ReenteredIsStored, RepetitionIsVisible, Reentered, Status
<1>3. ASSUME SideEffect(row[w].effect_id), ~Reentered(current[w]),
             NEW u \in TransactionId, Status(u) = "SUCCEEDED"
      PROVE  transactions[u].effect_id # row[w].effect_id
  <2>1. effects[row[w].effect_id] = None
    BY <1>1, <1>3 DEF Repeats, FirstOrReentered, EffectStillFree, OnTheWay
  <2> QED BY <1>3, <2>1 DEF CommitInv, SucceededIsCommitted
<1>4. ASSUME NEW v \in Worker, pc'[v] # "idle"
      PROVE  v = w /\ pc'[v] = "settle" /\ current'[v] = current[w] /\ row'[v] = row[w]
  BY <1>0, <1>1, <1>4, OnlyThisCall
<1>5. FirstOrReentered'
  BY <1>1, <1>3, <1>4
  DEF FirstOrReentered, OriginalOrReentered, EffectStillFree, SettlesFirst, Verifying,
      OnTheWay, Reentered, Status
<1> QED BY <1>2, <1>5 DEF Repeats

\* The report of success: the only step that can make a repetition.
LEMMA SettleKeepsRepeats ==
    ASSUME CallInv, SoleCalls, Repeats, NEW w \in Worker, Settle(w)
    PROVE  Repeats'
<1>1. /\ pc[w] = "settle"
      /\ current[w] \in TransactionId /\ transactions[current[w]] # None
      /\ transactions[current[w]] = row[w]
      /\ row[w].decision \in Decision
      /\ \A v \in Worker : pc[v] # "idle" => v = w
  BY StoredRow, TheCall DEF Settle
<1>2. /\ save_transaction(current[w], Update(w, "SUCCEEDED", row[w].decision))
      /\ Continue(w, "report", current[w], Update(w, "SUCCEEDED", row[w].decision))
      /\ UNCHANGED <<effects, reentered>>
  BY DEF Settle, SaveThen, history
<1>3. ParentsStay
  BY <1>1, <1>2, SaveKeepsParents DEF EffectStatus
<1>4. ReenteredIsStored'
  BY <1>2, <1>3 DEF Repeats, ReenteredIsStored, ParentsStay, CallInv, TypeOK
<1>5. ASSUME NEW v \in Worker, pc'[v] # "idle"
      PROVE  pc'[v] = "report"
  BY <1>1, <1>2, <1>5, OnlyThisCall
<1>6. FirstOrReentered'
  BY <1>5
  DEF FirstOrReentered, OriginalOrReentered, EffectStillFree, SettlesFirst, Verifying, OnTheWay
<1>7. ASSUME NEW t \in TransactionId, t # current[w]
      PROVE  transactions'[t] = transactions[t] /\ Status(t)' = Status(t)
  BY <1>1, <1>2, <1>7, SavedRow DEF EffectStatus
<1>8. ASSUME NEW t \in TransactionId, NEW u \in TransactionId, t = current[w], u # t,
             Status(u)' = "SUCCEEDED",
             transactions'[t].effect_id = transactions'[u].effect_id,
             SideEffect(transactions'[t].effect_id)
      PROVE  Reentered(t)'
  <2>1. Status(u) = "SUCCEEDED" /\ transactions'[u] = transactions[u]
    BY <1>7, <1>8
  <2>2. transactions'[t].effect_id = row[w].effect_id
    BY <1>1, <1>3, <1>8 DEF ParentsStay
  <2>3. Reentered(t)
    BY <1>1, <1>8, <2>1, <2>2 DEF Repeats, FirstOrReentered, SettlesFirst
  <2> QED BY <1>1, <1>2, <1>3, <1>8, <2>3, ReenteredStays
<1>9. RepetitionIsVisible'
  <2> SUFFICES ASSUME NEW t \in TransactionId, NEW u \in TransactionId, t # u,
                      Status(t)' = "SUCCEEDED", Status(u)' = "SUCCEEDED",
                      transactions'[t].effect_id = transactions'[u].effect_id,
                      SideEffect(transactions'[t].effect_id)
               PROVE  Reentered(t)' \/ Reentered(u)'
    BY DEF RepetitionIsVisible
  <2>1. CASE t = current[w] \/ u = current[w]
    BY <1>8, <2>1
  <2>2. CASE t # current[w] /\ u # current[w]
    <3>1. /\ Status(t) = "SUCCEEDED" /\ transactions'[t] = transactions[t]
          /\ Status(u) = "SUCCEEDED" /\ transactions'[u] = transactions[u]
      BY <1>7, <2>2
    <3>2. Reentered(t) \/ Reentered(u)
      BY <3>1 DEF Repeats, RepetitionIsVisible
    <3> QED BY <1>2, <3>1, <3>2 DEF Reentered
  <2> QED BY <2>1, <2>2
<1> QED BY <1>4, <1>6, <1>9 DEF Repeats

LEMMA StepKeepsRepeats ==
    ASSUME CommitInv, SoleCalls, Repeats, NEW w \in Worker, Step(w)
    PROVE  Repeats'
<1>0. /\ CallInv
      /\ pc[w] # "idle" => /\ row[w].decision \in Decision
                           /\ \A v \in Worker : pc[v] # "idle" => v = w
  BY TheCall DEF CommitInv
<1>1. CASE Check(w)
  BY <1>0, <1>1, SaveKeepsRepeats DEF Check, EffectStatus, history, Verifying, OnTheWay
<1>2. CASE StopTool(w)
  <2>1. PICK status \in {"BLOCKED", "WAITING_APPROVAL"}, decision \in Decision :
          SaveAndReturn(w, Update(w, status, decision))
    BY <1>2 DEF StopTool, Decision
  <2> QED
    BY <1>0, <1>2, <2>1, EndKeepsRepeats DEF StopTool, EffectStatus, history
<1>3. CASE StopResponse(w)
  BY <1>0, <1>3, EndKeepsRepeats DEF StopResponse, EffectStatus, Decision, history
<1>4. CASE UnregisteredTool(w)
  BY <1>0, <1>4, MoveKeepsRepeats
  DEF UnregisteredTool, Return, store, history, Verifying, OnTheWay
<1>5. CASE Authorize(w)
  BY <1>0, <1>5, SaveKeepsRepeats
  DEF Authorize, EffectStatus, Decision, history, Verifying, OnTheWay
<1>6. CASE RepairParent(w)
  BY <1>0, <1>6, SaveKeepsRepeats
  DEF RepairParent, CloseRepaired, EffectStatus, Decision, history, Verifying, OnTheWay
<1>7. CASE RepairChild(w)
  BY <1>0, <1>7, RepairChildKeepsRepeats
<1>8. CASE Execute(w)
  BY <1>0, <1>8, SaveKeepsRepeats DEF Execute, EffectStatus, history, Verifying, OnTheWay
<1>9. CASE GatewayCheck(w)
  BY <1>0, <1>9, MoveKeepsRepeats DEF GatewayCheck, store, history, Verifying, OnTheWay
<1>10. CASE Backend(w)
  BY <1>0, <1>10, MoveKeepsRepeats DEF Backend, RecordsEffect, store, Verifying, OnTheWay
<1>11. CASE Persist(w)
  BY <1>11, PersistKeepsRepeats
<1>12. CASE Settle(w)
  BY <1>0, <1>12, SettleKeepsRepeats
<1>13. CASE Report(w)
  BY <1>0, <1>13, MoveKeepsRepeats DEF Report, Return, store, history, Verifying, OnTheWay
<1>14. CASE Fail(w)
  BY <1>0, <1>14, EndKeepsRepeats DEF Fail, EffectStatus, history
<1>15. CASE BlockDenied(w)
  BY <1>0, <1>15, EndKeepsRepeats DEF BlockDenied, EffectStatus, Decision, history
<1>16. CASE Recheck(w)
  BY <1>0, <1>16, RecheckKeepsRepeats
<1> QED
  BY <1>1, <1>2, <1>3, <1>4, <1>5, <1>6, <1>7, <1>8, <1>9, <1>10, <1>11, <1>12, <1>13,
     <1>14, <1>15, <1>16
  DEF Step

\* No call is left: what remains is about rows.
LEMMA NobodyKeepsRepeats ==
    ASSUME CallInv, Repeats, \A w \in Worker : pc'[w] = "idle", ParentsStay,
           \A t \in TransactionId : Status(t)' = "SUCCEEDED" => Status(t) = "SUCCEEDED",
           UNCHANGED reentered
    PROVE  Repeats'
<1>1. ReenteredIsStored'
  BY DEF Repeats, ReenteredIsStored, ParentsStay, CallInv, TypeOK
<1>2. RepetitionIsVisible'
  BY VisibleStays DEF Repeats
<1>3. FirstOrReentered'
  BY DEF FirstOrReentered, OriginalOrReentered, EffectStillFree, SettlesFirst, Verifying,
         OnTheWay
<1> QED BY <1>1, <1>2, <1>3 DEF Repeats

LEMMA NextKeepsRepeats ==
    ASSUME SoleBroker, CommitInv, SoleCalls, Repeats, [Next]_vars
    PROVE  Repeats'
<1>0. CallInv
  BY DEF CommitInv
<1>1. ASSUME NEW w \in Worker, Step(w)
      PROVE  Repeats'
  BY <1>1, StepKeepsRepeats
<1>2. CASE UNCHANGED vars
  BY <1>2
  DEF vars, store, call, history, Repeats, ReenteredIsStored, RepetitionIsVisible,
      FirstOrReentered, OriginalOrReentered, EffectStillFree, SettlesFirst, Reentered, Status
<1>3. ASSUME NEW w \in Worker, Request(w), ~UNCHANGED vars
      PROVE  Repeats'
  <2>1. \A v \in Worker : pc[v] # "idle" => v = w
    BY <1>0, <1>3, BeginsAlone
  <2>2. ASSUME NEW e \in EffectId, Handle(w, e)
        PROVE  Repeats'
    BY <1>0, <2>1, <2>2, HandleKeepsRepeats
  <2>3. ASSUME NEW t \in TransactionId, Approve(w, t) \/ Deny(w, t) \/ Resume(w, t)
        PROVE  Repeats'
    BY <1>0, <2>1, <2>3, MoveKeepsRepeats
    DEF Approve, Deny, Resume, store, history, Verifying, OnTheWay
  <2> QED BY <1>3, <2>2, <2>3 DEF Request, Replay
<1>4. ASSUME NEW w \in Worker, Raise(w)
      PROVE  Repeats'
  BY <1>0, <1>4, TheCall, MoveKeepsRepeats
  DEF Raise, Return, store, history, Verifying, OnTheWay
<1>5. ASSUME NEW p \in Process, Terminate(p)
      PROVE  Repeats'
  BY <1>0, <1>5, NobodyLeft, NobodyKeepsRepeats DEF Terminate, store, history, ParentsStay, Status
<1>6. ASSUME NEW p \in Process, Start(p)
      PROVE  Repeats'
  BY <1>0, <1>6, NobodyBusy, RecoveryKeepsParents, NobodyKeepsRepeats DEF Start, call, history
<1>7. CASE OpenStore
  BY <1>7 DEF OpenStore, SoleBroker
<1> QED BY <1>1, <1>2, <1>3, <1>4, <1>5, <1>6, <1>7 DEF Next

-----------------------------------------------------------------------------
(* The theorems                                                            *)

RepeatInv == CommitInv /\ SoleInv /\ Repairs /\ Repeats

LEMMA InitRepeat == Init => RepeatInv
<1> SUFFICES ASSUME Init PROVE RepeatInv
  OBVIOUS
<1>1. CommitInv /\ SoleInv
  BY InitCommit, InitSole
<1>2. Repairs
  BY DEF Init, StoreInit, Repairs, RepairClosesParent, NoChildYet
<1>3. Repeats
  BY DEF Init, StoreInit, Repeats, ReenteredIsStored, RepetitionIsVisible, FirstOrReentered,
         OriginalOrReentered, EffectStillFree, SettlesFirst, Verifying, OnTheWay, Status
<1> QED BY <1>1, <1>2, <1>3 DEF RepeatInv

LEMMA NextKeepsRepeatInv == SoleBroker /\ RepeatInv /\ [Next]_vars => RepeatInv'
BY NextKeepsCommit, NextKeepsSoleInv, NextKeepsRepairs, NextKeepsRepeats DEF RepeatInv, SoleInv

LEMMA RepeatInvariant == ASSUME SoleBroker PROVE Spec => []RepeatInv
BY InitRepeat, NextKeepsRepeatInv, PTL DEF Spec

\* A repair child of a sole broker stands for exactly one original, which was closed for it
\* and never executed.
THEOREM RepairClosed == ASSUME SoleBroker PROVE Spec => []RepairClosesParent
<1>1. RepeatInv => RepairClosesParent
  BY DEF RepeatInv, Repairs
<1> QED BY <1>1, RepeatInvariant, PTL

\* Under a sole broker two transactions of one effect both SUCCEEDED only if approve or
\* resume sent one of them back.
THEOREM RepetitionVisible == ASSUME SoleBroker PROVE Spec => []RepetitionIsVisible
<1>1. RepeatInv => RepetitionIsVisible
  BY DEF RepeatInv, Repeats
<1> QED BY <1>1, RepeatInvariant, PTL

\* A sole broker executes a committed effect again only for a transaction sent back.
THEOREM RepeatedOnlyOnReentry == ASSUME SoleBroker PROVE Spec => CommittedRepeatedOnlyOnReentry
<1>1. ASSUME RepeatInv, [Next]_vars, NEW t \in TransactionId,
             ran'[t] > ran[t], effects[transactions[t].effect_id] # None
      PROVE  Reentered(t)
  <2>1. CallInv /\ SoleCalls /\ ran \in [TransactionId -> Nat]
    BY <1>1 DEF RepeatInv, SoleInv, CallInv, TypeOK
  <2>2. ran'[t] # ran[t]
    BY <1>1, <2>1
  <2>3. PICK w \in Worker : Backend(w)
    BY <1>1, <2>2
    DEF Next, Step, Request, Check, StopTool, StopResponse, UnregisteredTool, Authorize,
        RepairParent, RepairChild, Execute, GatewayCheck, Persist, Settle, Report, Fail,
        BlockDenied, Recheck, Replay, Handle, Approve, Deny, Resume, Raise, Start, Terminate,
        OpenStore, history, vars
  <2>4. t = current[w] /\ SideEffect(row[w].effect_id)
    BY <2>1, <2>2, <2>3 DEF Backend
  <2>5. effects[row[w].effect_id] # None
    BY <1>1, <2>1, <2>3, <2>4, StoredRow DEF Backend
  <2> QED
    BY <1>1, <2>3, <2>4, <2>5
    DEF Backend, RepeatInv, Repeats, FirstOrReentered, EffectStillFree, OnTheWay
<1>2. RepeatInv /\ [Next]_vars => [\A t \in TransactionId :
        (ran'[t] > ran[t] /\ effects[transactions[t].effect_id] # None) => Reentered(t)]_vars
  BY <1>1
<1> QED BY <1>2, RepeatInvariant, PTL DEF Spec, CommittedRepeatedOnlyOnReentry
=============================================================================
