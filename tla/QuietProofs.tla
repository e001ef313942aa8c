---------------------------- MODULE QuietProofs ----------------------------
(***************************************************************************)
(* Several broker processes on one database that resume only while no      *)
(* other call is under way: a transaction waits until a human decides, and *)
(* what was only denied does not run, for every number of processes,       *)
(* threads and transactions.                                               *)
(***************************************************************************)
EXTENDS BrokerProofs

-----------------------------------------------------------------------------
(* The inductive invariant: a transaction nobody has decided about has one *)
(* writer, and decides its own fate.                                       *)

Undecided(t) == \A a \in approvals : a.transaction_id # t

DeniedOnly(t) ==
    /\ \E a \in approvals : a.transaction_id = t /\ a.decision = "DENIED"
    /\ \A a \in approvals : a.transaction_id = t => a.decision = "DENIED"

Busy(w) == pc[w] # "idle"

\* The states of a transaction without a decision at each step of the call about it.
\* Another process that starts may recover it at any point of its execution.
UndecidedAt(label) ==
    CASE label = "checking" -> {"CREATED"}
      [] label \in {"handle_tool", "handle_response"} -> {"CHECKING"}
      [] label = "repair_child" -> {"BLOCKED"}
      [] label \in {"execute", "recheck"} -> {"AUTHORIZED"}
      [] label \in {"gateway", "backend", "persist", "settle"} ->
            {"EXECUTING", "REQUIRE_HUMAN_REVIEW"}
      [] label = "report" -> {"SUCCEEDED"}
      [] label = "fail" -> {"EXECUTING", "REQUIRE_HUMAN_REVIEW", "SUCCEEDED"}
      [] OTHER -> {}

\* No other call is about w's transaction.
AloneOn(w) == \A v \in Worker : Busy(v) /\ current[v] = current[w] => v = w

UndecidedCalls ==
    \A w \in Worker : Busy(w) /\ Undecided(current[w]) =>
        AloneOn(w) /\ Status(current[w]) \in UndecidedAt(pc[w])

\* The states that have reached no backend, unless approve sent them back.
Held == {"ABSENT", "CREATED", "CHECKING", "BLOCKED", "WAITING_APPROVAL", "AUTHORIZED"}

UndecidedHeld == \A t \in TransactionId : Undecided(t) /\ Status(t) \in Held => ~Ran(t)

\* Whatever works on a denied transaction is about to block it.
DeniedRests ==
    \A t \in TransactionId : DeniedOnly(t) =>
        /\ ~Ran(t)
        /\ Status(t) \in {"WAITING_APPROVAL", "BLOCKED"}
        /\ \A w \in Worker : Busy(w) /\ current[w] = t => pc[w] = "denied"

Quiet == UndecidedCalls /\ UndecidedHeld /\ DeniedRests

LEMMA DecisionsUnchanged ==
    ASSUME UNCHANGED approvals, NEW t
    PROVE  (Undecided(t)' <=> Undecided(t)) /\ (DeniedOnly(t)' <=> DeniedOnly(t))
BY DEF Undecided, DeniedOnly

\* Where the workers are once w has gone on.
LEMMA Others ==
    ASSUME CallInv, NEW w \in Worker, NEW label, NEW t, NEW copy, Continue(w, label, t, copy)
    PROVE  /\ pc'[w] = label /\ current'[w] = t
           /\ \A v \in Worker : v # w => pc'[v] = pc[v] /\ current'[v] = current[v]
BY DEF Continue, CallInv, TypeOK

\* A step of a call about t, whatever it does to the row of t and to no other.
LEMMA CallKeepsQuiet ==
    ASSUME CallInv, Quiet, NEW w \in Worker, Busy(w), NEW t \in TransactionId, t = current[w],
           UNCHANGED approvals,
           NEW label, NEW u, NEW copy, Continue(w, label, u, copy), label # "idle" => u = t,
           \A s \in TransactionId : s # t => Status(s)' = Status(s) /\ ran'[s] = ran[s],
           Undecided(t) => /\ label # "idle" => Status(t)' \in UndecidedAt(label)
                           /\ Status(t)' \in Held => Status(t) \in Held /\ ran'[t] = ran[t],
           DeniedOnly(t) => /\ Status(t)' \in {"WAITING_APPROVAL", "BLOCKED"}
                            /\ label \in {"idle", "denied"} /\ ran'[t] = ran[t]
    PROVE  Quiet'
<1>1. /\ pc'[w] = label /\ current'[w] = u
      /\ \A v \in Worker : v # w => pc'[v] = pc[v] /\ current'[v] = current[v]
  BY Others
<1>2. UndecidedCalls'
  <2> SUFFICES ASSUME NEW v \in Worker, NEW s, s = current'[v], pc'[v] # "idle", Undecided(s)'
               PROVE  /\ \A x \in Worker : pc'[x] # "idle" /\ current'[x] = s => x = v
                      /\ Status(s)' \in UndecidedAt(pc'[v])
    BY DEF UndecidedCalls, AloneOn, Busy, Undecided, Status
  <2>1. Undecided(s)
    BY DecisionsUnchanged
  <2>2. CASE v = w
    <3>1. s = t /\ label # "idle"
      BY <1>1, <2>2
    <3>2. AloneOn(w)
      BY <2>1, <3>1 DEF Quiet, UndecidedCalls
    <3> QED BY <1>1, <2>1, <2>2, <3>1, <3>2 DEF AloneOn, Busy
  <2>3. CASE v # w
    <3>1. pc'[v] = pc[v] /\ s = current[v] /\ Busy(v)
      BY <1>1, <2>3 DEF Busy
    <3>2. AloneOn(v) /\ Status(s) \in UndecidedAt(pc[v])
      BY <2>1, <3>1 DEF Quiet, UndecidedCalls
    <3>3. s # t /\ s \in TransactionId
      BY <2>3, <3>1, <3>2 DEF AloneOn, CallInv, CallOK, Stands, Busy
    <3> QED BY <1>1, <2>3, <3>1, <3>2, <3>3 DEF AloneOn, Busy
  <2> QED BY <2>2, <2>3
<1>3. UndecidedHeld'
  <2> SUFFICES ASSUME NEW s \in TransactionId, Undecided(s), Status(s)' \in Held
               PROVE  ~Ran(s)'
    BY DecisionsUnchanged DEF UndecidedHeld
  <2>1. Status(s) \in Held /\ ran'[s] = ran[s]
    BY DEF Quiet
  <2> QED BY <2>1 DEF Quiet, UndecidedHeld, Ran
<1>4. DeniedRests'
  <2> SUFFICES ASSUME NEW s \in TransactionId, DeniedOnly(s)
               PROVE  /\ ~Ran(s)'
                      /\ Status(s)' \in {"WAITING_APPROVAL", "BLOCKED"}
                      /\ \A v \in Worker : pc'[v] # "idle" /\ current'[v] = s => pc'[v] = "denied"
    BY DecisionsUnchanged DEF DeniedRests, Busy
  <2>1. /\ ~Ran(s) /\ Status(s) \in {"WAITING_APPROVAL", "BLOCKED"}
        /\ \A v \in Worker : pc[v] # "idle" /\ current[v] = s => pc[v] = "denied"
    BY DEF Quiet, DeniedRests, Busy
  <2>2. ran'[s] = ran[s] /\ Status(s)' \in {"WAITING_APPROVAL", "BLOCKED"}
    BY <2>1
  <2>3. ASSUME NEW v \in Worker, pc'[v] # "idle", current'[v] = s
        PROVE  pc'[v] = "denied"
    BY <1>1, <2>1, <2>3
  <2> QED BY <2>1, <2>2, <2>3 DEF Ran
<1> QED BY <1>2, <1>3, <1>4 DEF Quiet
\* A save over the row the call is about.
LEMMA SaveKeepsQuiet ==
    ASSUME CallInv, Quiet, NEW w \in Worker, pc[w] # "idle",
           NEW status \in EffectStatus, NEW decision \in Decision, UNCHANGED <<approvals, ran>>,
           NEW label, \/ SaveThen(w, Update(w, status, decision), label)
                      \/ SaveAndReturn(w, Update(w, status, decision)) /\ label = "idle",
           Undecided(current[w]) => /\ label # "idle" => status \in UndecidedAt(label)
                                    /\ status \in Held => Status(current[w]) \in Held,
           DeniedOnly(current[w]) => status = "BLOCKED" /\ label = "idle"
    PROVE  Quiet'
<1>1. PICK t \in TransactionId : t = current[w]
  BY DEF CallInv, CallOK, Stands
<1>2. \A s \in TransactionId : Status(s)' = IF s = t THEN status ELSE Status(s)
  BY <1>1, SavedStatus DEF SaveThen, SaveAndReturn
<1>3. PICK u, copy : Continue(w, label, u, copy) /\ (label # "idle" => u = t)
  BY <1>1 DEF SaveThen, SaveAndReturn, Return
<1> QED BY <1>1, <1>2, <1>3, CallKeepsQuiet DEF Busy

\* The call goes on or ends without writing.
LEMMA MoveKeepsQuiet ==
    ASSUME CallInv, Quiet, NEW w \in Worker, pc[w] # "idle",
           UNCHANGED <<transactions, approvals, ran>>,
           NEW label, \/ Continue(w, label, current[w], row[w])
                      \/ Return(w) /\ label = "idle",
           label # "idle" => /\ pc[w] # "denied"
                             /\ Undecided(current[w]) => Status(current[w]) \in UndecidedAt(label)
    PROVE  Quiet'
<1>1. PICK t \in TransactionId : t = current[w]
  BY DEF CallInv, CallOK, Stands
<1>2. PICK u, copy : Continue(w, label, u, copy) /\ (label # "idle" => u = t)
  BY <1>1 DEF Return
<1>3. \A s \in TransactionId : Status(s)' = Status(s)
  BY DEF Status
<1>4. DeniedOnly(t) => /\ pc[w] = "denied"
                       /\ Status(t) \in {"WAITING_APPROVAL", "BLOCKED"}
  BY <1>1 DEF Quiet, DeniedRests, Busy
<1> QED BY <1>1, <1>2, <1>3, <1>4, CallKeepsQuiet DEF Busy

\* A call turns to a fresh row: nobody else knows it, nobody has decided about it.
LEMMA FreshKeepsQuiet ==
    ASSUME CallInv, Quiet, NEW w \in Worker, NEW u \in TransactionId, Status(u) = "ABSENT",
           NEW copy \in EffectTransaction, save_transaction(u, copy),
           NEW label, label # "idle", Continue(w, label, u, copy), copy.status \in UndecidedAt(label),
           UNCHANGED <<approvals, ran>>
    PROVE  Quiet'
<1>1. /\ pc'[w] = label /\ current'[w] = u
      /\ \A v \in Worker : v # w => pc'[v] = pc[v] /\ current'[v] = current[v]
  BY Others
<1>2. /\ \A s \in TransactionId : s # u => Status(s)' = Status(s)
      /\ Status(u)' = copy.status
      /\ transactions[u] = None
  BY FreshSave
<1>3. \A v \in Worker : Busy(v) => current[v] \in TransactionId /\ current[v] # u
  BY <1>2 DEF CallInv, CallOK, Stands, Busy
<1>4. UndecidedCalls'
  <2> SUFFICES ASSUME NEW v \in Worker, NEW s, s = current'[v], pc'[v] # "idle", Undecided(s)'
               PROVE  /\ \A x \in Worker : pc'[x] # "idle" /\ current'[x] = s => x = v
                      /\ Status(s)' \in UndecidedAt(pc'[v])
    BY DEF UndecidedCalls, AloneOn, Busy, Undecided, Status
  <2>1. CASE v = w
    BY <1>1, <1>2, <1>3, <2>1 DEF Busy
  <2>2. CASE v # w
    <3>1. Undecided(s) /\ Busy(v) /\ s = current[v] /\ pc'[v] = pc[v]
      BY <1>1, <2>2, DecisionsUnchanged DEF Busy
    <3>2. AloneOn(v) /\ Status(s) \in UndecidedAt(pc[v]) /\ s # u /\ s \in TransactionId
      BY <1>3, <3>1 DEF Quiet, UndecidedCalls
    <3> QED BY <1>1, <1>2, <3>1, <3>2 DEF AloneOn, Busy
  <2> QED BY <2>1, <2>2
<1>5. UndecidedHeld'
  <2> SUFFICES ASSUME NEW s \in TransactionId, Undecided(s), Status(s)' \in Held
               PROVE  ~Ran(s)
    BY DecisionsUnchanged DEF UndecidedHeld, Ran
  <2> QED BY <1>2 DEF Quiet, UndecidedHeld, Held
<1>6. DeniedRests'
  <2> SUFFICES ASSUME NEW s \in TransactionId, DeniedOnly(s)
               PROVE  /\ ~Ran(s)
                      /\ Status(s)' \in {"WAITING_APPROVAL", "BLOCKED"}
                      /\ \A v \in Worker : pc'[v] # "idle" /\ current'[v] = s => pc'[v] = "denied"
    BY DecisionsUnchanged DEF DeniedRests, Busy, Ran
  <2>1. /\ ~Ran(s) /\ Status(s) \in {"WAITING_APPROVAL", "BLOCKED"}
        /\ \A v \in Worker : pc[v] # "idle" /\ current[v] = s => pc[v] = "denied"
    BY DEF Quiet, DeniedRests, Busy
  <2> QED BY <1>1, <1>2, <2>1
<1> QED BY <1>4, <1>5, <1>6 DEF Quiet

\* Recovery by whatever opens the store.
LEMMA RecoveryKeepsQuiet ==
    ASSUME CallInv, Quiet, recover_uncertain_executions, UNCHANGED <<approvals, call, ran>>
    PROVE  Quiet'
<1>1. ASSUME NEW t \in TransactionId
      PROVE  Status(t)' = IF Status(t) = "EXECUTING" THEN "REQUIRE_HUMAN_REVIEW" ELSE Status(t)
  BY RecoveredRow
<1>2. UndecidedCalls'
  <2> SUFFICES ASSUME NEW v \in Worker, NEW s, s = current[v], pc[v] # "idle", Undecided(s)
               PROVE  /\ \A x \in Worker : pc[x] # "idle" /\ current[x] = s => x = v
                      /\ Status(s)' \in UndecidedAt(pc[v])
    BY DecisionsUnchanged DEF call, UndecidedCalls, AloneOn, Busy, Undecided, Status
  <2>1. AloneOn(v) /\ Status(s) \in UndecidedAt(pc[v]) /\ s \in TransactionId
    BY DEF Quiet, UndecidedCalls, Busy, CallInv, CallOK, Stands
  <2> QED BY <1>1, <2>1 DEF AloneOn, Busy, UndecidedAt
<1>3. UndecidedHeld'
  BY <1>1, DecisionsUnchanged DEF Quiet, UndecidedHeld, Held, Ran
<1>4. DeniedRests'
  BY <1>1, DecisionsUnchanged DEF call, Quiet, DeniedRests, Busy, Ran
<1> QED BY <1>2, <1>3, <1>4 DEF Quiet

\* Some calls end.
LEMMA EndsKeepQuiet ==
    ASSUME Quiet, UNCHANGED <<transactions, approvals, ran>>,
           \A v \in Worker : pc'[v] # "idle" => pc'[v] = pc[v] /\ current'[v] = current[v]
    PROVE  Quiet'
<1>1. UndecidedCalls'
  BY DEF Quiet, UndecidedCalls, AloneOn, Busy, Undecided, Status
<1>2. UndecidedHeld' /\ DeniedRests'
  BY DEF Quiet, UndecidedHeld, DeniedRests, Busy, Undecided, DeniedOnly, Ran, Status
<1> QED BY <1>1, <1>2 DEF Quiet

\* A resume waits until no call is under way.
LEMMA ResumeKeepsQuiet ==
    ASSUME QuietResumes, CallInv, Quiet, NEW w \in Worker, NEW t \in TransactionId, Resume(w, t)
    PROVE  Quiet'
<1>1. /\ \A v \in Worker : pc[v] = "idle"
      /\ Status(t) = "AUTHORIZED"
      /\ Continue(w, "recheck", t, transactions[t])
      /\ UNCHANGED <<transactions, approvals, ran>>
  BY ConstantsOK DEF Resume, QuietResumes, store, history
<1>2. /\ pc'[w] = "recheck" /\ current'[w] = t
      /\ \A v \in Worker : v # w => pc'[v] = "idle"
  BY <1>1, Others
<1>3. UndecidedCalls'
  BY <1>1, <1>2 DEF UndecidedCalls, AloneOn, Busy, UndecidedAt, Status
<1>4. UndecidedHeld'
  BY <1>1 DEF Quiet, UndecidedHeld, Undecided, Status, Ran
<1>5. ~DeniedOnly(t)
  BY <1>1 DEF Quiet, DeniedRests
<1>6. DeniedRests'
  BY <1>1, <1>2, <1>5 DEF Quiet, DeniedRests, DeniedOnly, Busy, Status, Ran
<1> QED BY <1>3, <1>4, <1>6 DEF Quiet

\* A decision about a waiting transaction: no call was about it while it was undecided.
LEMMA DecisionKeepsQuiet ==
    ASSUME CallInv, Quiet, NEW w \in Worker, pc[w] = "idle", NEW t \in TransactionId,
           NEW d \in {"APPROVED", "DENIED"}, Decide(t, d), UNCHANGED <<transactions, ran>>,
           NEW label, d = "DENIED" => label = "denied", NEW copy, Continue(w, label, t, copy)
    PROVE  Quiet'
<1>1. /\ pc'[w] = label /\ current'[w] = t
      /\ \A v \in Worker : v # w => pc'[v] = pc[v] /\ current'[v] = current[v]
  BY Others
<1>2. /\ Status(t) = "WAITING_APPROVAL"
      /\ approvals' = approvals \cup {[transaction_id |-> t, decision |-> d]}
  BY DEF Decide, AwaitsDecision, save_approval
<1>3. ~Undecided(t)' /\ (DeniedOnly(t)' => d = "DENIED" /\ (Undecided(t) \/ DeniedOnly(t)))
  <2>1. PICK a : /\ a \in approvals' /\ a = [transaction_id |-> t, decision |-> d]
                 /\ a.transaction_id = t /\ a.decision = d
    <3> DEFINE r == [transaction_id |-> t, decision |-> d]
    <3>1. r \in approvals' /\ r.transaction_id = t /\ r.decision = d
      BY <1>2
    <3> QED BY <3>1
  <2>2. \A b \in approvals : b \in approvals'
    BY <1>2
  <2> QED BY <2>1, <2>2 DEF Undecided, DeniedOnly
<1>4. \A s : s # t => (Undecided(s)' <=> Undecided(s)) /\ (DeniedOnly(s)' <=> DeniedOnly(s))
  BY <1>2 DEF Undecided, DeniedOnly
<1>5. \A s : Status(s)' = Status(s) /\ Ran(s)' = Ran(s)
  BY DEF Status, Ran
<1>6. UndecidedCalls'
  <2> SUFFICES ASSUME NEW v \in Worker, NEW s, s = current'[v], pc'[v] # "idle", Undecided(s)'
               PROVE  /\ \A x \in Worker : pc'[x] # "idle" /\ current'[x] = s => x = v
                      /\ Status(s)' \in UndecidedAt(pc'[v])
    BY DEF UndecidedCalls, AloneOn, Busy, Undecided, Status
  <2>1. s # t /\ v # w
    BY <1>1, <1>3
  <2>2. Busy(v) /\ s = current[v] /\ pc'[v] = pc[v] /\ Undecided(s)
    BY <1>1, <1>4, <2>1 DEF Busy
  <2>3. AloneOn(v) /\ Status(s) \in UndecidedAt(pc[v])
    BY <2>2 DEF Quiet, UndecidedCalls
  <2> QED BY <1>1, <1>5, <2>1, <2>2, <2>3 DEF AloneOn, Busy
<1>7. UndecidedHeld'
  BY <1>3, <1>4, <1>5 DEF Quiet, UndecidedHeld
<1>8. DeniedRests'
  <2> SUFFICES ASSUME NEW s \in TransactionId, DeniedOnly(s)'
               PROVE  /\ ~Ran(s)
                      /\ Status(s) \in {"WAITING_APPROVAL", "BLOCKED"}
                      /\ \A v \in Worker : pc'[v] # "idle" /\ current'[v] = s => pc'[v] = "denied"
    BY <1>5 DEF DeniedRests, Busy
  <2>1. CASE s # t
    <3>1. /\ ~Ran(s) /\ Status(s) \in {"WAITING_APPROVAL", "BLOCKED"}
          /\ \A v \in Worker : pc[v] # "idle" /\ current[v] = s => pc[v] = "denied"
      BY <1>4, <2>1 DEF Quiet, DeniedRests, Busy
    <3> QED BY <1>1, <2>1, <3>1
  <2>2. CASE s = t
    <3>1. label = "denied" /\ (Undecided(t) \/ DeniedOnly(t))
      BY <1>3, <2>2
    <3>2. \A v \in Worker : pc[v] # "idle" /\ current[v] = t => pc[v] = "denied"
      BY <1>2, <3>1 DEF Quiet, UndecidedCalls, DeniedRests, UndecidedAt, Busy
    <3>3. ~Ran(t)
      BY <1>2, <3>1 DEF Quiet, UndecidedHeld, DeniedRests, Held
    <3> QED BY <1>1, <1>2, <2>2, <3>1, <3>2, <3>3
  <2> QED BY <2>1, <2>2
<1> QED BY <1>6, <1>7, <1>8 DEF Quiet

\* The backend runs for a transaction that is being executed, or that was approved.
LEMMA BackendKeepsQuiet ==
    ASSUME CallInv, Quiet, NEW w \in Worker, Backend(w)
    PROVE  Quiet'
<1>1. PICK t \in TransactionId : t = current[w]
  BY DEF Backend, CallInv, CallOK, Stands
<1>2. PICK label \in {"persist", "settle"} : Continue(w, label, t, row[w])
  BY <1>1 DEF Backend
<1>3. /\ \A s \in TransactionId : Status(s)' = Status(s)
      /\ \A s \in TransactionId : s # t => ran'[s] = ran[s]
      /\ UNCHANGED approvals
      /\ pc[w] = "backend"
  BY <1>1 DEF Backend, store, Status, CallInv, TypeOK
<1>4. Undecided(t) => Status(t) \in {"EXECUTING", "REQUIRE_HUMAN_REVIEW"}
  BY <1>1, <1>3 DEF Quiet, UndecidedCalls, Busy, UndecidedAt
<1>5. ~DeniedOnly(t)
  BY <1>1, <1>3 DEF Quiet, DeniedRests, Busy
<1>6. Busy(w) /\ label # "idle"
  BY <1>3 DEF Busy
<1>7. Undecided(t) => Status(t)' \in UndecidedAt(label) /\ Status(t)' \notin Held
  BY <1>3, <1>4 DEF UndecidedAt, Held
<1> QED BY <1>1, <1>2, <1>3, <1>5, <1>6, <1>7, CallKeepsQuiet

LEMMA StepKeepsQuiet ==
    ASSUME CallInv, Quiet, NEW w \in Worker, Step(w)
    PROVE  Quiet'
<1>0. pc[w] # "idle" => /\ row[w].decision \in Decision
                        /\ Undecided(current[w]) => Status(current[w]) \in UndecidedAt(pc[w])
                        /\ DeniedOnly(current[w]) => pc[w] = "denied"
  <2>1. pc[w] # "idle" => current[w] \in TransactionId /\ row[w].decision \in Decision
    BY DEF CallInv, CallOK, Stands, EffectTransaction
  <2> QED BY <2>1 DEF Quiet, UndecidedCalls, DeniedRests, Busy
<1>1. CASE Check(w)
  BY <1>0, <1>1, SaveKeepsQuiet DEF Check, EffectStatus, UndecidedAt, Held, history
<1>2. CASE StopTool(w)
  <2>1. PICK status \in {"BLOCKED", "WAITING_APPROVAL"}, decision \in Decision :
          SaveAndReturn(w, Update(w, status, decision))
    BY <1>2 DEF StopTool, Decision
  <2> QED
    BY <1>0, <1>2, <2>1, SaveKeepsQuiet DEF StopTool, EffectStatus, UndecidedAt, Held, history
<1>3. CASE StopResponse(w)
  BY <1>0, <1>3, SaveKeepsQuiet
  DEF StopResponse, EffectStatus, Decision, UndecidedAt, Held, history
<1>4. CASE UnregisteredTool(w)
  BY <1>4, MoveKeepsQuiet DEF UnregisteredTool, store, history
<1>5. CASE Authorize(w)
  BY <1>0, <1>5, SaveKeepsQuiet DEF Authorize, EffectStatus, Decision, UndecidedAt, Held, history
<1>6. CASE RepairParent(w)
  BY <1>0, <1>6, SaveKeepsQuiet
  DEF RepairParent, CloseRepaired, EffectStatus, Decision, UndecidedAt, Held, history
<1>7. CASE RepairChild(w)
  <2>1. Child(w) \in EffectTransaction /\ Child(w).status \in UndecidedAt("execute")
    BY <1>7, FreshCopies DEF RepairChild, Child, UndecidedAt
  <2> QED BY <1>7, <2>1, FreshKeepsQuiet DEF RepairChild, history
<1>8. CASE Execute(w)
  BY <1>0, <1>8, SaveKeepsQuiet DEF Execute, EffectStatus, UndecidedAt, Held, history
<1>9. CASE GatewayCheck(w)
  BY <1>0, <1>9, MoveKeepsQuiet DEF GatewayCheck, store, history, UndecidedAt
<1>10. CASE Backend(w)
  BY <1>10, BackendKeepsQuiet
<1>11. CASE Persist(w)
  BY <1>0, <1>11, MoveKeepsQuiet DEF Persist, history, UndecidedAt
<1>12. CASE Settle(w)
  BY <1>0, <1>12, SaveKeepsQuiet DEF Settle, EffectStatus, UndecidedAt, Held, history
<1>13. CASE Report(w)
  BY <1>13, MoveKeepsQuiet DEF Report, store, history
<1>14. CASE Fail(w)
  BY <1>0, <1>14, SaveKeepsQuiet DEF Fail, EffectStatus, UndecidedAt, Held, history
<1>15. CASE BlockDenied(w)
  BY <1>0, <1>15, SaveKeepsQuiet
  DEF BlockDenied, EffectStatus, Decision, UndecidedAt, Held, history
<1>16. CASE Recheck(w)
  BY <1>0, <1>16, SaveKeepsQuiet DEF Recheck, EffectStatus, UndecidedAt, Held
<1> QED
  BY <1>1, <1>2, <1>3, <1>4, <1>5, <1>6, <1>7, <1>8, <1>9, <1>10, <1>11, <1>12, <1>13,
     <1>14, <1>15, <1>16
  DEF Step

LEMMA NextKeepsQuiet ==
    ASSUME QuietResumes, CallInv, Quiet, [Next]_vars
    PROVE  Quiet'
<1>1. ASSUME NEW w \in Worker, Step(w)
      PROVE  Quiet'
  BY <1>1, StepKeepsQuiet
<1>2. CASE UNCHANGED vars
  BY <1>2, EndsKeepQuiet DEF vars, store, call, history
<1>3. ASSUME NEW w \in Worker, Request(w)
      PROVE  Quiet'
  <2>1. ASSUME NEW e \in EffectId, Handle(w, e)
        PROVE  Quiet'
    <3>1. create(e) \in EffectTransaction /\ create(e).status \in UndecidedAt("checking")
      BY FreshCopies DEF create, UndecidedAt
    <3> QED BY <2>1, <3>1, FreshKeepsQuiet DEF Handle, history
  <2>2. ASSUME NEW t \in TransactionId, Approve(w, t)
        PROVE  Quiet'
    BY <2>2, DecisionKeepsQuiet DEF Approve, Free, history
  <2>3. ASSUME NEW t \in TransactionId, Deny(w, t)
        PROVE  Quiet'
    BY <2>3, DecisionKeepsQuiet DEF Deny, Free, history
  <2>4. ASSUME NEW t \in TransactionId, Resume(w, t)
        PROVE  Quiet'
    BY <2>4, ResumeKeepsQuiet
  <2> QED BY <1>2, <1>3, <2>1, <2>2, <2>3, <2>4 DEF Request, Replay
<1>4. ASSUME NEW w \in Worker, Raise(w)
      PROVE  Quiet'
  <2>1. CASE pc[w] \in Guarded
    <3>1. Undecided(current[w]) => Status(current[w]) \in UndecidedAt("fail")
      BY <2>1 DEF Quiet, UndecidedCalls, Busy, UndecidedAt, Guarded
    <3> QED BY <1>4, <2>1, <3>1, MoveKeepsQuiet DEF Raise, store, history, Guarded
  <2>2. CASE pc[w] \notin Guarded
    BY <1>4, <2>2, MoveKeepsQuiet DEF Raise, store, history
  <2> QED BY <2>1, <2>2
<1>5. ASSUME NEW p \in Process, Terminate(p)
      PROVE  Quiet'
  BY <1>5, EndsKeepQuiet DEF Terminate, store, history
<1>6. ASSUME NEW p \in Process, Start(p)
      PROVE  Quiet'
  BY <1>6, RecoveryKeepsQuiet DEF Start, history
<1>7. CASE OpenStore
  BY <1>7, RecoveryKeepsQuiet DEF OpenStore, history
<1> QED BY <1>1, <1>2, <1>3, <1>4, <1>5, <1>6, <1>7 DEF Next

-----------------------------------------------------------------------------
(* The theorems                                                            *)

QuietInv == CallInv /\ Quiet

LEMMA InitQuiet == Init => QuietInv
<1> SUFFICES ASSUME Init PROVE QuietInv
  OBVIOUS
<1>1. Quiet
  BY DEF Init, StoreInit, Quiet, UndecidedCalls, UndecidedHeld, DeniedRests, DeniedOnly, Busy, Ran
<1> QED BY <1>1, InitCalls DEF QuietInv

LEMMA QuietInvariant == ASSUME QuietResumes PROVE Spec => []QuietInv
<1>1. QuietInv /\ [Next]_vars => QuietInv'
  BY NextKeepsCalls, NextKeepsQuiet DEF QuietInv
<1> QED BY <1>1, InitQuiet, PTL DEF Spec

\* However many processes share the database and however approve and deny race in them, a
\* transaction that was denied and never approved reaches no backend.
THEOREM DeniedDoesNotRun == ASSUME QuietResumes PROVE Spec => []DeniedNeverRuns
<1>1. QuietInv => DeniedNeverRuns
  BY DEF QuietInv, Quiet, DeniedRests, DeniedNeverRuns, DeniedOnly
<1> QED BY <1>1, QuietInvariant, PTL

\* However many processes share the database, nothing but a stored human decision takes a
\* transaction out of WAITING_APPROVAL.
THEOREM HeldUntilDecision == ASSUME QuietResumes PROVE Spec => HeldReleasedOnlyByDecision
<1>1. ASSUME QuietInv, [Next]_vars, NEW t \in TransactionId,
             Status(t) = "WAITING_APPROVAL", Undecided(t)
      PROVE  Status(t)' = "WAITING_APPROVAL"
  <2>0. CallInv
    BY <1>1 DEF QuietInv
  <2>1. ASSUME NEW w \in Worker, pc[w] # "idle"
        PROVE  current[w] # t
    BY <1>1, <2>1 DEF QuietInv, Quiet, UndecidedCalls, Busy, UndecidedAt
  <2>2. ASSUME NEW w \in Worker, pc[w] # "idle", NEW status \in EffectStatus,
               NEW decision \in Decision,
               save_transaction(current[w], Update(w, status, decision))
        PROVE  Status(t)' = Status(t)
    BY <2>0, <2>1, <2>2, SavedStatus
  <2>3. ASSUME UNCHANGED transactions
        PROVE  Status(t)' = Status(t)
    BY <2>3 DEF Status
  <2>4. ASSUME NEW u \in TransactionId, Status(u) = "ABSENT", NEW copy \in EffectTransaction,
               save_transaction(u, copy)
        PROVE  Status(t)' = Status(t)
    BY <1>1, <2>0, <2>4, FreshSave
  <2>5. ASSUME recover_uncertain_executions
        PROVE  Status(t)' = Status(t)
    BY <1>1, <2>0, <2>5, RecoveredRow
  <2>6. ASSUME NEW w \in Worker, Step(w)
        PROVE  Status(t)' = Status(t)
    <3>0. pc[w] # "idle" => row[w].decision \in Decision
      BY <2>0 DEF CallInv, CallOK, Stands, EffectTransaction
    <3>1. CASE StopTool(w)
      BY <2>2, <3>1 DEF StopTool, SaveAndReturn, EffectStatus, Decision
    <3>2. CASE StopResponse(w)
      BY <2>2, <3>2 DEF StopResponse, SaveAndReturn, EffectStatus, Decision
    <3>3. CASE Check(w) \/ Execute(w) \/ Settle(w) \/ Recheck(w)
      BY <2>2, <3>0, <3>3 DEF Check, Execute, Settle, Recheck, SaveThen, EffectStatus
    <3>4. CASE Authorize(w) \/ RepairParent(w)
      BY <2>2, <3>4 DEF Authorize, RepairParent, CloseRepaired, SaveThen, EffectStatus, Decision
    <3>5. CASE Fail(w) \/ BlockDenied(w)
      BY <2>2, <3>0, <3>5 DEF Fail, BlockDenied, SaveAndReturn, EffectStatus, Decision
    <3>6. CASE RepairChild(w)
      BY <2>0, <2>4, <3>6, FreshCopies DEF RepairChild
    <3>7. CASE UnregisteredTool(w) \/ GatewayCheck(w) \/ Backend(w) \/ Persist(w) \/ Report(w)
      BY <2>3, <3>7 DEF UnregisteredTool, GatewayCheck, Backend, Persist, Report, store
    <3> QED BY <2>6, <3>1, <3>2, <3>3, <3>4, <3>5, <3>6, <3>7 DEF Step
  <2>7. ASSUME NEW w \in Worker, Request(w)
        PROVE  Status(t)' = Status(t)
    <3>1. ASSUME NEW e \in EffectId, Handle(w, e)
          PROVE  Status(t)' = Status(t)
      BY <2>0, <2>4, <3>1, FreshCopies DEF Handle
    <3> QED
      BY <2>3, <2>7, <3>1 DEF Request, Replay, Approve, Deny, Resume, vars, store
  <2>8. CASE \/ \E w \in Worker : Raise(w)
             \/ \E p \in Process : Terminate(p)
             \/ UNCHANGED vars
    BY <1>1, <2>3, <2>8 DEF Raise, Terminate, vars, store
  <2>9. CASE OpenStore \/ \E p \in Process : Start(p)
    BY <1>1, <2>5, <2>9 DEF OpenStore, Start
  <2> QED BY <1>1, <2>6, <2>7, <2>8, <2>9 DEF Next
<1>2. QuietInv /\ [Next]_vars => [\A t \in TransactionId :
        (Status(t) = "WAITING_APPROVAL" /\ Status(t)' # "WAITING_APPROVAL")
            => \E a \in approvals : a.transaction_id = t]_vars
  BY <1>1 DEF Undecided
<1> QED BY <1>2, QuietInvariant, PTL DEF Spec, HeldReleasedOnlyByDecision
=============================================================================
