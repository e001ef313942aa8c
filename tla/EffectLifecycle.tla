--------------------------- MODULE EffectLifecycle ---------------------------
(***************************************************************************)
(* What the effect runtime promises of one transaction: the state machine  *)
(* of docs/architecture.md ("Transaction state machine") as the code has   *)
(* it, together with the number of times the backend ran on the            *)
(* transaction's behalf.  A backend runs only while the transaction is     *)
(* EXECUTING, at most once, and no state is ever EXECUTING again.          *)
(***************************************************************************)
EXTENDS Naturals

CONSTANT TransactionId

VARIABLES
    status,   \* TransactionId -> status, "ABSENT" before the transaction is created
    runs      \* TransactionId -> number of backend executions

lifecycle == <<status, runs>>

\* The edges of the documented diagram, and the one the code adds: an exception raised
\* after SUCCEEDED is saved, by the last audit row, ends in the same except clause.
Edge == {<<"CREATED", "CHECKING">>,
         <<"CHECKING", "BLOCKED">>, <<"CHECKING", "WAITING_APPROVAL">>,
         <<"WAITING_APPROVAL", "BLOCKED">>, <<"WAITING_APPROVAL", "CHECKING">>,
         <<"CHECKING", "AUTHORIZED">>, <<"AUTHORIZED", "CHECKING">>,
         <<"AUTHORIZED", "EXECUTING">>,
         <<"EXECUTING", "SUCCEEDED">>, <<"EXECUTING", "FAILED">>,
         <<"SUCCEEDED", "FAILED">>}

Init ==
    /\ status = [t \in TransactionId |-> "ABSENT"]
    /\ runs = [t \in TransactionId |-> 0]

Submit(t) ==
    /\ status[t] = "ABSENT"
    /\ status' = [status EXCEPT ![t] = "CREATED"]
    /\ UNCHANGED runs

\* A repair child takes the place of a transaction that was blocked for it.
Derive(t, parent) ==
    /\ status[t] = "ABSENT"
    /\ status[parent] = "BLOCKED"
    /\ status' = [status EXCEPT ![t] = "AUTHORIZED"]
    /\ UNCHANGED runs

Advance(t, new) ==
    /\ <<status[t], new>> \in Edge
    /\ status' = [status EXCEPT ![t] = new]
    /\ UNCHANGED runs

Run(t) ==
    /\ status[t] = "EXECUTING"
    /\ runs[t] = 0
    /\ runs' = [runs EXCEPT ![t] = 1]
    /\ UNCHANGED status

\* At startup every transaction whose outcome is unknown is handed to a human.
Recover ==
    /\ status' = [t \in TransactionId |->
                    IF status[t] = "EXECUTING" THEN "REQUIRE_HUMAN_REVIEW" ELSE status[t]]
    /\ UNCHANGED runs

Next ==
    \/ \E t \in TransactionId :
        \/ Submit(t)
        \/ \E parent \in TransactionId : Derive(t, parent)
        \/ \E new \in {e[2] : e \in Edge} : Advance(t, new)
        \/ Run(t)
    \/ Recover

Spec == Init /\ [][Next]_lifecycle
=============================================================================
