------------------------------ MODULE MCBroker ------------------------------
(***************************************************************************)
(* Small instances of CapabilityBroker for TLC.  A .cfg gives the sets;    *)
(* the functions over them are built here.                                 *)
(***************************************************************************)
EXTENDS BrokerProperties, TLC

CONSTANTS
    ReadEffects,      \* effect ids that stand for reads
    ResponseEffects,  \* effect ids that stand for response releases
    CliWorkers,       \* workers of a second process: `agentshield approve' and `deny'
    ServiceCalls,     \* calls the service process takes
    CliCalls          \* calls the second process takes

Capabilities ==
    [e \in EffectId |->
        IF e \in ReadEffects THEN "read"
        ELSE IF e \in ResponseEffects THEN "response" ELSE "tool"]

Placement == [w \in Worker |-> IF w \in CliWorkers THEN "cli" ELSE "service"]

Calls == [p \in Process |-> IF p = "cli" THEN CliCalls ELSE ServiceCalls]

\* Ids are interchangeable.
Symmetry == Permutations(TransactionId)
=============================================================================
