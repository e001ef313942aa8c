\* The deployment of docs/threat_model.md: one broker process, two request threads,
\* crashes, exceptions, every verdict.
SPECIFICATION Spec
CONSTANTS
    None = None
    TransactionId = {t1, t2, t3}
    EffectId = {e1, r1}
    ReadEffects = {}
    ResponseEffects = {r1}
    Process = {"service"}
    Worker = {w1, w2}
    CliWorkers = {}
    ProcessOf <- Placement
    CapabilityOf <- Capabilities
    Offered <- Calls
    ServiceCalls = {"handle", "approve", "deny", "quiet_resume"}
    CliCalls = {}
    Observed = FALSE
    Verdict = {"ALLOW", "BLOCK", "REPAIR", "REQUIRE_APPROVAL"}
    MaxDecisions = 2
    MaxTerminations = 1
    MaxErrors = 1
SYMMETRY Symmetry
INVARIANTS
    TypeOK
    HeldBeforeEffect
    AtMostOncePerTransaction
    RepetitionIsVisible
    RepairClosesParent
    ExecutingIsAttended
PROPERTIES
    CommittedRepeatedOnlyOnReentry
    ImplementsLifecycle
\* The service may be idle with every id of the instance used up.
CHECK_DEADLOCK FALSE
