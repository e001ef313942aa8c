SPECIFICATION Spec
CONSTANTS
    None = None
    TransactionId = {t1, t2}
    EffectId = {e1}
    ReadEffects = {}
    ResponseEffects = {}
    Process = {"service"}
    Worker = {w1}
    CliWorkers = {}
    ProcessOf <- Placement
    CapabilityOf <- Capabilities
    Offered <- Calls
    ServiceCalls = {"handle"}
    CliCalls = {}
    Observed = FALSE
    Verdict = {"ALLOW", "REQUIRE_APPROVAL"}
    MaxDecisions = 2
    MaxTerminations = 0
    MaxErrors = 1
PROPERTY SucceededIsFinal
CHECK_DEADLOCK FALSE
