\* One response release that needs approval, no faults.
SPECIFICATION FairSpec
CONSTANTS
    None = None
    TransactionId = {t1}
    EffectId = {r1}
    ReadEffects = {}
    ResponseEffects = {r1}
    Process = {"service"}
    Worker = {w1}
    CliWorkers = {}
    ProcessOf <- Placement
    CapabilityOf <- Capabilities
    Offered <- Calls
    ServiceCalls = {"handle", "approve", "deny"}
    CliCalls = {}
    Observed = FALSE
    Verdict = {"ALLOW", "REQUIRE_APPROVAL"}
    MaxDecisions = 2
    MaxTerminations = 0
    MaxErrors = 0
PROPERTY EveryCallSettles
CHECK_DEADLOCK FALSE
