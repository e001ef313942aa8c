\* A registered tool and a read, human decisions at any time, no exceptions; the process
\* may be terminated once.
SPECIFICATION FairSpec
CONSTANTS
    None = None
    TransactionId = {t1, t2}
    EffectId = {e1, d1}
    ReadEffects = {d1}
    ResponseEffects = {}
    Process = {"service"}
    Worker = {w1, w2}
    CliWorkers = {}
    ProcessOf <- Placement
    CapabilityOf <- Capabilities
    Offered <- Calls
    ServiceCalls = {"handle", "approve", "deny"}
    CliCalls = {}
    Observed = FALSE
    Verdict = {"ALLOW", "BLOCK", "REQUIRE_APPROVAL"}
    MaxDecisions = 2
    MaxTerminations = 1
    MaxErrors = 0
PROPERTIES
    EveryCallSettles
    NoExecutionIsLost
CHECK_DEADLOCK FALSE
