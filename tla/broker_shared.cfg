\* The service and a command line broker on one database, tables opened by observers.
SPECIFICATION Spec
CONSTANTS
    None = None
    TransactionId = {t1, t2}
    EffectId = {e1, d1}
    ReadEffects = {d1}
    ResponseEffects = {}
    Process = {"service", "cli"}
    Worker = {w1, w2}
    CliWorkers = {w2}
    ProcessOf <- Placement
    CapabilityOf <- Capabilities
    Offered <- Calls
    ServiceCalls = {"handle", "approve", "deny", "quiet_resume"}
    CliCalls = {"approve", "deny", "quiet_resume"}
    Observed = TRUE
    Verdict = {"ALLOW", "BLOCK", "REPAIR", "REQUIRE_APPROVAL"}
    MaxDecisions = 3
    MaxTerminations = 1
    MaxErrors = 1
SYMMETRY Symmetry
INVARIANTS
    SucceededIsCommitted
    CommittedWasPerformed
    DeniedNeverRuns
PROPERTIES
    HeldReleasedOnlyByDecision
\* Both processes may be idle with every id of the instance used up.
CHECK_DEADLOCK FALSE
