\* Sessions of a broker and of a wrapped agent, over the bundled packages, alone and
\* together, and a reviewed one: restarts, approvals, tool and audit failures.
SPECIFICATION Spec
CONSTANTS
    None = None
    MaxRepairs = 2
    Packages <- AllPackages
    Selections <- AllSelections
    Hosts = {"broker", "wrap"}
    Reads <- ReadBodies
    Rows = {"rows", "diagnoses"}
    Pages = {"contact"}
    Recipients = {"partner"}
    Proposals = {"customer.read", "web.page.read", "web.action.submit", "email.send", "memory.write", "response.release", "unspecified"}
    MaxRequests = 3
    MaxSessions = 2
    MaxReferences = 1
    MaxApprovals = 1
    MaxFaults = 1
    IdReuse = FALSE
INVARIANTS
    TypeOK
    AdmittedComplies
    SensitiveNeedsItsApproval
    RawPersonalNeverLeaves
    ReleasedIsClean
    AuditedBeforeEffect
    SequencesAccepted
    UncertainIsMarked
PROPERTIES
    ClassificationIsFinal
\* A session may be idle with every bound used up.
CHECK_DEADLOCK FALSE
