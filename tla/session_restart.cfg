\* docs/capability_broker.md, "Data-object continuity after restart": the objects of a paused
\* transaction are reconstructed in a fresh session before re-verification.  The agent goes
\* on reading in the new process before the approval.
SPECIFICATION Spec
CONSTANTS
    None = None
    MaxRepairs = 2
    Packages <- AllPackages
    Selections <- PiplOnly
    Hosts = {"broker"}
    Reads <- ReadBodies
    Rows = {"rows", "diagnoses"}
    Pages = {"plain"}
    Recipients = {"partner"}
    Proposals = {"customer.read", "email.send"}
    MaxRequests = 3
    MaxSessions = 2
    MaxReferences = 1
    MaxApprovals = 1
    MaxFaults = 0
    IdReuse = TRUE
INVARIANT ReverifiedAgainstItsObject
\* A session may be idle with every bound used up.
CHECK_DEADLOCK FALSE
