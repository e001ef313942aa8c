\* docs/security_evaluation.md: raw personal rows are repaired to an aggregate under GDPR.
\* The agent mails two objects at once.
SPECIFICATION Spec
CONSTANTS
    None = None
    MaxRepairs = 2
    Packages <- AllPackages
    Selections <- GdprOnly
    Hosts = {"broker"}
    Reads <- ReadBodies
    Rows = {"rows"}
    Pages = {"plain"}
    Recipients = {"partner"}
    Proposals = {"customer.read", "web.page.read", "email.send"}
    MaxRequests = 3
    MaxSessions = 1
    MaxReferences = 2
    MaxApprovals = 0
    MaxFaults = 0
    IdReuse = FALSE
INVARIANT RawPersonalNeverLeaves
\* A session may be idle with every bound used up.
CHECK_DEADLOCK FALSE
