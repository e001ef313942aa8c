\* Two runs of a console, the second possibly resumed from a handoff of the first: invalid,
\* allowed, repaired and held candidates, hanging and failing children, torn records,
\* timeouts, scripts that are interrupted or superseded, records that fail halfway, a server
\* that ends, and handoffs that expire.
SPECIFICATION Spec
CONSTANTS
    None = None
    MaxRepairs = 2
    Loaded <- GdprAndReviewed
    Candidates <- BrowserActions
    MaxReplans = 1
    MaxSteps = 2
    MaxRuns = 2
CONSTRAINT
    SettledBeforeRun
INVARIANTS
    TypeOK
    PerformedWasAllowed
    NothingPersonalPerformed
    AskedAtMost
    RelayedInOrder
    RelayIsComplete
    UsedOnce
    ResumedOnEvidence
    NoOrphan
PROPERTIES
    RunEnds
\* The console is idle when its runs are used up.
CHECK_DEADLOCK FALSE
