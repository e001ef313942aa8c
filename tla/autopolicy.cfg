\* Two processes, each an extraction or a review, in one output directory: tools that
\* hang, fail or make nothing, half-written files, directories picked while being written.
SPECIFICATION Spec
CONSTANTS
    None = None
    Run = {x, y}
    ExtractLtl = {x}
    Outputs <- Extractions
    MaxDirs = 2
INVARIANTS
    TypeOK
    BundleIsTraceable
    OlderOnlyIfNone
    NoToolLeft
PROPERTIES
    RunEnds
\* Every run of the instance ends.
CHECK_DEADLOCK FALSE
