CONSTANTS
    studio = studio
    cli = cli
    Procs <- MCProcs
    NoProc = NoProc
    MaxSaves = 3
    MaxFaults = 2
SPECIFICATION Spec
SYMMETRY MCSymmetry

INVARIANTS
    ManifestIsLoadable
    ResumeFindsItsModel
    LeaksBounded
