SPECIFICATION MCSpec
CONSTANTS
    WorkerKind = {"core", "worker"}
    AllowStub = FALSE
    MaxCmd = 2
    MaxEvt = 4
    MaxAttach = 2
INVARIANTS
    OneQuantumChain
    RunningIsWatched
    
    ExecutesBooted
    AttachTruthful
    AgreementIfCareful
