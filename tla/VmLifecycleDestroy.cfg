SPECIFICATION Spec
CONSTANTS
    WorkerKind = {"core", "worker"}
    AllowStub = TRUE
    MaxCmd = 2
    MaxEvt = 4
    MaxAttach = 0
PROPERTY
    DestroyedTerminal
