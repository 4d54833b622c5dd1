SPECIFICATION Spec
CONSTANTS
    Pids = {1, 2}
    Target = 1
    Requests = {"bare", "observe", "report"}
    Settings = {{"reexec"}, {"atfork"}, {"early", "reexec"}, {"early", "atfork"}}
    MaxImages = 3
    MaxSignals = 1
INVARIANTS
    OneCopyWorks
    DescendantsSilent
    NoPhantomJoin
    TargetReports
CHECK_DEADLOCK FALSE
