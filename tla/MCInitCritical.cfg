SPECIFICATION CFairSpec
CONSTANTS
    Svc = {"daemon"}
    Pid = {p1}
    Oneshot = {}
    Critical = {"daemon"}
    RcDisabled = {}
    NeedsConsole = {"daemon"}
    Classes = {"main"}
    Class <- MCClass
    OnRestart <- MCOnRestart
    Keychord = {"daemon"}
    Adbd = "daemon"
    RestartDelay = 1
    CrashWindow = 1
    CrashThreshold = 2
CHECK_DEADLOCK FALSE
INVARIANT RecoveryOnlyAfterBurst
PROPERTY ServicesMoveOn
