SPECIFICATION Spec
CONSTANTS
    Svc = {"daemon", "once"}
    Pid = {p1, p2}
    Oneshot = {"once"}
    Critical = {}
    RcDisabled = {"once"}
    NeedsConsole = {}
    Classes = {"main", "late"}
    Class <- MCClass
    OnRestart <- MCOnRestart
    Keychord = {"once"}
    Adbd = "daemon"
    RestartDelay = 1
    CrashWindow = 0
    CrashThreshold = 0
SYMMETRY PidSymmetry
INVARIANTS ChildrenTracked NothingLeftBehind
PROPERTY StoppedStaysStopped
