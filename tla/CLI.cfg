\* The CLI idler beside users and builds: failing calls, and a pod that answers nothing.
SPECIFICATION FairCLISpec
CONSTANTS
    Namespaces = {"n1", "n2"}
    AutoIdled = {"n1", "n2"}
    Deployments = {"first", "cronned", "last"}
    Pods = {"first", "cronned", "last"}
    Owner <- OnePodEach
    NamespaceOf <- LastApart
    WithCrons = {"cronned"}
    Mute = {"last"}
    ProcessCounts = {0, 1}
    Firings = {"c1"}
    Skip = {}
    DryRun = FALSE
    Faulty = TRUE
INVARIANT CLITypeOK
INVARIANT CronsStayUp
PROPERTY BusyStaysUp
PROPERTY IdleScaledDown
