\* Commands in a row, a request and a crash: all of them come to an end.
SPECIFICATION FairSpec
CONSTANTS
    Namespaces = {n1}
    Deployments = {d1}
    Ingresses = {i1}
    NamespaceOf <- OneNamespace
    MatchLabels <- OwnLabels
    Selected = {i1}
    MaxReplicas = 1
    Reconciler = controller
    Lagging = {}
    Faulty = FALSE
    Crons = {}
    AutoIdled = {n1}
    Skip = {}
    DryRun = FALSE
    Requests = {r1}
    PollTimeout = TRUE
    Postable = {"force-scaled", "force-idled", "unidle"}
    MaxPosts = 3
    Rescalable = {}
    UserItems = {}
    Annotated = {}
    MaxCrashes = 1
INVARIANT CommandTracked
PROPERTY ImplementsQueue
PROPERTY CommandsConsumed
PROPERTY LocksReleased
CHECK_DEADLOCK FALSE
