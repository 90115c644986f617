\* A request while the cron idles the environment.
SPECIFICATION Spec
CONSTANTS
    Namespaces = {n1}
    Deployments = {d1}
    Ingresses = {i1}
    NamespaceOf <- OneNamespace
    MatchLabels <- OwnLabels
    Selected = {i1}
    MaxReplicas = 1
    Reconciler = controller
    Lagging = {}
    Faulty = FALSE
    Crons = {c1}
    AutoIdled = {n1}
    Skip = {}
    DryRun = FALSE
    Requests = {r1}
    PollTimeout = TRUE
    Postable = {}
    MaxPosts = 0
    Rescalable = {}
    UserItems = {}
    Annotated = {}
    MaxCrashes = 0
INVARIANT NoDarkEnvironment
