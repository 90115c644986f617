\* Everything at once: a cron firing, two requests, the controller, failing calls and a crash.
SPECIFICATION Spec
CONSTANTS
    Namespaces = {n1}
    Deployments = {d1}
    Ingresses = {i1}
    NamespaceOf <- OneNamespace
    MatchLabels <- OwnLabels
    Selected = {i1}
    MaxReplicas = 1
    Reconciler = controller
    Lagging = {}
    Faulty = TRUE
    Crons = {c1}
    AutoIdled = {n1}
    Skip = {}
    DryRun = FALSE
    Requests = {r1, r2}
    PollTimeout = TRUE
    Postable = {"unidle"}
    MaxPosts = 1
    Rescalable = {}
    UserItems = {}
    Annotated = {}
    MaxCrashes = 1
SYMMETRY Interchangeable
INVARIANT TypeOK
INVARIANT Recoverable
INVARIANT LockHasHolder
PROPERTY ImplementsQueue
