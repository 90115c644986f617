\* Idlers only: overlapping cron firings and forced runs, failing calls, crashes, a slow informer, changing replica counts.
SPECIFICATION Spec
CONSTANTS
    Namespaces = {n1}
    Deployments = {d1}
    Ingresses = {i1, i2}
    NamespaceOf <- OneNamespace
    MatchLabels <- OwnLabels
    Selected = {i1, i2}
    MaxReplicas = 2
    Reconciler = controller
    Lagging = {"namespaces"}
    Faulty = TRUE
    Crons = {c1, c2}
    AutoIdled = {n1}
    Skip = {}
    DryRun = FALSE
    Requests = {}
    PollTimeout = TRUE
    Postable = {"force-scaled", "force-idled"}
    MaxPosts = 1
    Rescalable = {d1}
    UserItems = {}
    Annotated = {}
    MaxCrashes = 1
SYMMETRY Interchangeable
INVARIANT NoDarkEnvironment
PROPERTY ForgottenByErrorOnly
