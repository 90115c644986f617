\* Two namespaces whose deployments have the same pod labels.
SPECIFICATION Spec
CONSTANTS
    Namespaces = {n1, n2}
    Deployments = {d1, d2}
    Ingresses = {i1}
    NamespaceOf <- TwoNamespaces
    MatchLabels <- SharedLabels
    Selected = {i1}
    MaxReplicas = 1
    Reconciler = controller
    Lagging = {}
    Faulty = FALSE
    Crons = {}
    AutoIdled = {n1}
    Skip = {}
    DryRun = FALSE
    Requests = {r1}
    PollTimeout = FALSE
    Postable = {}
    MaxPosts = 0
    Rescalable = {}
    UserItems = {}
    Annotated = {}
    MaxCrashes = 0
PROPERTY PageUntilReady
