\* One operation at a time, without crashes: labels and replica counts.
SPECIFICATION SerialSpec
CONSTANTS
    Namespaces = {n1}
    Deployments = {d1, d2}
    Ingresses = {i1}
    NamespaceOf <- OneNamespace
    MatchLabels <- OwnLabels
    Selected = {i1}
    MaxReplicas = 2
    Reconciler = controller
    Lagging = {"deployments", "ingresses", "namespaces"}
    Faulty = FALSE
    Crons = {c1}
    AutoIdled = {n1}
    Skip = {}
    DryRun = FALSE
    Requests = {r1}
    PollTimeout = TRUE
    Postable = {"unidle"}
    MaxPosts = 2
    Rescalable = {d1}
    UserItems = {"", "404"}
    Annotated = {i1}
    MaxCrashes = 0
INVARIANT LabelTruth
INVARIANT RoutersAgree
 
PROPERTY CodesKept
