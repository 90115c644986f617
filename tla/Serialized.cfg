\* One operation at a time, with a crash in the middle of any of them; one environment has no ingress.
SPECIFICATION SerialSpec
CONSTANTS
    Namespaces = {n1, n2}
    Deployments = {d1, d2, d3}
    Ingresses = {i1}
    NamespaceOf <- TwoNamespaces
    MatchLabels <- OwnLabels
    Selected = {i1}
    MaxReplicas = 1
    Reconciler = controller
    Lagging = {"namespaces"}
    Faulty = FALSE
    Crons = {c1}
    AutoIdled = {n1, n2}
    Skip = {"builds"}
    DryRun = FALSE
    Requests = {r1}
    PollTimeout = TRUE
    Postable = {"force-scaled", "force-idled", "unidle"}
    MaxPosts = 2
    Rescalable = {}
    UserItems = {}
    Annotated = {}
    MaxCrashes = 1
INVARIANT NoDarkEnvironment
INVARIANT SleepIsLabelled
INVARIANT UnidleCompletes
PROPERTY ForceScaledHolds
 
