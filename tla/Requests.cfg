\* The same visitors while calls fail, a force-scale command is carried out and the process dies.
SPECIFICATION FrontSpec
CONSTANTS
    Namespaces = {n1}
    Deployments = {d1}
    Ingresses = {i1}
    NamespaceOf <- OneNamespace
    MatchLabels <- OwnLabels
    Selected = {i1}
    MaxReplicas = 1
    Reconciler = controller
    Lagging = {}
    Faulty = TRUE
    Crons = {}
    AutoIdled = {n1}
    Skip = {}
    DryRun = FALSE
    Requests = {v1, v2}
    PollTimeout = FALSE
    Postable = {"force-scaled"}
    MaxPosts = 1
    Rescalable = {}
    UserItems = {}
    Annotated = {}
    MaxCrashes = 1
    AskedBy <- OwnRequest
    Entry <- OwnIngress
    Through <- ByNginx
    Client <- Browsers
    Scripted = {v1}
    VerifiedUnidling = TRUE
    Secrets = {"old"}
    RuleSets <- RequestRules
    Visitors = {v1, v2}
INVARIANT FrontTypeOK
INVARIANT OnlyForBrowsers
INVARIANT IngressRulesApply
CHECK_DEADLOCK FALSE
