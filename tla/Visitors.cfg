\* Visitors: a browser and a bot before one environment, with verification and access rules, a crash and another secret.
SPECIFICATION FairFrontSpec
CONSTANTS
    Namespaces = {n1}
    Deployments = {d1, d2}
    Ingresses = {i1, i2}
    NamespaceOf <- OneNamespace
    MatchLabels <- OwnLabels
    Selected = {i1, i2}
    MaxReplicas = 1
    Reconciler = controller
    Lagging = {}
    Faulty = FALSE
    Crons = {}
    AutoIdled = {n1}
    Skip = {}
    DryRun = FALSE
    Requests = {v1, v2}
    PollTimeout = FALSE
    Postable = {}
    MaxPosts = 0
    Rescalable = {}
    UserItems = {}
    Annotated = {}
    MaxCrashes = 1
    AskedBy <- OwnRequest
    Entry <- OwnIngress
    Through <- ByNginx
    Client <- Browsers
    Scripted = {v1}
    VerifiedUnidling = TRUE
    Secrets = {"old", "new"}
    RuleSets <- SomeRules
    Visitors = {v1, v2}
PROPERTY PageUntilReady
 
