\* A visitor that comes through traefik and is blocked by its ingress.
SPECIFICATION FrontSpec
CONSTANTS
    Namespaces = {n1}
    Deployments = {d1}
    Ingresses = {i1}
    NamespaceOf <- OneNamespace
    MatchLabels <- OwnLabels
    Selected = {i1}
    MaxReplicas = 1
    Reconciler = controller
    Lagging = {}
    Faulty = FALSE
    Crons = {}
    AutoIdled = {n1}
    Skip = {}
    DryRun = FALSE
    Requests = {v1}
    PollTimeout = TRUE
    Postable = {}
    MaxPosts = 0
    Rescalable = {}
    UserItems = {}
    Annotated = {}
    MaxCrashes = 0
    AskedBy <- OwnRequest
    Entry <- OwnIngress
    Through <- ByTraefik
    Client <- Browsers
    Scripted = {v1}
    VerifiedUnidling = TRUE
    Secrets = {"old", "new"}
    RuleSets <- BlockingRules
    Visitors = {v1}
INVARIANT IngressRulesApply
