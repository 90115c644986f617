\* A pod with ten processes.
SPECIFICATION CLISpec
CONSTANTS
    Namespaces = {"n1"}
    AutoIdled = {"n1"}
    Deployments = {"first"}
    Pods = {"first"}
    Owner <- OnePodEach
    NamespaceOf <- LastApart
    WithCrons = {}
    Mute = {}
    ProcessCounts = {1, 10}
    Firings = {"c1"}
    Skip = {}
    DryRun = FALSE
    Faulty = FALSE
PROPERTY IdleHasNoProcess
