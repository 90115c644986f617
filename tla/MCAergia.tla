------------------------------ MODULE MCAergia ------------------------------
(* Small clusters for TLC.                                                  *)
EXTENDS Aergia, TLC

\* Every deployment and ingress in the one namespace.
OneNamespace == [x \in Deployments \cup Ingresses |-> AnyNamespace]

\* The first deployment alone in a namespace of its own.
FirstDeployment == CHOOSE d \in Deployments : TRUE
OtherNamespace == CHOOSE n \in Namespaces : n # AnyNamespace
TwoNamespaces ==
    [x \in Deployments \cup Ingresses |->
        IF x = FirstDeployment THEN OtherNamespace ELSE AnyNamespace]

\* Pod selectors that tell the deployments apart, and ones that do not.
OwnLabels == [d \in Deployments |-> d]
SharedLabels == [d \in Deployments |-> "app"]

\* Requests, and overlapping firings of the cron, are interchangeable.
Interchangeable == Permutations(Requests) \cup Permutations(Crons)
=============================================================================
