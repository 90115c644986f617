----------------------------- MODULE MCCLIIdler -----------------------------
(* Two namespaces, with two deployments in one of them.                     *)
EXTENDS CLIIdler

\* A pod bears the name of its deployment.
OnePodEach == [p \in Pods |-> p]

LastApart == [d \in Deployments |-> IF d = "last" THEN "n2" ELSE "n1"]
=============================================================================
