-------------------------- MODULE MCDeploymentStatus --------------------------
(* DeploymentStatus for TLC *)
EXTENDS DeploymentStatus

\* Each wrapper, each field and each kind once: a commit's deployment state is written
\* under the status handler, its build status under the other wrapper.  The secret
\* matters to what has a deployment.
MCInit == /\ Init
          /\ setup.style = "update" => setup.field # "githubStatus"
          /\ api.deployment \/ ~ready

MCSpec == MCInit /\ [][Next]_vars /\ Fairness
=============================================================================
