--------------------------- MODULE MCDockerSandboxes ---------------------------
(* DockerSandboxes on small instances *)
EXTENDS DockerSandboxes
================================================================================
