----------------------------- MODULE MCDeployment -----------------------------
(* The device with the tunnel off, on a port, or badly configured.            *)
EXTENDS Deployment
=============================================================================
