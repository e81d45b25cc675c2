------------------------------ MODULE Deployment ------------------------------
(***************************************************************************)
(* How a server was started (server_args) and what its clients will send.  *)
(* The parts of the server read it; it never changes.  A specification     *)
(* starts in every one of the deployments considered.                      *)
(***************************************************************************)
EXTENDS Naturals, FiniteSets

CONSTANT Deployments

DeploymentFields ==
  {"gpus",        \* number of ranks
   "delay",       \* batching_delay_ms > 0
   "warmup",      \* the first request is preceded by a warm-up
   "strategies",  \* the residency strategies considered, per component
   "twoSided",    \* the timesteps of a request lie on both sides of the boundary
   "warmupSteps", \* warmup_steps, the number of timesteps of a warm-up
   "items",       \* what the clients send
   "sockets",     \* sockets may fail
   "targets",     \* the target_modules of requests to update weights
   "damages"}     \* how many weight files may be damaged

ASSUME DeploymentsAssumption ==
  \A d \in Deployments :
    DOMAIN d = DeploymentFields /\ d.gpus \in Nat \ {0} /\ d.damages \in Nat

VARIABLE deployment
===============================================================================
