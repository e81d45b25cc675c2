---------------------------- MODULE DisaggProtocol ----------------------------
(***************************************************************************)
(* What the orchestrator (DiffusionServer) and the role instances share:   *)
(* the deployment, the control messages of transport/protocol.py and the   *)
(* sockets that carry them.                                                *)
(*                                                                         *)
(* `net` is the set of messages sent and not yet received, together with   *)
(* the items a receiver's recv thread has queued for its main thread       *)
(* (type COMPUTE).  ZeroMQ PUSH/PULL neither loses nor duplicates a        *)
(* message; it keeps the order of one connection only, and a result socket *)
(* merges the connections of all instances and of their RDMA threads, so   *)
(* the model lets messages overtake each other freely.                     *)
(***************************************************************************)
EXTENDS RequestTracker, DispatchPolicy, Sequences, FiniteSets

CONSTANTS
  Clients,       \* the exchanges of the frontend's REQ sockets
  IdOf,          \* IdOf[c]: the request_id client c sends; None for a control
                 \* message, which carries no request
  NumInstances,  \* per role, the length of its --*-urls list
  NumSlots,      \* blocks in an instance's transfer pool
  NumPrealloc,   \* of these, receive slots preallocated by a receiver
  PreallocSize,  \* size of a preallocated slot
  DataSizes      \* sizes of what a stage hands to the next one

ASSUME DeploymentAssumption ==
  /\ IsFiniteSet(Requests)
  /\ IdOf \in [Clients -> Requests \cup {None}]
  /\ None \notin Nat \cup Requests \cup Clients
  /\ NumInstances \in [Roles -> Nat \ {0}]
  /\ NumSlots \in Nat /\ NumPrealloc \in 0 .. NumSlots
  /\ PreallocSize \in Nat /\ DataSizes \subseteq Nat

Receivers == {"denoiser", "decoder"}
Upstream(role) == IF role = "denoiser" THEN "encoder" ELSE "denoiser"

Inst(role) == Pool(NumInstances[role])
Slots      == 0 .. (NumSlots - 1)
Prealloc   == 0 .. (NumPrealloc - 1)

(* A place in the transfer pool of an instance: the session, pool pointer  *)
(* and offset of the code.                                                 *)
Addr == [role : Roles, inst : Nat, slot : Slots]
At(role, i, s) == [role |-> role, inst |-> i, slot |-> s]

(* What a buffer holds: the output of a stage for a request, or garbage.   *)
Data == [id : Requests, stage : Roles] \cup {None}
Output(r, stage) == [id |-> r, stage |-> stage]

VARIABLE net

-------------------------------------------------------------------------------
(* Messages to an instance ...                                             *)

REQUEST(i, r) == [type |-> "REQUEST", role |-> "encoder", inst |-> i, id |-> r]

ALLOC(role, i, r, size) ==
  [type |-> "ALLOC", role |-> role, inst |-> i, id |-> r, size |-> size]

PUSH(role, i, r, addr, size) ==
  [type |-> "PUSH", role |-> role, inst |-> i, id |-> r,
   addr |-> addr, size |-> size]

READY(role, i, r, pre) ==
  [type |-> "READY", role |-> role, inst |-> i, id |-> r, pre |-> pre]

(* ... its internal queue (_compute_ready_queue) ...                       *)

COMPUTE(role, i, r, pre, data) ==
  [type |-> "COMPUTE", role |-> role, inst |-> i, id |-> r, pre |-> pre,
   data |-> data]

(* ... and from it.                                                        *)

REGISTER(role, i) == [type |-> "REGISTER", role |-> role, inst |-> i]

STAGED(i, r, size) ==
  [type |-> "STAGED", role |-> "encoder", inst |-> i, id |-> r, size |-> size]

ERROR(i, r) == [type |-> "ERROR", role |-> "encoder", inst |-> i, id |-> r]

ALLOCATED(role, i, r, addr) ==
  [type |-> "ALLOCATED", role |-> role, inst |-> i, id |-> r, addr |-> addr]

PUSHED(role, i, r) ==
  [type |-> "PUSHED", role |-> role, inst |-> i, id |-> r]

(* transfer_done of a denoiser: an error, or an output of `size` staged    *)
(* for the decoder.                                                        *)
DONE(i, r, error, size) ==
  [type |-> "DONE", role |-> "denoiser", inst |-> i, id |-> r,
   error |-> error, size |-> size]

(* The raw result frames of a decoder.                                     *)
OUTPUT(i, r, error, data) ==
  [type |-> "OUTPUT", role |-> "decoder", inst |-> i, id |-> r,
   error |-> error, data |-> data]

ResultTypes ==
  {"REGISTER", "STAGED", "ERROR", "ALLOCATED", "PUSHED", "DONE", "OUTPUT"}

Results(role) == {m \in net : m.type \in ResultTypes /\ m.role = role}
===============================================================================
