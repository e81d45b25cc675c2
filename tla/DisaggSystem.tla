----------------------------- MODULE DisaggSystem -----------------------------
(***************************************************************************)
(* Disaggregated diffusion as a whole: the clients of the HTTP frontend,   *)
(* the DiffusionServer and the role instances, joined by `net`.            *)
(***************************************************************************)
EXTENDS DiffusionServer, RoleInstances

vars == <<net, serverVars, roleVars>>

Init == ServerInit /\ RolesInit

(* A REQ socket sends its one request.                                     *)
ClientSend(c) ==
  /\ inbox[c] = "idle"
  /\ inbox' = [inbox EXCEPT ![c] = "sent"]
  /\ UNCHANGED <<tracker, pending, free, tta, cursor, transfer, peers, todo,
                 running, now, horizon, replies, net, roleVars>>

Next ==
  \/ \E c \in Clients : ClientSend(c)
  \/ (ServerNext \/ Tick) /\ UNCHANGED roleVars
  \/ RolesNext /\ UNCHANGED serverVars

Spec == Init /\ [][Next]_vars

(* The event loop keeps taking steps while it runs, time passes, and every *)
(* thread of an instance keeps serving its queue.                          *)
ServerFairness == WF_vars(ServerNext /\ UNCHANGED roleVars)
TimeFairness   == WF_vars(Tick /\ UNCHANGED roleVars)
RolesFairness  == WF_vars(RolesNext /\ UNCHANGED serverVars)

(* Answers rest on the server and the clock alone: no fairness of a role.  *)
FairSpec == Spec /\ ServerFairness /\ TimeFairness

(* Results need the role instances too.                                    *)
ServingSpec == Spec /\ ServerFairness /\ RolesFairness

-------------------------------------------------------------------------------
(* What the state means.                                                   *)

(* A transfer of r is under way: its receiver has not been told READY.     *)
InTransfer(r) ==
  \E m \in net : /\ m.type \in {"ALLOC", "ALLOCATED", "PUSH", "PUSHED"}
                 /\ m.id = r

(* r occupies the slot of its instance in the pool of `role`: from the     *)
(* dispatch until its output has left the instance.                        *)
Holds(r, role) ==
  CASE role = "encoder" ->
         \/ InState(tracker, r, {"ENCODER_RUNNING", "ENCODER_DONE", "DENOISING_WAITING"})
         \/ InState(tracker, r, {"DENOISING_RUNNING"}) /\ InTransfer(r)
    [] role = "denoiser" ->
         \/ InState(tracker, r, {"DENOISING_RUNNING", "DENOISING_DONE", "DECODER_WAITING"})
         \/ InState(tracker, r, {"DECODER_RUNNING"}) /\ InTransfer(r)
    [] role = "decoder" -> InState(tracker, r, {"DECODER_RUNNING"})

Holders(role, i) ==
  {r \in Requests : Holds(r, role) /\ tracker[r].instance[role] = i}

(* No request is in progress anywhere.                                     *)
Idle ==
  /\ todo = {} /\ net = {}
  /\ \A q \in Roles : tta[q] = {}
  /\ \A r \in Requests : ~Tracked(tracker, r)

-------------------------------------------------------------------------------
(* Safety.                                                                 *)

(* The free-slot counters never go below zero or above the capacity of the *)
(* instance: no slot is handed out twice (_dispatch_to_encoder and the     *)
(* transfer dispatches) and none is given back twice, by a PUSHED, a DONE, *)
(* a decoder result or a timeout racing one of them.                       *)
SlotsWithinCapacity ==
  \A q \in Roles : \A i \in Inst(q) : free[q][i] \in 0 .. Capacity[q]

(* Every slot that is not free is held by a tracked request: capacity does *)
(* not leak.  Holds as long as no request times out or fails in its        *)
(* encoder.                                                                *)
SlotConservation ==
  \A q \in Roles : \A i \in Inst(q) :
    free[q][i] + Cardinality(Holders(q, i)) = Capacity[q]

(* A successful reply carries the decoder's output of that client's own    *)
(* request, made from its own latents: no slot mix-up between two requests *)
(* and no result of another request reaches a client                       *)
(* (_handle_decoder_result_frames).  Holds as long as no RDMA push fails.  *)
RepliesAreOwn ==
  \A c \in Clients : \A k \in 1 .. Len(replies[c]) :
    replies[c][k].kind = "ok" => replies[c][k].data = Output(IdOf[c], "decoder")

(* The server's view of a request is consistent between any two steps: it  *)
(* owes a client an answer exactly while it tracks the request, and a      *)
(* tracked request is in the queue of a role exactly while its state says  *)
(* it waits for that role.                                                 *)
TrackerConsistent ==
  \A r \in Requests :
    /\ pending[r] # None <=> Tracked(tracker, r)
    /\ Tracked(tracker, r) =>
         \A q \in Roles :
           (\E e \in tta[q] : e.id = r) <=>
             tracker[r].state = CASE q = "encoder"  -> "ENCODER_WAITING"
                                  [] q = "denoiser" -> "DENOISING_WAITING"
                                  [] q = "decoder"  -> "DECODER_WAITING"

(* A preallocated receive slot has one owner: it is once in the server's   *)
(* free list of the instance, or claimed by one transfer to it, also when  *)
(* requests time out around _try_fast_path_push and _recycle_prealloc_     *)
(* slot.                                                                   *)
PreallocOwnedOnce ==
  \A q \in Receivers : \A i \in Inst(q) : \A s \in Prealloc :
    LET listed == {k \in 1 .. Len(peers[q][i]) : peers[q][i][k].slot = s}
        claims == {r \in Requests : /\ transfer[r] # None
                                    /\ transfer[r].pre = s
                                    /\ transfer[r].addr = At(q, i, s)}
    IN  Cardinality(listed) + Cardinality(claims) <= 1

(* An RDMA write in flight goes to a slot that still belongs to its        *)
(* request and is large enough for it, even when the request has timed out *)
(* meanwhile: a zombie PUSH never lands in somebody else's receive slot.   *)
PushTargetsOwnSlot ==
  \A m \in net : m.type = "PUSH" =>
    LET a == m.addr IN
    \/ receives[a.role][a.inst][m.id] = a.slot
    \/ /\ transfer[m.id].pre = a.slot /\ a.slot \in Prealloc
       /\ m.size <= PreallocSize

(* When a receiver is told READY, its slot holds the output of the stage   *)
(* before for that request ("After the RDMA data arrives").  Holds as long *)
(* as no RDMA push fails.                                                  *)
ReadyDataArrived ==
  \A m \in net : m.type = "READY" =>
    LET s == IF m.pre # None THEN m.pre ELSE receives[m.role][m.inst][m.id]
    IN  mem[At(m.role, m.inst, s)] = Output(m.id, Upstream(m.role))

(* The work of a tracked request is at the instance its record names, and  *)
(* a PUSH reaches the instance that staged the data: _handle_transfer_     *)
(* allocated and _handle_transfer_pushed tell the two hops apart by the    *)
(* state of the record alone.                                              *)
WorkAtRecordedInstance ==
  \A m \in net :
    (m.type \in {"REQUEST", "ALLOC", "PUSH", "READY", "COMPUTE"}
       /\ Tracked(tracker, m.id)) =>
      /\ tracker[m.id].instance[m.role] = m.inst
      /\ m.type = "PUSH" => staged[m.role][m.inst][m.id] # None

(* When nothing is in progress every transfer pool is back to the blocks   *)
(* it preallocated: free_staged and free_receive_slot return all others.   *)
(* Holds as long as no request times out and no fault happens.             *)
PoolsRestoredWhenIdle ==
  Idle => /\ allocated = [q \in Roles |-> [i \in Inst(q) |->
                            IF q = "encoder" THEN {} ELSE Prealloc]]
          /\ \A q \in Roles : \A i \in Inst(q) : \A r \in Requests :
               staged[q][i][r] = None /\ receives[q][i][r] = None

-------------------------------------------------------------------------------
(* Liveness.                                                               *)

(* Every client of the frontend is answered, because the timeout answers   *)
(* for a pipeline that does not.                                           *)
EveryRequestAnswered ==
  \A c \in Clients : inbox[c] = "sent" ~> replies[c] # <<>>

(* Without timeouts and faults every request comes back with its result:   *)
(* slots, queues and receive pools never leave requests waiting for each   *)
(* other.                                                                  *)
EveryRequestServed ==
  \A c \in Clients : inbox[c] = "sent" ~>
    replies[c] # <<>> /\ replies[c][1].kind # "error"

-------------------------------------------------------------------------------
(* Refinement.                                                             *)

Service == INSTANCE GenerationService
             WITH asked <- {c \in Clients : inbox[c] # "idle"},
                  answers <- replies

(* Seen from the frontend, the system is the generation service: no client *)
(* is answered twice or unasked, whichever of a result, an error and a     *)
(* timeout comes first (all of them pop _pending), and all are answered.   *)
ImplementsService == Service!Spec

(* The same without the promise to answer.                                 *)
ImplementsSafeService == Service!SafeSpec
===============================================================================
