--------------------------- MODULE ReceiverThreads ----------------------------
(***************************************************************************)
(* Inside one denoiser instance (rank 0 of scheduler_mixin.py): the recv   *)
(* thread, the main thread and the two CUDA streams, which all touch the   *)
(* transfer pool.  The recv thread starts the load of a request on the     *)
(* transfer stream and hands it to the main thread; the main thread makes  *)
(* the compute stream wait for the load, which does not block the thread   *)
(* itself, frees the receive slot and runs the model; the output is staged *)
(* on the transfer stream into a block of the same pool, which the RDMA    *)
(* thread frees after it has pushed the output onwards.                    *)
(*                                                                         *)
(* The server and the sending role are the environment: they offer a       *)
(* request a preallocated slot or ask for one, write into it, announce it, *)
(* recycle a preallocated slot when the instance is done with it, and ask  *)
(* for the output to be pushed.                                            *)
(***************************************************************************)
EXTENDS LoopErrors, Sequences, FiniteSets

CONSTANTS
  Requests,
  PreSlots,     \* _preallocated_slots
  PoolSlots,    \* the other blocks of the pool
  QueueSize     \* maxsize of _compute_ready_queue

ASSUME ReceiverAssumption ==
  /\ PreSlots \cap PoolSlots = {}
  /\ "no slot" \notin PreSlots \cup PoolSlots
  /\ QueueSize \in Nat \ {0}

NoSlot == "no slot"
NoReq  == "no request"
Slots  == PreSlots \cup PoolSlots

VARIABLES
  \* the environment
  status,    \* per request: "new", "asked", "offered", "sent", "done", "failed"
  target,    \* the slot a request's data goes to
  freePre,   \* preallocated slots the server may offer
  inbox,     \* messages to the instance, in the order of the connection
  mem,       \* whose data a slot holds
  \* the host threads
  allocated, \* blocks taken from the pool
  receives,  \* _pending_receives
  holding,   \* the item the recv thread is about to put in the queue, or none
  queue,     \* _compute_ready_queue
  staged,    \* _staged: the block a request's output is in
  push,      \* per request "none", "queued", "pushed" or "failed"
  leaked,    \* history: the block a staging that raised has left behind
  running,   \* the request the main thread is working on
  step,      \* "idle", "forward", "staging" or "ended"
  stage,     \* the staging block of the running request
  errors,    \* _consecutive_error_count
  \* the device
  copies,    \* the transfer stream: loads and stagings not yet executed
  kernels,   \* the compute stream: requests whose model has not run yet
  tensors,   \* the tensors a load made, as the request whose data they are
  inputs     \* the tensors the model ran on

env    == <<status, target, freePre, inbox, mem>>
main   == <<running, step, stage, errors>>
device == <<copies, kernels, tensors, inputs>>
output == <<staged, push, leaked>>
threadVars == <<status, target, freePre, inbox, mem, allocated, receives, holding,
               queue, staged, push, leaked, running, step, stage, errors, copies,
               kernels, tensors, inputs>>

ThreadsInit ==
  /\ status = [r \in Requests |-> "new"]
  /\ target = [r \in Requests |-> NoSlot]
  /\ freePre = PreSlots
  /\ inbox = <<>>
  /\ mem = [s \in Slots |-> NoReq]
  /\ allocated = PreSlots
  /\ receives = [r \in Requests |-> NoSlot]
  /\ holding = <<>>
  /\ queue = <<>>
  /\ staged = [r \in Requests |-> NoSlot]
  /\ push = [r \in Requests |-> "none"]
  /\ leaked = [r \in Requests |-> NoSlot]
  /\ running = NoReq /\ step = "idle" /\ stage = NoSlot /\ errors = 0
  /\ copies = <<>>
  /\ kernels = <<>>
  /\ tensors = [r \in Requests |-> NoReq]
  /\ inputs = [r \in Requests |-> NoReq]

-------------------------------------------------------------------------------
(* The environment                                                         *)

(* The fast path: the server picks a preallocated slot.                    *)
OfferPrealloc(r) ==
  \E s \in freePre :
    /\ status[r] = "new"
    /\ status' = [status EXCEPT ![r] = "offered"]
    /\ target' = [target EXCEPT ![r] = s]
    /\ freePre' = freePre \ {s}
    /\ UNCHANGED <<inbox, mem, allocated, receives, holding, queue>>
    /\ UNCHANGED <<output, main, device>>

(* The slow path: no preallocated slot is free, or none is large enough.   *)
AskForSlot(r) ==
  /\ status[r] = "new"
  /\ status' = [status EXCEPT ![r] = "asked"]
  /\ inbox' = Append(inbox, [type |-> "ALLOC", id |-> r])
  /\ UNCHANGED <<target, freePre, mem, allocated, receives, holding, queue>>
  /\ UNCHANGED <<output, main, device>>

(* The sender's push writes the slot; the server then announces it.        *)
PushArrives(r) ==
  /\ status[r] = "offered"
  /\ mem' = [mem EXCEPT ![target[r]] = r]
  /\ status' = [status EXCEPT ![r] = "sent"]
  /\ inbox' = Append(inbox, [type |-> "READY", id |-> r])
  /\ UNCHANGED <<target, freePre, allocated, receives, holding, queue>>
  /\ UNCHANGED <<output, main, device>>

-------------------------------------------------------------------------------
(* The recv thread                                                         *)

IsPre(r) == target[r] \in PreSlots

SlotFreedAtOnce(r) == allocated \ ({receives[r]} \cap PoolSlots)

PoolAfterPrefetch(r) == allocated

(* _prefetch_transfer_ready registers a preallocated slot, then it starts  *)
(* the load; the slot must stay allocated meanwhile.                       *)
ReceiveSlot(r) == IF IsPre(r) THEN target[r] ELSE receives[r]

StartLoad(r) ==
  /\ receives' = [receives EXCEPT ![r] = ReceiveSlot(r)]
  /\ copies' = Append(copies, [op |-> "load", id |-> r, slot |-> ReceiveSlot(r)])
  /\ allocated' = PoolAfterPrefetch(r)

(* _recv_prefetch_loop takes an ALLOC or a READY.                          *)
Recv ==
  LET m == Head(inbox) IN
  /\ inbox # <<>> /\ holding = <<>>
  /\ inbox' = Tail(inbox)
  /\ holding' = <<m>>
  /\ \/ m.type = "ALLOC" /\ UNCHANGED <<receives, copies, allocated>>
     \/ m.type = "READY" /\ StartLoad(m.id)
  /\ UNCHANGED <<status, target, freePre, mem, queue, kernels, tensors, inputs>>
  /\ UNCHANGED <<output, main>>

(* The load cannot be started, or the Req not be built from it: the except *)
(* branch of the loop drops the READY, and the receive slot stays with the *)
(* request.                                                                *)
PrefetchRaises ==
  LET r == Head(inbox).id IN
  /\ inbox # <<>> /\ holding = <<>> /\ Head(inbox).type = "READY"
  /\ inbox' = Tail(inbox)
  /\ \/ StartLoad(r)
     \/ /\ receives' = [receives EXCEPT ![r] = ReceiveSlot(r)]
        /\ UNCHANGED <<copies, allocated>>
  /\ UNCHANGED <<status, target, freePre, mem, holding, queue, kernels, tensors, inputs>>
  /\ UNCHANGED <<output, main>>

(* A PUSH is handed to the RDMA thread (_handle_transfer_push).            *)
RecvPush(r) ==
  /\ holding = <<>>
  /\ status[r] = "done" /\ push[r] = "none"
  /\ push' = [push EXCEPT ![r] = "queued"]
  /\ UNCHANGED <<allocated, receives, holding, queue, staged, leaked>>
  /\ UNCHANGED <<env, main, device>>

DropWhenFull ==
  /\ holding # <<>>
  /\ queue' = IF Len(queue) < QueueSize THEN Append(queue, holding[1]) ELSE queue
  /\ holding' = <<>>

(* _compute_ready_queue.put blocks while the queue is full.                *)
QueuePut ==
  /\ holding # <<>> /\ Len(queue) < QueueSize
  /\ queue' = Append(queue, holding[1])
  /\ holding' = <<>>

Put ==
  /\ QueuePut
  /\ UNCHANGED <<allocated, receives>> /\ UNCHANGED <<env, output, main, device>>

-------------------------------------------------------------------------------
(* The RDMA thread                                                         *)

(* _rdma_push_loop: a block is freed when its data was pushed, and only    *)
(* then.                                                                   *)
RdmaPush(r) ==
  /\ push[r] = "queued"
  /\ \/ /\ push' = [push EXCEPT ![r] = "pushed"]
        /\ allocated' = allocated \ {staged[r]}
        /\ staged' = [staged EXCEPT ![r] = NoSlot]
     \/ /\ push' = [push EXCEPT ![r] = "failed"]
        /\ UNCHANGED <<allocated, staged>>
  /\ UNCHANGED <<receives, holding, queue, leaked>>
  /\ UNCHANGED <<env, main, device>>

-------------------------------------------------------------------------------
(* The main thread                                                         *)

Idle == step = "idle" /\ queue # <<>>

(* _handle_transfer_alloc: no block, no answer.                            *)
HandleAlloc ==
  LET r == Head(queue).id IN
  /\ Idle /\ Head(queue).type = "ALLOC"
  /\ queue' = Tail(queue)
  /\ errors' = 0
  /\ \/ \E s \in PoolSlots \ allocated :
          /\ allocated' = allocated \cup {s}
          /\ receives' = [receives EXCEPT ![r] = s]
          /\ target' = [target EXCEPT ![r] = s]
          /\ status' = [status EXCEPT ![r] = "offered"]
     \/ /\ PoolSlots \subseteq allocated
        /\ UNCHANGED <<allocated, receives, target, status>>
  /\ UNCHANGED <<freePre, inbox, mem, holding, running, step, stage>>
  /\ UNCHANGED <<output, device>>

ReceiveSlotKept(r) == allocated

(* A preallocated slot stays allocated, another one is freed.              *)
PoolAfterRelease(r) == allocated \ ({receives[r]} \cap PoolSlots)

(* _disagg_prefetch_event_loop on a loaded request: wait_event and release *)
(* of the receive slot                                                     *)
TakeLoaded(r) ==
  /\ Idle /\ Head(queue) = [type |-> "READY", id |-> r]
  /\ queue' = Tail(queue)
  /\ allocated' = PoolAfterRelease(r)
  /\ receives' = [receives EXCEPT ![r] = NoSlot]

(* The model's kernels are queued by execute_forward.                      *)
StartCompute(r) ==
  /\ TakeLoaded(r)
  /\ kernels' = Append(kernels, r)
  /\ running' = r /\ step' = "forward"
  /\ UNCHANGED <<holding, stage, errors, copies, tensors, inputs>>
  /\ UNCHANGED <<env, output>>

(* An exception: no message; after MaxErrors in a row the loop ends.       *)
CountError ==
  /\ errors' = errors + 1
  /\ step' = IF EndsLoop(errors') THEN "ended" ELSE "idle"

(* The timesteps of the request cannot be set: no kernel is queued.        *)
SetupRaises(r) ==
  /\ TakeLoaded(r)
  /\ CountError
  /\ UNCHANGED <<holding, running, stage>>
  /\ UNCHANGED <<env, output, device>>

(* The server hears the outcome; it recycles a preallocated slot either    *)
(* way.                                                                    *)
Report(r, outcome) ==
  /\ status' = [status EXCEPT ![r] = outcome]
  /\ freePre' = IF IsPre(r) THEN freePre \cup {target[r]} ELSE freePre

(* stage_tensors_async of the output, on the transfer stream               *)
StartStaging ==
  /\ step = "forward"
  /\ \E s \in PoolSlots \ allocated :
       /\ allocated' = allocated \cup {s}
       /\ stage' = s /\ staged' = [staged EXCEPT ![running] = s]
       /\ copies' = Append(copies, [op |-> "stage", id |-> running, slot |-> s])
  /\ step' = "staging"
  /\ UNCHANGED <<receives, holding, queue, running, errors, kernels, tensors, inputs>>
  /\ UNCHANGED <<push, leaked>> /\ UNCHANGED env

(* stage_event.synchronize()                                               *)
StagingDone == \A k \in DOMAIN copies : copies[k].op # "stage" \/ copies[k].id # running

(* DONE is sent; the output stays in its block until it is pushed.         *)
FinishStaging ==
  /\ step = "staging" /\ StagingDone
  /\ Report(running, "done")
  /\ step' = "idle" /\ running' = NoReq /\ stage' = NoSlot /\ errors' = 0
  /\ UNCHANGED <<target, inbox, mem, allocated, receives, holding, queue>>
  /\ UNCHANGED <<output, device>>

(* The model returned an error, or no block was left for its output: DONE  *)
(* with an error, and nobody waits for the streams.                        *)
ReportError ==
  /\ step = "forward"
  /\ Report(running, "failed")
  /\ step' = "idle" /\ running' = NoReq /\ errors' = 0
  /\ UNCHANGED <<target, inbox, mem, allocated, receives, holding, queue, stage>>
  /\ UNCHANGED <<output, device>>

(* The model or the staging of its output raised.  The block of a staging  *)
(* that raised is never freed: nobody reads what was copied into it.       *)
Raise ==
  /\ step = "forward"
  /\ CountError
  /\ running' = NoReq
  /\ \/ UNCHANGED <<allocated, leaked>>
     \/ \E s \in PoolSlots \ allocated :
          /\ allocated' = allocated \cup {s}
          /\ leaked' = [leaked EXCEPT ![running] = s]
  /\ UNCHANGED <<receives, holding, queue, staged, push, stage>>
  /\ UNCHANGED <<env, device>>

-------------------------------------------------------------------------------
(* The device                                                              *)

(* The next copy of the transfer stream.  A staging waits for the compute  *)
(* stream (wait_stream).                                                   *)
Copy ==
  LET c == Head(copies) IN
  /\ copies # <<>>
  /\ copies' = Tail(copies)
  /\ \/ /\ c.op = "load"
        /\ tensors' = [tensors EXCEPT ![c.id] = mem[c.slot]]
        /\ UNCHANGED mem
     \/ /\ c.op = "stage" /\ \A k \in DOMAIN kernels : kernels[k] # c.id
        /\ mem' = [mem EXCEPT ![c.slot] = NoReq]
        /\ UNCHANGED tensors
  /\ UNCHANGED <<status, target, freePre, inbox, allocated, receives, holding,
                 queue, kernels, inputs>>
  /\ UNCHANGED <<output, main>>

LoadDone(r) == \A k \in DOMAIN copies : copies[k].op # "load" \/ copies[k].id # r

LoadNotAwaited(r) == TRUE

(* The wait_event in front of the kernels of r                             *)
LoadEventSeen(r) == LoadDone(r)

Compute ==
  LET r == Head(kernels) IN
  /\ kernels # <<>> /\ LoadEventSeen(r)
  /\ kernels' = Tail(kernels)
  /\ inputs' = [inputs EXCEPT ![r] = tensors[r]]
  /\ UNCHANGED <<allocated, receives, holding, queue, copies, tensors>>
  /\ UNCHANGED <<env, output, main>>

-------------------------------------------------------------------------------

HostNext ==
  \/ Recv \/ PrefetchRaises \/ Put \/ HandleAlloc
  \/ \E r \in Requests : StartCompute(r) \/ SetupRaises(r) \/ RecvPush(r) \/ RdmaPush(r)
  \/ StartStaging \/ FinishStaging \/ ReportError \/ Raise

ThreadsNext ==
  \/ \E r \in Requests : OfferPrealloc(r) \/ AskForSlot(r) \/ PushArrives(r)
  \/ HostNext \/ Copy \/ Compute

ThreadsSpec == ThreadsInit /\ [][ThreadsNext]_threadVars
-------------------------------------------------------------------------------

ThreadsTypeOK ==
  /\ status \in [Requests -> {"new", "asked", "offered", "sent", "done", "failed"}]
  /\ target \in [Requests -> Slots \cup {NoSlot}]
  /\ freePre \subseteq PreSlots
  /\ mem \in [Slots -> Requests \cup {NoReq}]
  /\ allocated \subseteq Slots /\ PreSlots \subseteq allocated
  /\ receives \in [Requests -> Slots \cup {NoSlot}]
  /\ staged \in [Requests -> PoolSlots \cup {NoSlot}]
  /\ push \in [Requests -> {"none", "queued", "pushed", "failed"}]
  /\ leaked \in [Requests -> PoolSlots \cup {NoSlot}]
  /\ Len(holding) <= 1 /\ Len(queue) <= QueueSize
  /\ step \in {"idle", "forward", "staging", "ended"}
  /\ errors \in 0 .. MaxErrors
  /\ tensors \in [Requests -> Requests \cup {NoReq}]
  /\ inputs \in [Requests -> Requests \cup {NoReq}]

(* A request that is reported as done was computed on its own data.  The   *)
(* receive slot is released, and may be overwritten by the next push or by *)
(* a staging, while the load out of it is still waiting on the transfer    *)
(* stream; the order of the streams and the synchronisation before DONE    *)
(* must still keep every load of a successful request ahead of the         *)
(* overwriting.                                                            *)
ComputedOnOwnData == \A r \in Requests : status[r] = "done" => inputs[r] = r

(* The blocks of the pool that were taken for r and not given back         *)
Held(r) == {receives[r], staged[r], leaked[r]} \cap PoolSlots

(* Every block that is taken is held by one request, and no request holds  *)
(* two; a request that was answered with an error, or whose output was     *)
(* pushed, holds none.  So a block is missing from the pool only while its *)
(* request is under way, or for good as the price of one exception or one  *)
(* failed push, and a preallocated slot that the server cannot offer again *)
(* belongs to a request that was not answered.                             *)
BlocksAccountedFor ==
  /\ allocated = PreSlots \cup UNION {Held(r) : r \in Requests}
  /\ \A r, q \in Requests : \A s \in Held(r), t \in Held(q) : (r = q) = (s = t)
  /\ \A r \in Requests : Held(r) # {} =>
       \/ status[r] \in {"offered", "sent"}
       \/ status[r] = "done" /\ push[r] # "pushed"
  /\ \A s \in PreSlots \ freePre :
       \E r \in Requests : status[r] \in {"offered", "sent"} /\ target[r] = s
===============================================================================
