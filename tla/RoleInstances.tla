----------------------------- MODULE RoleInstances -----------------------------
(***************************************************************************)
(* The encoder, denoiser and decoder instances: rank 0 of each, from       *)
(* disaggregation/scheduler_mixin.py, with its transfer pool from          *)
(* transport/manager.py.                                                   *)
(*                                                                         *)
(* An instance has up to three threads.  The main thread runs the model    *)
(* and allocates receive slots; a receiver's recv thread loads arrived     *)
(* data and queues it for the main thread; a sender's RDMA thread pushes   *)
(* staged data into the pool of the next stage's instance.  Each action is *)
(* what one thread does with one message.                                  *)
(***************************************************************************)
EXTENDS DisaggProtocol

CONSTANT Faults  \* which of AllFaults can happen

(* The model returns an error; the transfer engine returns non-zero; a     *)
(* handler raises, which its loop logs before it goes on.                  *)
AllFaults == {"compute", "rdma", "exception"}

ASSUME FaultsAssumption == Faults \subseteq AllFaults

VARIABLES
  allocated,  \* per role and instance: slots taken from the pool
  staged,     \* _staged: per role, instance and request: slot or None
  receives,   \* _pending_receives: per role, instance and request
  mem         \* what every slot of every pool holds

roleVars == <<allocated, staged, receives, mem>>

AllAddr == UNION {{At(q, i, s) : i \in Inst(q), s \in Slots} : q \in Roles}

(* Every instance has preallocated its receive slots and registered.       *)
RolesInit ==
  /\ allocated = [q \in Roles |-> [i \in Inst(q) |->
                    IF q = "encoder" THEN {} ELSE Prealloc]]
  /\ staged = [q \in Roles |-> [i \in Inst(q) |-> [r \in Requests |-> None]]]
  /\ receives = [q \in Roles |-> [i \in Inst(q) |-> [r \in Requests |-> None]]]
  /\ mem = [a \in AllAddr |-> None]
  /\ net = UNION {{REGISTER(q, i) : i \in Inst(q)} : q \in Roles}

-------------------------------------------------------------------------------

SetPool(q, i, S)     == allocated' = [allocated EXCEPT ![q][i] = S]
SetStaged(q, i, r, s) == staged' = [staged EXCEPT ![q][i][r] = s]
SetReceive(q, i, r, s) == receives' = [receives EXCEPT ![q][i][r] = s]

Reply1(m, answer) == net' = (net \ {m}) \cup {answer}

(* _disagg_encoder_step and _disagg_encoder_transfer_stage                 *)
EncoderStep(m) ==
  LET i == m.inst
      r == m.id
      pool == allocated["encoder"][i]
  IN
  /\ m \in net /\ m.type = "REQUEST"
  /\ UNCHANGED receives
  /\ \/ \E s \in Slots \ pool, size \in DataSizes :
          /\ SetPool("encoder", i, pool \cup {s})
          /\ SetStaged("encoder", i, r, s)
          /\ mem' = [mem EXCEPT ![At("encoder", i, s)] = Output(r, "encoder")]
          /\ Reply1(m, STAGED(i, r, size))
     \/ /\ "compute" \in Faults \/ Slots \subseteq pool
        /\ Reply1(m, ERROR(i, r))
        /\ UNCHANGED <<allocated, staged, mem>>

(* _rdma_push_loop with push_to_peer and free_staged: the answer is sent   *)
(* whether or not the push succeeded.                                      *)
RdmaPush(m) ==
  LET q == m.role
      i == m.inst
      s == staged[q][i][m.id]
  IN
  /\ m \in net /\ m.type = "PUSH"
  /\ Reply1(m, PUSHED(q, i, m.id))
  /\ UNCHANGED receives
  /\ \/ /\ s # None
        /\ mem' = [mem EXCEPT ![m.addr] = mem[At(q, i, s)]]
        /\ SetPool(q, i, allocated[q][i] \ {s})
        /\ SetStaged(q, i, m.id, None)
     \/ /\ s = None \/ "rdma" \in Faults
        /\ UNCHANGED <<allocated, staged, mem>>

(* _handle_transfer_alloc: no slot, no answer.                             *)
HandleAlloc(m) ==
  LET q == m.role
      i == m.inst
      pool == allocated[q][i]
  IN
  /\ m \in net /\ m.type = "ALLOC"
  /\ UNCHANGED <<staged, mem>>
  /\ \/ \E s \in Slots \ pool :
          /\ SetPool(q, i, pool \cup {s})
          /\ SetReceive(q, i, m.id, s)
          /\ Reply1(m, ALLOCATED(q, i, m.id, At(q, i, s)))
     \/ /\ Slots \subseteq pool
        /\ net' = net \ {m}
        /\ UNCHANGED <<allocated, receives>>

(* _recv_prefetch_loop on a READY: _prefetch_transfer_ready loads the data *)
(* of the slot, which is the preallocated one or the one that was          *)
(* allocated for the request.                                              *)
Prefetch(m) ==
  LET q == m.role
      i == m.inst
      s == IF m.pre # None THEN m.pre ELSE receives[q][i][m.id]
  IN
  /\ m \in net /\ m.type = "READY"
  /\ SetReceive(q, i, m.id, s)
  /\ IF s = None THEN net' = net \ {m}
     ELSE Reply1(m, COMPUTE(q, i, m.id, m.pre, mem[At(q, i, s)]))
  /\ UNCHANGED <<allocated, staged, mem>>

ReceiveSlotKept(m) == allocated[m.role][m.inst]

(* The main thread takes an item from _compute_ready_queue; the receive    *)
(* slot is released before the model runs.  A preallocated slot stays      *)
(* allocated: the server recycles it.                                      *)
ReleasedPool(m) ==
  IF m.pre # None THEN allocated[m.role][m.inst]
  ELSE allocated[m.role][m.inst] \ {receives[m.role][m.inst][m.id]}

(* A stage turns its own input into its own output, anything else into     *)
(* garbage.                                                                *)
Run(m) ==
  IF m.data = Output(m.id, Upstream(m.role)) THEN Output(m.id, m.role) ELSE None

(* _disagg_prefetch_event_loop and _disagg_denoiser_compute                *)
DenoiserCompute(m) ==
  LET i == m.inst
      r == m.id
      pool == ReleasedPool(m)
  IN
  /\ m \in net /\ m.type = "COMPUTE" /\ m.role = "denoiser"
  /\ SetReceive("denoiser", i, r, None)
  /\ \/ \E s \in Slots \ pool, size \in DataSizes :
          /\ SetPool("denoiser", i, pool \cup {s})
          /\ SetStaged("denoiser", i, r, s)
          /\ mem' = [mem EXCEPT ![At("denoiser", i, s)] = Run(m)]
          /\ Reply1(m, DONE(i, r, FALSE, size))
     \/ /\ "compute" \in Faults \/ Slots \subseteq pool
        /\ SetPool("denoiser", i, pool)
        /\ Reply1(m, DONE(i, r, TRUE, 0))
        /\ UNCHANGED <<staged, mem>>

(* _disagg_prefetch_event_loop and _disagg_decoder_compute                 *)
DecoderCompute(m) ==
  /\ m \in net /\ m.type = "COMPUTE" /\ m.role = "decoder"
  /\ SetReceive("decoder", m.inst, m.id, None)
  /\ SetPool("decoder", m.inst, ReleasedPool(m))
  /\ \/ Reply1(m, OUTPUT(m.inst, m.id, FALSE, Run(m)))
     \/ "compute" \in Faults /\ Reply1(m, OUTPUT(m.inst, m.id, TRUE, None))
  /\ UNCHANGED <<staged, mem>>

(* A handler raises: the loop logs it and takes the next message; nothing  *)
(* is sent.  What it had done stays done: the receive slot of a COMPUTE is *)
(* released, a preallocated slot may be registered for the request, and    *)
(* the block taken for an output whose copy raised is never freed.         *)
HandlerRaises(m) ==
  LET q == m.role
      i == m.inst
      pool == IF m.type = "COMPUTE" THEN ReleasedPool(m) ELSE allocated[q][i]
  IN
  /\ "exception" \in Faults
  /\ m \in net /\ m.type \in {"REQUEST", "PUSH", "ALLOC", "READY", "COMPUTE"}
  /\ net' = net \ {m}
  /\ \/ SetPool(q, i, pool)
     \/ /\ m.type \in {"REQUEST", "COMPUTE"} /\ q # "decoder"
        /\ \E s \in Slots \ pool : SetPool(q, i, pool \cup {s})
  /\ \/ m.type = "COMPUTE" /\ SetReceive(q, i, m.id, None)
     \/ m.type # "COMPUTE" /\ UNCHANGED receives
     \/ m.type = "READY" /\ m.pre # None /\ SetReceive(q, i, m.id, m.pre)
  /\ UNCHANGED <<staged, mem>>

RolesNext ==
  \E m \in net :
    \/ EncoderStep(m) \/ RdmaPush(m) \/ HandleAlloc(m) \/ Prefetch(m)
    \/ DenoiserCompute(m) \/ DecoderCompute(m) \/ HandlerRaises(m)
===============================================================================
