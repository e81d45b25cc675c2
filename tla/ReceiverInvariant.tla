--------------------------- MODULE ReceiverInvariant --------------------------
(***************************************************************************)
(* Why a request is computed on its own data (ComputedOnOwnData): the      *)
(* inductive invariant.                                                    *)
(*                                                                         *)
(* A request uses its slot from the offer to the end of its computation,   *)
(* longer than the slot stays allocated: a block of the pool is freed when *)
(* the computation starts.  What protects its data after that is not the   *)
(* allocator but the streams: until the computation ends no other request  *)
(* is given a block, and the running request's own staging follows its     *)
(* load.                                                                   *)
(***************************************************************************)
EXTENDS ReceiverThreads

In(s, x)    == \E i \in DOMAIN s : s[i] = x
Distinct(s) == \A i, j \in DOMAIN s : s[i] = s[j] => i = j

Alloc(r) == [type |-> "ALLOC", id |-> r]
Ready(r) == [type |-> "READY", id |-> r]
Message  == [type : {"ALLOC", "READY"}, id : Requests]
CopyOp   == [op : {"load", "stage"}, id : Requests, slot : Slots]

Statuses == {"new", "asked", "offered", "sent", "done", "failed"}

InInbox(r) == In(inbox, Ready(r))
Queued(r)  == In(holding, Ready(r)) \/ In(queue, Ready(r))
Runs(r)    == step \in {"forward", "staging"} /\ running = r

Arrived(r) == InInbox(r) \/ Queued(r) \/ Runs(r)
Uses(r)    == status[r] = "offered" \/ Arrived(r)

Types ==
  /\ status \in [Requests -> Statuses]
  /\ target \in [Requests -> Slots \cup {NoSlot}]
  /\ mem \in [Slots -> Requests \cup {NoReq}]
  /\ receives \in [Requests -> Slots \cup {NoSlot}]
  /\ staged \in [Requests -> PoolSlots \cup {NoSlot}]
  /\ push \in [Requests -> {"none", "queued", "pushed", "failed"}]
  /\ inbox \in Seq(Message) /\ queue \in Seq(Message)
  /\ holding = <<>> \/ \E m \in Message : holding = <<m>>
  /\ step \in {"idle", "forward", "staging", "ended"}
  /\ step \in {"forward", "staging"} => running \in Requests
  /\ copies \in Seq(CopyOp) /\ kernels \in Seq(Requests)
  /\ tensors \in [Requests -> Requests \cup {NoReq}]
  /\ inputs \in [Requests -> Requests \cup {NoReq}]

(* A message is in one place only, and its request has the status that the *)
(* message tells.                                                          *)
OnePlace ==
  /\ Distinct(inbox) /\ Distinct(queue)
  /\ \A m \in Message :
       /\ ~(In(inbox, m) /\ In(holding, m))
       /\ ~(In(inbox, m) /\ In(queue, m))
       /\ ~(In(holding, m) /\ In(queue, m))
  /\ \A r \in Requests :
       /\ Runs(r) => ~InInbox(r) /\ ~Queued(r)
       /\ Arrived(r) => status[r] = "sent"
       /\ In(inbox, Alloc(r)) \/ In(holding, Alloc(r)) \/ In(queue, Alloc(r)) =>
            status[r] = "asked"

(* Slots in use: no two requests share one, the server does not offer it,  *)
(* and until the computation starts it is allocated.                       *)
SlotsHeld ==
  /\ \A r \in Requests : Uses(r) => target[r] \in Slots \ freePre
  /\ \A r, q \in Requests : Uses(r) /\ Uses(q) /\ r # q => target[r] # target[q]
  /\ \A r \in Requests : Uses(r) /\ ~Runs(r) /\ target[r] \in PoolSlots =>
                           target[r] \in allocated
  /\ \A r \in Requests : Queued(r) => receives[r] = target[r]
  /\ \A r \in Requests : Uses(r) /\ ~Runs(r) /\ target[r] \notin PreSlots =>
                           receives[r] = target[r]
  /\ freePre \subseteq PreSlots

(* A block with an output that was not pushed yet is allocated, holds that *)
(* output alone, and no request waits for its data to be loaded from it.   *)
OutputsApart ==
  /\ \A r \in Requests : staged[r] # NoSlot => staged[r] \in allocated
  /\ \A r, q \in Requests : staged[r] # NoSlot /\ staged[r] = staged[q] => r = q
  /\ \A r, q \in Requests : staged[r] # NoSlot /\ Uses(q) /\ ~Runs(q) =>
                              target[q] # staged[r]
  /\ \A r \in Requests : push[r] # "none" => status[r] = "done"

(* What was sent to a slot is there until it is loaded.                    *)
DataKept ==
  \A r \in Requests :
    Arrived(r) => IF InInbox(r) \/ ~LoadDone(r) THEN mem[target[r]] = r
                                                ELSE tensors[r] = r

(* The streams                                                             *)
StreamsOrdered ==
  /\ \A k \in DOMAIN copies : copies[k].op = "load" =>
       /\ status[copies[k].id] \in {"sent", "done", "failed"}
       /\ copies[k].slot = target[copies[k].id]
  /\ \A k \in DOMAIN copies : copies[k].op = "stage" =>
       /\ step = "staging" /\ copies[k].id = running /\ copies[k].slot = stage
       /\ \A j \in DOMAIN copies : j > k /\ copies[j].op = "load" => copies[j].id # running
  /\ step = "staging" =>
       /\ stage \in PoolSlots
       /\ \A r \in Requests : Uses(r) /\ r # running => target[r] # stage

(* The model of a running request has not run, or it ran on its data; it   *)
(* has run once its output is staged.                                      *)
ComputedOnce ==
  /\ \A r \in Requests : Runs(r) => In(kernels, r) \/ inputs[r] = r
  /\ step = "staging" /\ StagingDone => ~In(kernels, running)
  /\ \A r \in Requests : In(kernels, r) => status[r] \in {"sent", "failed"}

OwnDataInv ==
  /\ Types /\ OnePlace /\ SlotsHeld /\ OutputsApart /\ DataKept /\ StreamsOrdered /\ ComputedOnce
  /\ ComputedOnOwnData
-------------------------------------------------------------------------------
(* Why every block is accounted for (BlocksAccountedFor)                   *)

InFlight(r) == status[r] \in {"offered", "sent"}

(* A request an exception was raised for is never answered.                *)
Lost(r) == status[r] = "sent" /\ ~Arrived(r)

(* The blocks that are taken are those that are held, each by one request. *)
BlocksHeld ==
  /\ PreSlots \subseteq allocated /\ allocated \subseteq Slots
  /\ \A s \in allocated \ PreSlots : \E r \in Requests : s \in Held(r)
  /\ \A r \in Requests : Held(r) \subseteq allocated
  /\ \A r, q \in Requests : r # q => Held(r) \cap Held(q) = {}

(* Which of its three blocks a request holds follows from how far it has   *)
(* come: its receive slot until its computation starts, the block of its   *)
(* output from the staging to the push, or the one left behind when the    *)
(* staging raised.                                                         *)
PoolInv ==
  /\ BlocksHeld
  /\ leaked \in [Requests -> PoolSlots \cup {NoSlot}]
  /\ \A r \in Requests :
       receives[r] # NoSlot => InFlight(r) /\ ~Runs(r) /\ receives[r] = target[r]
  /\ \A r \in Requests :
       staged[r] # NoSlot => \/ status[r] = "done" /\ push[r] # "pushed"
                             \/ step = "staging" /\ running = r
  /\ \A r \in Requests : leaked[r] # NoSlot => Lost(r) /\ receives[r] = NoSlot
  /\ \A s \in PreSlots \ freePre : \E r \in Requests : InFlight(r) /\ target[r] = s
===============================================================================
