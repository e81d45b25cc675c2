---------------------------- MODULE DisaggOwnership ----------------------------
(***************************************************************************)
(* Who owns a block of a transfer pool: the invariant that keeps two       *)
(* transfers out of each other's blocks, and, as long as no RDMA push      *)
(* fails, the data of a request in its own.  Both are inductive together   *)
(* with SlotInvariant when request ids are unique.                         *)
(***************************************************************************)
EXTENDS DisaggInvariant

(* The blocks an instance preallocated, which it never frees.              *)
Fixed(q) == IF q = "encoder" THEN {} ELSE Prealloc

(* Everything a role keeps has the shape of its field ...                  *)
RolesTypeOK ==
  /\ DOMAIN allocated = Roles /\ DOMAIN staged = Roles /\ DOMAIN receives = Roles
  /\ \A q \in Roles :
       /\ allocated[q] \in [Inst(q) -> SUBSET Slots]
       /\ staged[q] \in [Inst(q) -> [Requests -> Slots \cup {None}]]
       /\ receives[q] \in [Inst(q) -> [Requests -> Slots \cup {None}]]
  /\ DOMAIN mem = AllAddr

(* ... and every message is to or from an instance that exists.            *)
InstancesExist ==
  \A m \in net : /\ m.inst \in Inst(m.role)
                 /\ m.type = "REGISTER" => m = REGISTER(m.role, m.inst)

(* In a pool with the blocks A allocated, F of them for good, no two       *)
(* requests stage into (S) or receive in (R) the same block, except that   *)
(* one of F may be left registered for a request whose handler raised; the *)
(* server accounts for these.                                              *)
Apart(F, A, S, R) ==
  /\ F \subseteq A
  /\ \A r \in Requests : S[r] # None => S[r] \in A \ F
  /\ \A r \in Requests : R[r] # None => R[r] \in A
  /\ \A r, x \in Requests : S[r] # None => S[r] # R[x]
  /\ \A r, x \in Requests : S[r] # None /\ S[r] = S[x] => r = x
  /\ \A r, x \in Requests : R[r] \notin F \cup {None} /\ R[r] = R[x] => r = x

PoolsApart ==
  \A q \in Roles : \A i \in Inst(q) :
    Apart(Fixed(q), allocated[q][i], staged[q][i], receives[q][i])

(* The transfer of r has a preallocated block.                             *)
Claims(r) == transfer[r] # None /\ transfer[r].pre # None

(* A claimed block is one the receiver registered ...                      *)
ClaimOK(r) ==
  LET t == transfer[r] IN
  /\ t.addr \in Addr /\ t.addr.role \in Receivers /\ t.addr.inst \in Inst(t.addr.role)
  /\ t.addr.inst = t.receiver /\ t.addr.slot = t.pre /\ t.pre \in Prealloc
  /\ t.size <= PreallocSize
  /\ REGISTER(t.addr.role, t.addr.inst) \notin net

(* ... and so is a free one, which no transfer has claimed.                *)
ListOK(q, i) ==
  LET list == peers[q][i] IN
  /\ REGISTER(q, i) \in net => list = <<>>
  /\ \A k \in 1 .. Len(list) :
       /\ list[k].slot \in Prealloc /\ list[k].size <= PreallocSize
       /\ list[k].addr = At(q, i, list[k].slot)
       /\ \A r \in Requests : Claims(r) => transfer[r].addr # list[k].addr
  /\ \A k, l \in 1 .. Len(list) : list[k].slot = list[l].slot => k = l

ClaimsApart ==
  /\ \A r \in Requests : Claims(r) => ClaimOK(r)
  /\ \A r, x \in Requests :
       Claims(r) /\ Claims(x) /\ transfer[r].addr = transfer[x].addr => r = x
  /\ \A q \in Receivers : \A i \in Inst(q) : ListOK(q, i)

-------------------------------------------------------------------------------
(* Where the one token of a request says that its data is.                 *)

WorksAt(r, q, i) == Tracked(tracker, r) => tracker[r].instance[q] = i

(* Its output for role q waits in the pool of the sender.                  *)
Waits(r, q) ==
  /\ transfer[r].pre = None /\ transfer[r].sender \in Inst(Upstream(q))
  /\ Tracked(tracker, r) =>
       /\ tracker[r].instance[Upstream(q)] = transfer[r].sender
       /\ staged[Upstream(q)][transfer[r].sender][r] # None

(* It goes to, or is in, a block of instance i of role q that is its own.  *)
Lands(r, q, i) ==
  LET t == transfer[r] IN
  /\ t # None /\ t.receiver = i
  /\ t.addr \in Addr /\ t.addr.role = q /\ t.addr.inst = i
  /\ t.pre = None => t.addr.slot \notin Prealloc
  /\ t.addr.slot = IF t.pre # None THEN t.pre ELSE receives[q][i][r]

(* What each kind of message says of the places of its request r.          *)

HasStaged(m) == staged[m.role][m.inst][m.id] # None

AllocOK(m) ==
  /\ m.role \in Receivers
  /\ transfer[m.id] # None => transfer[m.id].receiver = m.inst /\ Waits(m.id, m.role)

AllocatedOK(m) ==
  LET s == receives[m.role][m.inst][m.id] IN
  AllocOK(m) /\ s \in Slots \ Prealloc /\ m.addr = At(m.role, m.inst, s)

PushOK(m) ==
  LET a == m.addr IN
  /\ a \in Addr /\ a.role \in Receivers /\ a.inst \in Inst(a.role)
  /\ Lands(m.id, a.role, a.inst)
  /\ transfer[m.id].addr = a /\ transfer[m.id].size = m.size
  /\ WorksAt(m.id, a.role, a.inst)
  /\ Tracked(tracker, m.id) => m.role = Upstream(a.role) /\ HasStaged(m)

PushedOK(m) ==
  Tracked(tracker, m.id) =>
    \E q \in Receivers : \E i \in Inst(q) :
      m.role = Upstream(q) /\ WorksAt(m.id, q, i) /\ Lands(m.id, q, i)

ReadyOK(m) ==
  /\ m.role \in Receivers /\ Lands(m.id, m.role, m.inst)
  /\ m.pre = transfer[m.id].pre

ComputeOK(m) ==
  LET t == transfer[m.id] IN
  /\ m.role \in Receivers /\ t # None /\ m.pre = t.pre /\ t.addr.role = m.role
  /\ m.pre = None => receives[m.role][m.inst][m.id] \in Slots \ Prealloc

DoneOK(m) ==
  /\ m.role = "denoiser" /\ (~m.error => HasStaged(m))
  /\ Claims(m.id) => transfer[m.id].addr.role = "denoiser"

TokenOK(m) ==
  /\ m.type \in {"REQUEST", "STAGED", "ALLOC", "ALLOCATED", "PUSH", "PUSHED",
                 "READY", "COMPUTE", "DONE"} => WorksAt(m.id, m.role, m.inst)
  /\ m.type \in {"REQUEST", "STAGED"} => m.role = "encoder"
  /\ m.type = "STAGED" => HasStaged(m)
  /\ m.type = "ALLOC" => AllocOK(m)
  /\ m.type = "ALLOCATED" => AllocatedOK(m)
  /\ m.type = "PUSH" => PushOK(m)
  /\ m.type = "PUSHED" => PushedOK(m)
  /\ m.type = "READY" => ReadyOK(m)
  /\ m.type = "COMPUTE" => ComputeOK(m)
  /\ m.type = "DONE" => DoneOK(m)

TokensOK ==
  /\ \A m \in Tokens(net) : TokenOK(m)
  /\ \A q \in Receivers : \A r \in Requests : InQueue(r, q) => Waits(r, q)

(* A handler never frees or writes a block of another request, also for a  *)
(* request that has timed out: what it finds under the request's id, and   *)
(* what the message or the transfer state names, is that request's own.    *)
OwnershipInvariant ==
  RolesTypeOK /\ InstancesExist /\ PoolsApart /\ ClaimsApart /\ TokensOK

-------------------------------------------------------------------------------

(* What a message says of the data of its request.                         *)
CarriesOwnData(m) ==
  LET r == m.id IN
  /\ m.type = "PUSHED" /\ Tracked(tracker, r) => mem[transfer[r].addr] = Output(r, m.role)
  /\ m.type = "READY" => mem[transfer[r].addr] = Output(r, Upstream(m.role))
  /\ m.type = "COMPUTE" => m.data = Output(r, Upstream(m.role))
  /\ m.type = "OUTPUT" /\ ~m.error => m.data = Output(r, "decoder")

(* The data of a request is in the blocks that it owns, from the encoder's *)
(* output to the reply.                                                    *)
DataInvariant ==
  /\ \A q \in Roles : \A i \in Inst(q) : \A r \in Requests :
       staged[q][i][r] # None => mem[At(q, i, staged[q][i][r])] = Output(r, q)
  /\ \A m \in Tokens(net) : CarriesOwnData(m)
  /\ RepliesAreOwn
===============================================================================
