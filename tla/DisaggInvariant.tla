---------------------------- MODULE DisaggInvariant ----------------------------
(***************************************************************************)
(* Types, and the invariant that makes the slot counters of the server     *)
(* correct: it is inductive when request ids are unique.                   *)
(***************************************************************************)
EXTENDS DisaggSystem

(* An instance in a record of role q exists.                               *)
RecordOK(rec) ==
  /\ rec \in Record(Nat)
  /\ \A q \in Roles : rec.instance[q] \in Inst(q) \cup {None}

(* Everything the server keeps has the shape of its field in __init__.     *)
ServerTypeOK ==
  /\ DOMAIN tracker = Requests
  /\ \A r \in Requests : tracker[r] = None \/ RecordOK(tracker[r])
  /\ pending \in [Requests -> Clients \cup {None}]
  /\ DOMAIN free = Roles /\ \A q \in Roles : free[q] \in [Inst(q) -> Int]
  /\ tta \in [Roles -> SUBSET [id : Requests, ahead : SUBSET Requests]]
  /\ cursor \in [Roles -> Int] /\ \A q \in Roles : cursor[q] \in Inst(q)
  /\ transfer \in [Requests -> TransferState \cup {None}]
  /\ DOMAIN peers = Roles
  /\ \A q \in Roles : peers[q] \in [Inst(q) -> Seq(PreallocEntry)]
  /\ todo \subseteq Sockets /\ running \in BOOLEAN
  /\ now \in Nat /\ horizon \in Nat
  /\ inbox \in [Clients -> {"idle", "sent", "taken"}]
  /\ DOMAIN replies = Clients

(* The fields of a message that the server copies into its state.          *)
MessageOK(m) ==
  /\ m.role \in Roles
  /\ m.type \in {"REGISTER", "ALLOC"} => m.inst \in Inst(m.role)
  /\ m.type \in {"STAGED", "DONE"} => m.size \in Nat
  /\ m.type = "ALLOCATED" => m.addr \in Addr

MessagesOK == \A m \in net : MessageOK(m)

-------------------------------------------------------------------------------
(* A request has at most one token: its place in a queue of the server, or *)
(* the one message about it.                                               *)

Tokens(N) == {m \in N : m.type # "REGISTER"}

InQueue(r, q) == \E e \in tta[q] : e.id = r

OneToken ==
  /\ \A m \in Tokens(net) : m.id \in Requests
  /\ \A m, n \in Tokens(net) : m.id = n.id => m = n
  /\ \A m \in Tokens(net) : \A q \in Roles : ~InQueue(m.id, q)
  /\ \A r \in Requests : \A p, q \in Roles :
       InQueue(r, p) /\ InQueue(r, q) => p = q

(* A request not yet read from the frontend is unknown to the server.      *)
FreshRequests ==
  \A c \in Clients : inbox[c] # "taken" /\ IdOf[c] # None =>
    /\ ~Tracked(tracker, IdOf[c])
    /\ \A q \in Roles : ~InQueue(IdOf[c], q)
    /\ \A m \in Tokens(net) : m.id # IdOf[c]

(* The state a tracked request is in while message m is about it ...       *)
StateOf(m) ==
  IF m.type \in {"REQUEST", "STAGED", "ERROR"} THEN "ENCODER_RUNNING"
  ELSE IF \/ m.type = "DONE"
          \/ m.type \in {"PUSH", "PUSHED"} /\ m.role = "encoder"
          \/ m.type \in {"ALLOC", "ALLOCATED", "READY", "COMPUTE"} /\ m.role = "denoiser"
  THEN "DENOISING_RUNNING" ELSE "DECODER_RUNNING"

(* ... and while it is in the queue of role q.                             *)
WaitingFor(q) == IF q = "encoder" THEN "ENCODER_WAITING"
                 ELSE IF q = "denoiser" THEN "DENOISING_WAITING"
                 ELSE "DECODER_WAITING"

TokenState ==
  /\ \A m \in Tokens(net) : Tracked(tracker, m.id) =>
       tracker[m.id].state = StateOf(m)
  /\ \A r \in Requests : \A q \in Roles : InQueue(r, q) /\ Tracked(tracker, r) =>
       tracker[r].state = WaitingFor(q)

(* Past its encoder a request has a transfer state: _handle_transfer_done  *)
(* never takes its branch for a missing one.                               *)
PastEncoder == {"DENOISING_WAITING", "DENOISING_RUNNING", "DENOISING_DONE",
                "DECODER_WAITING", "DECODER_RUNNING"}

TransferKept ==
  \A r \in Requests :
    /\ InState(tracker, r, PastEncoder) => transfer[r] # None
    /\ \A q \in Receivers : InQueue(r, q) => transfer[r] # None

(* No slot is handed out that a tracked request still holds.               *)
SlotBound ==
  \A q \in Roles : \A i \in Inst(q) :
    free[q][i] >= 0 /\ free[q][i] + Cardinality(Holders(q, i)) <= Capacity[q]

(* The handlers decide which slot to give back from the state of the       *)
(* record alone; that is right because a tracked request has one message   *)
(* or queue entry, which matches its state.                                *)
SlotInvariant ==
  /\ ServerTypeOK /\ MessagesOK
  /\ OneToken /\ FreshRequests /\ TokenState /\ TransferKept
  /\ SlotBound

-------------------------------------------------------------------------------

(* Client pending[r] sent id r, its request was read and it has no answer. *)
WaitingOnly(r) ==
  pending[r] # None =>
    /\ IdOf[pending[r]] = r
    /\ inbox[pending[r]] = "taken" /\ replies[pending[r]] = <<>>

(* What keeps a client from being answered twice, or before it asked, also *)
(* when ids repeat: _pending names only clients that wait, each under the  *)
(* id it sent.                                                             *)
AnswerInvariant ==
  /\ pending \in [Requests -> Clients \cup {None}]
  /\ inbox \in [Clients -> {"idle", "sent", "taken"}]
  /\ DOMAIN replies = Clients /\ DOMAIN tta = Roles
  /\ \A m \in Tokens(net) : m.id \in Requests
  /\ \A q \in Roles : \A e \in tta[q] : e.id \in Requests
  /\ \A r \in Requests : WaitingOnly(r)
  /\ \A c \in Clients : inbox[c] # "taken" => replies[c] = <<>>
===============================================================================
