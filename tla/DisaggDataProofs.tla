-------------------------- MODULE DisaggDataProofs ----------------------------
(***************************************************************************)
(* What a client is told.  Seen from the frontend, the system is a         *)
(* generation service that answers a client at most once and only after it *)
(* asked; nothing is assumed of the ids that clients send.  And data stays *)
(* with its request: every step preserves DataInvariant, given the         *)
(* invariants on slots, ownership and answers, as long as no RDMA push     *)
(* fails.                                                                  *)
(***************************************************************************)
EXTENDS DisaggPoolProofs

(* Steps that neither read a request nor answer a client.                  *)
Quiet == UNCHANGED <<pending, inbox, replies>>

(* The ids a step leaves in the queues and on the sockets are known ones.  *)
KnownIds ==
  /\ \A m \in Tokens(net) : m.id \in Requests
  /\ DOMAIN tta = Roles /\ \A q \in Roles : \A e \in tta[q] : e.id \in Requests

Asked == {c \in Clients : inbox[c] # "idle"}

(* An answer of the abstract service, in terms of the server's state.      *)
AnswerStep ==
  /\ \A c \in Clients :
       \/ replies'[c] = replies[c]
       \/ c \in Asked /\ replies[c] = <<>> /\ Len(replies'[c]) = 1
  /\ DOMAIN replies' = Clients
  /\ Asked' = Asked

AskStep(c) == c \notin Asked /\ Asked' = Asked \cup {c} /\ UNCHANGED replies

ServiceStep ==
  \/ \E c \in Clients : AskStep(c)
  \/ AnswerStep
  \/ UNCHANGED <<Asked, replies>>

(* A step that reads no request and answers nobody is a stutter of the     *)
(* service.                                                                *)
LEMMA QuietStep ==
  ASSUME AnswerInvariant, Quiet, KnownIds'
  PROVE  AnswerInvariant' /\ ServiceStep
<1>1. AnswerInvariant'
  BY Zenon DEF AnswerInvariant, Quiet, KnownIds, WaitingOnly
<1>2. ServiceStep
  BY Zenon DEF ServiceStep, Quiet, Asked
<1>3. QED  BY Zenon, <1>1, <1>2

(* A handler ends request r: whoever waits for it is answered and popped.  *)
LEMMA CompleteStep ==
  ASSUME AnswerInvariant, NEW r \in Requests, NEW kind, NEW data,
         Complete(r, kind, data), inbox' = inbox, KnownIds'
  PROVE  AnswerInvariant' /\ ServiceStep
<1> DEFINE c == pending[r]
           reply == [kind |-> kind, data |-> data]
<1>1. pending' \in [Requests -> Clients \cup {None}]
      /\ \A x \in Requests : pending'[x] = IF x = r THEN None ELSE pending[x]
  BY Zenon DEF Complete, PopPending, AnswerInvariant
<1>2. /\ DOMAIN replies' = Clients
      /\ \A d \in Clients : replies'[d] = IF d = c THEN Append(replies[d], reply) ELSE replies[d]
  <2>1. CASE c = None
    BY Zenon, <2>1, DeploymentAssumption DEF Complete, ReplyTo, AnswerInvariant
  <2>2. CASE c # None
    BY Zenon, <2>2 DEF Complete, ReplyTo, AnswerInvariant
  <2>3. QED  BY Zenon, <2>1, <2>2
<1>3. c # None => c \in Clients /\ IdOf[c] = r /\ inbox[c] = "taken" /\ replies[c] = <<>>
  BY Zenon DEF AnswerInvariant, WaitingOnly
<1>4. Len(Append(<<>>, reply)) = 1
  OBVIOUS
<1> HIDE DEF c, reply
<1>5. \A x \in Requests : WaitingOnly(x)'
  <2> SUFFICES ASSUME NEW x \in Requests, pending'[x] # None
               PROVE  /\ IdOf[pending'[x]] = x
                      /\ inbox'[pending'[x]] = "taken" /\ replies'[pending'[x]] = <<>>
    BY Zenon DEF WaitingOnly
  <2>1. x # r /\ pending'[x] = pending[x] /\ pending[x] \in Clients
    BY Zenon, <1>1 DEF AnswerInvariant
  <2>2. IdOf[pending[x]] = x /\ inbox[pending[x]] = "taken" /\ replies[pending[x]] = <<>>
    BY Zenon, <2>1 DEF AnswerInvariant, WaitingOnly
  <2>3. pending[x] # c
    BY Zenon, <1>3, <2>1, <2>2, DeploymentAssumption
  <2>4. QED  BY Zenon, <1>2, <2>1, <2>2, <2>3
<1>6. \A d \in Clients : inbox'[d] # "taken" => replies'[d] = <<>>
  BY Zenon, <1>2, <1>3, DeploymentAssumption DEF AnswerInvariant
<1>7. AnswerInvariant'
  BY Zenon, <1>1, <1>2, <1>5, <1>6 DEF AnswerInvariant, KnownIds
<1>8. AnswerStep
  <2>1. ASSUME NEW d \in Clients, d = c
        PROVE  d \in Asked /\ replies[d] = <<>> /\ Len(replies'[d]) = 1
    BY Zenon, <1>2, <1>3, <1>4, <2>1, DeploymentAssumption DEF Asked
  <2>2. QED  BY Zenon, <1>2, <2>1 DEF AnswerStep, Asked
<1>9. QED  BY Zenon, <1>7, <1>8 DEF ServiceStep

(* _handle_timeouts answers every client that waits for an expired request.*)
LEMMA PollStep ==
  ASSUME AnswerInvariant, Poll
  PROVE  AnswerInvariant' /\ ServiceStep
<1> DEFINE T == FindTimedOut(tracker, horizon)
           reply == [kind |-> "error", data |-> None]
           Hit(c) == \E r \in T : pending[r] = c
<1>1. /\ replies' = [c \in Clients |-> IF Hit(c) THEN Append(replies[c], reply)
                                       ELSE replies[c]]
      /\ pending' = [r \in Requests |-> IF r \in T THEN None ELSE pending[r]]
      /\ tta' = [q \in Roles |-> Without(tta[q], T)]
      /\ inbox' = inbox /\ net' = net
  BY Zenon DEF Poll, HandleTimeouts, PopPending
<1>2. \A r \in T : r \in Requests
  BY Zenon DEF FindTimedOut
<1>3. Len(Append(<<>>, reply)) = 1
  OBVIOUS
<1> HIDE DEF T, reply
<1>4. \A c \in Clients : Hit(c) =>
        IdOf[c] \in T /\ inbox[c] = "taken" /\ replies[c] = <<>>
  BY <1>2, DeploymentAssumption DEF AnswerInvariant, WaitingOnly
<1>5. pending' \in [Requests -> Clients \cup {None}]
  BY Zenon, <1>1 DEF AnswerInvariant
<1>6. \A r \in Requests : WaitingOnly(r)'
  <2> SUFFICES ASSUME NEW r \in Requests, pending'[r] # None
               PROVE  /\ IdOf[pending'[r]] = r
                      /\ inbox'[pending'[r]] = "taken" /\ replies'[pending'[r]] = <<>>
    BY Zenon DEF WaitingOnly
  <2>1. r \notin T /\ pending'[r] = pending[r] /\ pending[r] \in Clients
    BY Zenon, <1>1, <1>5
  <2>2. IdOf[pending[r]] = r /\ inbox[pending[r]] = "taken" /\ replies[pending[r]] = <<>>
    BY Zenon, <2>1 DEF AnswerInvariant, WaitingOnly
  <2>3. ~Hit(pending[r])
    BY Zenon, <1>4, <2>1, <2>2
  <2> HIDE DEF Hit
  <2>4. QED  BY Zenon, <1>1, <2>1, <2>2, <2>3
<1>7. \A q \in Roles : \A e \in tta'[q] : e.id \in Requests
  <2> SUFFICES ASSUME NEW q \in Roles, NEW e \in tta'[q]
               PROVE  e.id \in Requests
    BY Zenon
  <2>1. PICK f \in tta[q] : e = [id |-> f.id, ahead |-> f.ahead \ T]
    BY Zenon, <1>1 DEF Without
  <2>2. QED  BY Zenon, <2>1 DEF AnswerInvariant
<1> HIDE DEF Hit
<1>8. \A c \in Clients : inbox'[c] # "taken" => replies'[c] = <<>>
  BY Zenon, <1>1, <1>4 DEF AnswerInvariant
<1>9. AnswerInvariant'
  BY Zenon, <1>1, <1>5, <1>6, <1>7, <1>8 DEF AnswerInvariant
<1>10. AnswerStep
  <2>1. ASSUME NEW c \in Clients, Hit(c)
        PROVE  c \in Asked /\ replies[c] = <<>> /\ Len(replies'[c]) = 1
    BY Zenon, <1>1, <1>3, <1>4, <2>1 DEF Asked
  <2>2. QED  BY Zenon, <1>1, <2>1 DEF AnswerStep, Asked
<1>11. QED  BY Zenon, <1>9, <1>10 DEF ServiceStep

(* _handle_client_request: a control message is answered at once, and a    *)
(* new request starts to wait; a duplicate of a tracked id is dropped.     *)
LEMMA ClientRequestStep ==
  ASSUME AnswerInvariant, NEW c \in Clients, HandleClientRequest(c)
  PROVE  AnswerInvariant' /\ ServiceStep
<1> DEFINE r == IdOf[c]
           reply == [kind |-> "ignored", data |-> None]
<1>1. /\ inbox[c] = "sent" /\ inbox' = [inbox EXCEPT ![c] = "taken"]
      /\ replies[c] = <<>> /\ net' = net
      /\ Asked' = Asked /\ c \in Asked
  BY Zenon DEF HandleClientRequest, AnswerInvariant, Asked
<1>2. inbox' \in [Clients -> {"idle", "sent", "taken"}]
      /\ \A d \in Clients : inbox'[d] = IF d = c THEN "taken" ELSE inbox[d]
  BY Zenon, <1>1 DEF AnswerInvariant
<1>3. \A x \in Requests : pending[x] # None =>
        /\ pending[x] \in Clients /\ pending[x] # c
        /\ IdOf[pending[x]] = x /\ inbox'[pending[x]] = "taken" /\ replies[pending[x]] = <<>>
  BY ZenonT(60), <1>1, <1>2 DEF AnswerInvariant, WaitingOnly
<1>4. CASE r = None
  <2>1. /\ UNCHANGED <<pending, tta>> /\ DOMAIN replies' = Clients
        /\ \A d \in Clients : replies'[d] = IF d = c THEN Append(<<>>, reply) ELSE replies[d]
    BY <1>1, <1>4, DeploymentAssumption DEF HandleClientRequest, ReplyTo, AnswerInvariant
  <2>2. Len(Append(<<>>, reply)) = 1
    OBVIOUS
  <2> HIDE DEF reply
  <2>3. \A x \in Requests : WaitingOnly(x)'
    BY Zenon, <1>3, <2>1 DEF WaitingOnly
  <2>4. AnswerInvariant'
    BY Zenon, <1>1, <1>2, <2>1, <2>3 DEF AnswerInvariant
  <2>5. AnswerStep
    BY Zenon, <1>1, <2>1, <2>2 DEF AnswerStep
  <2>6. QED  BY Zenon, <2>4, <2>5 DEF ServiceStep
<1>5. CASE r # None
  <2>1. r \in Requests /\ replies' = replies
    BY Zenon, <1>5, DeploymentAssumption DEF HandleClientRequest
  <2>2. \/ UNCHANGED <<pending, tta>>
        \/ /\ pending' = [pending EXCEPT ![r] = c]
           /\ tta' = [tta EXCEPT !["encoder"] = Enqueue(@, r)]
    BY Zenon, <1>5 DEF HandleClientRequest
  <2>3. pending' \in [Requests -> Clients \cup {None}]
        /\ \A x \in Requests : pending'[x] = pending[x] \/ (x = r /\ pending'[x] = c)
    BY Zenon, <2>1, <2>2 DEF AnswerInvariant
  <2>4. DOMAIN tta' = Roles /\ \A q \in Roles : \A e \in tta'[q] : e.id \in Requests
    BY <2>1, <2>2 DEF AnswerInvariant, Enqueue
  <2>5. \A x \in Requests : WaitingOnly(x)'
    BY ZenonT(60), <1>1, <1>2, <1>3, <2>1, <2>3 DEF WaitingOnly
  <2>6. AnswerInvariant'
    BY Zenon, <1>1, <1>2, <2>1, <2>3, <2>4, <2>5 DEF AnswerInvariant
  <2>7. QED  BY Zenon, <1>1, <2>1, <2>6 DEF ServiceStep
<1>6. QED  BY Zenon, <1>4, <1>5

-------------------------------------------------------------------------------
(* Every other step of the server handles a message or dispatches a        *)
(* request, and sends messages about that request only.                    *)

(* Each message handler answers the client of its message or nobody.       *)
LEMMA HandlerStep ==
  ASSUME AnswerInvariant, NEW m \in net,
         \/ HandleRegister(m) \/ HandleError(m) \/ HandleStaged(m)
         \/ HandleAllocated(m) \/ HandlePushed(m) \/ HandleDone(m) \/ HandleOutput(m)
  PROVE  AnswerInvariant' /\ ServiceStep
<1>0. m.type # "REGISTER" => m.id \in Requests
  BY Zenon DEF AnswerInvariant, Tokens
<1>a. KnownIds
  BY Zenon DEF AnswerInvariant, KnownIds
<1>1. CASE HandleRegister(m)
  <2>1. Quiet /\ KnownIds'
    BY Zenon, <1>1, <1>a DEF HandleRegister, Quiet, KnownIds, Tokens
  <2>2. QED  BY Zenon, <2>1, QuietStep
<1>2. CASE HandleError(m)
  <2>1. m.id \in Requests /\ Complete(m.id, "error", None) /\ inbox' = inbox
    BY Zenon, <1>0, <1>2 DEF HandleError
  <2>2. KnownIds'
    BY Zenon, <1>2, <1>a DEF HandleError, KnownIds, Tokens
  <2>3. QED  BY Zenon, <2>1, <2>2, CompleteStep
<1>3. CASE HandleStaged(m)
  <2>1. m.id \in Requests /\ Quiet /\ net' = net \ {m}
        /\ tta' = [tta EXCEPT !["denoiser"] = Enqueue(@, m.id)]
    BY Zenon, <1>0, <1>3 DEF HandleStaged, Quiet
  <2>2. KnownIds'
    BY <1>a, <2>1 DEF KnownIds, Tokens, Enqueue
  <2>3. QED  BY Zenon, <2>1, <2>2, QuietStep
<1>4. CASE HandleAllocated(m)
  <2>1. m.id \in Requests /\ Quiet /\ tta' = tta
    BY Zenon, <1>0, <1>4 DEF HandleAllocated, Quiet
  <2>2. \A n \in net' : n \in net \/ n.id = m.id
    BY <1>4 DEF HandleAllocated, PUSH
  <2>3. KnownIds'
    BY Zenon, <1>a, <2>1, <2>2 DEF KnownIds, Tokens
  <2>4. QED  BY Zenon, <2>1, <2>3, QuietStep
<1>5. CASE HandlePushed(m)
  <2>1. m.id \in Requests /\ Quiet /\ tta' = tta
    BY Zenon, <1>0, <1>5 DEF HandlePushed, Quiet
  <2>2. \A n \in net' : n \in net \/ n.id = m.id
    BY <1>5 DEF HandlePushed, READY
  <2>3. KnownIds'
    BY Zenon, <1>a, <2>1, <2>2 DEF KnownIds, Tokens
  <2>4. QED  BY Zenon, <2>1, <2>3, QuietStep
<1>6. CASE HandleDone(m)
  <2>1. m.id \in Requests /\ inbox' = inbox /\ net' = net \ {m}
    BY Zenon, <1>0, <1>6 DEF HandleDone
  <2>2. tta' = tta \/ tta' = [tta EXCEPT !["decoder"] = Enqueue(@, m.id)]
    BY Zenon, <1>6 DEF HandleDone
  <2>3. KnownIds'
    BY <1>a, <2>1, <2>2 DEF KnownIds, Tokens, Enqueue
  <2>4. Complete(m.id, "error", None) \/ UNCHANGED <<pending, replies>>
    BY Zenon, <1>6 DEF HandleDone
  <2>5. QED  BY Zenon, <2>1, <2>3, <2>4, CompleteStep, QuietStep DEF Quiet
<1>7. CASE HandleOutput(m)
  <2>1. m.id \in Requests /\ inbox' = inbox /\ net' = net \ {m} /\ tta' = tta
        /\ Complete(m.id, IF m.error THEN "error" ELSE "ok", m.data)
    BY Zenon, <1>0, <1>7 DEF HandleOutput
  <2>2. KnownIds'
    BY Zenon, <1>a, <2>1 DEF KnownIds, Tokens
  <2>3. QED  BY Zenon, <2>1, <2>2, CompleteStep
<1>8. QED  BY Zenon, <1>1, <1>2, <1>3, <1>4, <1>5, <1>6, <1>7

(* A dispatch answers nobody.                                              *)
LEMMA DispatchStep ==
  ASSUME AnswerInvariant, NEW role \in Roles, NEW e \in tta[role], NEW i, NEW state,
         Dispatch(role, e, i, state), \A n \in net' : n \in net \/ n.id = e.id
  PROVE  AnswerInvariant' /\ ServiceStep
<1>1. Quiet /\ tta' = [tta EXCEPT ![role] = Without(@, {e.id})]
  BY Zenon DEF Dispatch, Quiet
<1>2. e.id \in Requests
  BY Zenon DEF AnswerInvariant
<1>3. \A q \in Roles : \A f \in tta'[q] : f.id \in Requests
  <2> SUFFICES ASSUME NEW q \in Roles, NEW f \in tta'[q]
               PROVE  f.id \in Requests
    BY Zenon
  <2>1. CASE q # role
    BY Zenon, <1>1, <2>1 DEF AnswerInvariant
  <2>2. CASE q = role
    <3>1. f \in Without(tta[role], {e.id})
      BY Zenon, <1>1, <2>2 DEF AnswerInvariant
    <3>2. PICK g \in tta[role] : f = [id |-> g.id, ahead |-> g.ahead \ {e.id}]
      BY Zenon, <3>1 DEF Without
    <3>3. QED  BY Zenon, <3>2 DEF AnswerInvariant
  <2>3. QED  BY Zenon, <2>1, <2>2
<1>4. KnownIds'
  BY Zenon, <1>1, <1>2, <1>3 DEF KnownIds, AnswerInvariant, Tokens
<1>5. QED  BY Zenon, <1>1, <1>4, QuietStep

(* A thread that handles a message sends at most one, about the same       *)
(* request.                                                                *)
LEMMA OneSent ==
  ASSUME NEW m, \/ net' = net \ {m}
                \/ \E n : net' = (net \ {m}) \cup {n} /\ n.id = m.id
  PROVE  \A n \in net' : n \in net \/ n.id = m.id
BY Zenon

(* Role instances never answer a client themselves.                        *)
LEMMA RolesStep ==
  ASSUME AnswerInvariant, RolesNext, UNCHANGED serverVars
  PROVE  AnswerInvariant' /\ ServiceStep
<1>1. PICK m \in net :
        \/ EncoderStep(m) \/ RdmaPush(m) \/ HandleAlloc(m) \/ Prefetch(m)
        \/ DenoiserCompute(m) \/ DecoderCompute(m) \/ HandlerRaises(m)
  BY Zenon DEF RolesNext
<1>2. m.type # "REGISTER"
  BY Zenon, <1>1 DEF EncoderStep, RdmaPush, HandleAlloc, Prefetch, DenoiserCompute,
              DecoderCompute, HandlerRaises
<1>3. \A n \in net' : n \in net \/ n.id = m.id
  <2>1. CASE EncoderStep(m)
    <3>1. (\E size : net' = (net \ {m}) \cup {STAGED(m.inst, m.id, size)})
          \/ net' = (net \ {m}) \cup {ERROR(m.inst, m.id)}
      BY Zenon, <2>1 DEF EncoderStep, Reply1
    <3>2. ERROR(m.inst, m.id).id = m.id /\ \A size : STAGED(m.inst, m.id, size).id = m.id
      BY Zenon DEF STAGED, ERROR
    <3>3. QED  BY Zenon, <3>1, <3>2, OneSent
  <2>2. CASE RdmaPush(m)
    <3>1. net' = (net \ {m}) \cup {PUSHED(m.role, m.inst, m.id)}
      BY Zenon, <2>2 DEF RdmaPush, Reply1
    <3>2. PUSHED(m.role, m.inst, m.id).id = m.id
      BY Zenon DEF PUSHED
    <3>3. QED  BY Zenon, <3>1, <3>2, OneSent
  <2>3. CASE HandleAlloc(m)
    <3>1. (\E a : net' = (net \ {m}) \cup {ALLOCATED(m.role, m.inst, m.id, a)})
          \/ net' = net \ {m}
      BY Zenon, <2>3 DEF HandleAlloc, Reply1
    <3>2. \A a : ALLOCATED(m.role, m.inst, m.id, a).id = m.id
      BY Zenon DEF ALLOCATED
    <3>3. QED  BY <3>1, <3>2, OneSent
  <2>4. CASE Prefetch(m)
    <3>1. (\E d : net' = (net \ {m}) \cup {COMPUTE(m.role, m.inst, m.id, m.pre, d)})
          \/ net' = net \ {m}
      BY Zenon, <2>4 DEF Prefetch, Reply1
    <3>2. \A d : COMPUTE(m.role, m.inst, m.id, m.pre, d).id = m.id
      BY Zenon DEF COMPUTE
    <3>3. QED  BY <3>1, <3>2, OneSent
  <2>5. CASE DenoiserCompute(m)
    <3>1. \E error, size : net' = (net \ {m}) \cup {DONE(m.inst, m.id, error, size)}
      BY Zenon, <2>5 DEF DenoiserCompute, Reply1
    <3>2. \A error, size : DONE(m.inst, m.id, error, size).id = m.id
      BY Zenon DEF DONE
    <3>3. QED  BY Zenon, <3>1, <3>2, OneSent
  <2>6. CASE DecoderCompute(m)
    <3>1. \E error, d : net' = (net \ {m}) \cup {OUTPUT(m.inst, m.id, error, d)}
      BY Zenon, <2>6 DEF DecoderCompute, Reply1
    <3>2. \A error, d : OUTPUT(m.inst, m.id, error, d).id = m.id
      BY Zenon DEF OUTPUT
    <3>3. QED  BY Zenon, <3>1, <3>2, OneSent
  <2>7. CASE HandlerRaises(m)
    BY Zenon, <2>7 DEF HandlerRaises
  <2>8. QED  BY Zenon, <1>1, <2>1, <2>2, <2>3, <2>4, <2>5, <2>6, <2>7
<1>4. m.id \in Requests
  BY Zenon, <1>2 DEF AnswerInvariant, Tokens
<1>5. Quiet /\ tta' = tta
  BY Zenon DEF serverVars, Quiet
<1>6. KnownIds'
  BY Zenon, <1>3, <1>4, <1>5 DEF KnownIds, AnswerInvariant, Tokens
<1>7. QED  BY Zenon, <1>5, <1>6, QuietStep

(* Every step of _event_loop is a step of the service or a stutter.        *)
LEMMA ServerStep ==
  ASSUME AnswerInvariant, ServerNext
  PROVE  AnswerInvariant' /\ ServiceStep
<1>1. CASE Poll
  BY Zenon, <1>1, PollStep
<1>2. ASSUME NEW c \in Clients, HandleClientRequest(c)
      PROVE  AnswerInvariant' /\ ServiceStep
  BY Zenon, <1>2, ClientRequestStep
<1>3. ASSUME NEW i \in Inst("encoder"), NEW e \in tta["encoder"], DispatchToEncoder(e, i)
      PROVE  AnswerInvariant' /\ ServiceStep
  <2>1. "encoder" \in Roles /\ Dispatch("encoder", e, i, "ENCODER_RUNNING")
        /\ \A n \in net' : n \in net \/ n.id = e.id
    BY <1>3 DEF DispatchToEncoder, Roles, REQUEST
  <2>2. QED  BY Zenon, <2>1, DispatchStep
<1>4. ASSUME NEW role \in Receivers, NEW i \in Inst(role), NEW e \in tta[role],
             DispatchTransfer(role, e, i)
      PROVE  AnswerInvariant' /\ ServiceStep
  <2>1. role \in Roles
    BY Zenon DEF Receivers, Roles
  <2>2. PICK state : Dispatch(role, e, i, state)
    BY Zenon, <1>4 DEF DispatchTransfer
  <2>3. \A n \in net' : n \in net \/ n.id = e.id
    BY <1>4 DEF DispatchTransfer, PUSH, ALLOC
  <2>4. QED  BY Zenon, <2>1, <2>2, <2>3, DispatchStep
<1>5. QED  BY Zenon, <1>1, <1>2, <1>3, <1>4, HandlerStep DEF ServerNext

(* Every step of the system is a step of the service or a stutter.         *)
LEMMA SystemStep ==
  ASSUME AnswerInvariant, [Next]_vars
  PROVE  AnswerInvariant' /\ ServiceStep
<1>1. ASSUME NEW c \in Clients, ClientSend(c)
      PROVE  AnswerInvariant' /\ ServiceStep
  <2>1. /\ inbox[c] = "idle" /\ inbox' = [inbox EXCEPT ![c] = "sent"]
        /\ UNCHANGED <<pending, tta, replies, net>>
    BY Zenon, <1>1 DEF ClientSend
  <2>2. inbox' \in [Clients -> {"idle", "sent", "taken"}]
        /\ \A d \in Clients : inbox'[d] = IF d = c THEN "sent" ELSE inbox[d]
    BY Zenon, <2>1 DEF AnswerInvariant
  <2>3. \A r \in Requests : WaitingOnly(r)'
    BY ZenonT(60), <2>1, <2>2 DEF AnswerInvariant, WaitingOnly
  <2>4. AnswerInvariant'
    BY Zenon, <2>1, <2>2, <2>3 DEF AnswerInvariant
  <2>5. AskStep(c)
    BY Zenon, <2>1, <2>2 DEF AskStep, Asked
  <2>6. QED  BY Zenon, <2>4, <2>5 DEF ServiceStep
<1>2. CASE Tick
  <2>1. Quiet /\ KnownIds'
    BY Zenon, <1>2 DEF Tick, Quiet, KnownIds, AnswerInvariant
  <2>2. QED  BY Zenon, <2>1, QuietStep
<1>3. CASE UNCHANGED vars
  <2>1. Quiet /\ KnownIds'
    BY Zenon, <1>3 DEF vars, serverVars, Quiet, KnownIds, AnswerInvariant
  <2>2. QED  BY Zenon, <2>1, QuietStep
<1>4. QED  BY Zenon, <1>1, <1>2, <1>3, ServerStep, RolesStep DEF Next

(* Initially nobody has asked.                                             *)
LEMMA InitAnswers == Init => AnswerInvariant /\ Asked = {}
<1> SUFFICES ASSUME Init
             PROVE  AnswerInvariant /\ Asked = {}
  BY Zenon
<1>1. /\ pending = [r \in Requests |-> None] /\ inbox = [c \in Clients |-> "idle"]
      /\ replies = [c \in Clients |-> <<>>] /\ tta = [q \in Roles |-> {}]
      /\ net = UNION {{REGISTER(q, i) : i \in Inst(q)} : q \in Roles}
  BY Zenon DEF Init, ServerInit, RolesInit
<1>2. Tokens(net) = {}
  <2>1. \A m \in net : \E q, i : m = REGISTER(q, i)
    BY Zenon, <1>1
  <2>2. \A q, i : REGISTER(q, i).type = "REGISTER"
    BY Zenon DEF REGISTER
  <2>3. QED  BY Zenon, <2>1, <2>2 DEF Tokens
<1>3. \A r \in Requests : WaitingOnly(r)
  BY Zenon, <1>1 DEF WaitingOnly
<1>4. QED  BY Zenon, <1>1, <1>2, <1>3 DEF AnswerInvariant, Asked

(* _pending names only clients that still wait for their answer, in every  *)
(* deployment and whatever ids the clients send.                           *)
THEOREM PendingClientsWait == Spec => []AnswerInvariant
<1>1. Init => AnswerInvariant
  BY Zenon, InitAnswers
<1>2. AnswerInvariant /\ [Next]_vars => AnswerInvariant'
  BY Zenon, SystemStep
<1>3. QED  BY <1>1, <1>2, PTL DEF Spec

(* The system implements the generation service without its promise to     *)
(* answer: no client is answered twice or before it asked, whichever of a  *)
(* result, an error, a timeout and a control reply comes first.            *)
THEOREM SystemImplementsService == Spec => ImplementsSafeService
<1>1. Init => Service!Init
  BY Zenon, InitAnswers DEF Service!Init, Asked, Init, ServerInit
<1>2. AnswerInvariant /\ [Next]_vars => [Service!Next]_(Service!vars)
  <2> SUFFICES ASSUME AnswerInvariant, [Next]_vars
               PROVE  [Service!Next]_(Service!vars)
    BY Zenon
  <2>1. ServiceStep
    BY Zenon, SystemStep
  <2>2. QED
    BY Zenon, <2>1 DEF ServiceStep, AskStep, AnswerStep, Asked,
                Service!Next, Service!Ask, Service!Answer, Service!vars
<1>3. QED
  BY <1>1, <1>2, PendingClientsWait, PTL DEF Spec, ImplementsSafeService, Service!SafeSpec

-------------------------------------------------------------------------------
(* The block where the data of a request lands.                            *)

(* It is an allocated one, and nobody stages into it.                      *)
LEMMA LandsAllocated ==
  ASSUME OwnershipInvariant, NEW r \in Requests, NEW q \in Receivers, NEW i \in Inst(q),
         Lands(r, q, i)
  PROVE  /\ transfer[r].addr = At(q, i, transfer[r].addr.slot)
         /\ transfer[r].addr \in AllAddr
         /\ transfer[r].addr.slot \in allocated[q][i]
         /\ \A x \in Requests : staged[q][i][x] # None => staged[q][i][x] # transfer[r].addr.slot
<1> DEFINE t == transfer[r]
           s == t.addr.slot
<1>1. q \in Roles /\ Fixed(q) = Prealloc
  BY Zenon DEF Receivers, Roles, Fixed
<1>2. /\ t # None /\ t.addr \in Addr /\ t.addr.role = q /\ t.addr.inst = i
      /\ s = IF t.pre # None THEN t.pre ELSE receives[q][i][r]
  BY Zenon DEF Lands
<1>3. s \in Slots /\ t.addr = At(q, i, s)
  BY Zenon, <1>2 DEF Addr, At
<1>4. Apart(Prealloc, allocated[q][i], staged[q][i], receives[q][i])
  BY Zenon, <1>1 DEF OwnershipInvariant, PoolsApart
<1>5. t.pre # None => s \in Prealloc
  BY Zenon, <1>2 DEF OwnershipInvariant, ClaimsApart, Claims, ClaimOK
<1> HIDE DEF s
<1>6. s \in allocated[q][i] /\ \A x \in Requests : staged[q][i][x] # None => staged[q][i][x] # s
  <2>1. CASE t.pre # None
    BY <1>4, <1>5, <2>1 DEF Apart
  <2>2. CASE t.pre = None
    <3>1. s = receives[q][i][r] /\ s # None
      BY Zenon, <1>2, <1>3, <2>2, SlotsAreSlots
    <3>2. QED  BY Zenon, <1>4, <3>1 DEF Apart
  <2>3. QED  BY Zenon, <2>1, <2>2
<1>7. At(q, i, s) \in AllAddr
  BY <1>1, <1>3 DEF AllAddr
<1>8. QED  BY Zenon, <1>3, <1>6, <1>7 DEF s

(* It is not the block of another request.                                 *)
LEMMA LandsApart ==
  ASSUME OwnershipInvariant, NEW r \in Requests, NEW q \in Receivers, NEW i \in Inst(q),
         Lands(r, q, i), NEW x \in Requests \ {r}
  PROVE  \A p \in Receivers : \A j \in Inst(p) :
           Lands(x, p, j) => transfer[r].addr # transfer[x].addr
<1> SUFFICES ASSUME NEW p \in Receivers, NEW j \in Inst(p), Lands(x, p, j),
                    transfer[r].addr = transfer[x].addr
             PROVE  FALSE
  BY Zenon
<1>1. p = q /\ j = i
  BY Zenon DEF Lands
<1>2. /\ transfer[r] # None /\ transfer[x] # None /\ transfer[r].addr.slot \in Slots
      /\ transfer[r].addr.slot = transfer[x].addr.slot
  BY Zenon DEF Lands, Addr
<1>3. Claims(r) => transfer[r].addr.slot \in Prealloc
  BY Zenon DEF OwnershipInvariant, ClaimsApart, ClaimOK, Claims
<1>4. Claims(x) => transfer[x].addr.slot \in Prealloc
  BY Zenon DEF OwnershipInvariant, ClaimsApart, ClaimOK, Claims
<1>5. CASE Claims(r) /\ Claims(x)
  BY Zenon, <1>5 DEF OwnershipInvariant, ClaimsApart
<1>6. CASE Claims(r) /\ ~Claims(x)
  BY Zenon, <1>2, <1>3, <1>6 DEF Lands, Claims
<1>7. CASE ~Claims(r) /\ Claims(x)
  BY Zenon, <1>2, <1>4, <1>7 DEF Lands, Claims
<1>8. CASE ~Claims(r) /\ ~Claims(x)
  <2>1. /\ receives[q][i][r] = receives[q][i][x] /\ receives[q][i][r] \in Slots
        /\ receives[q][i][r] \notin Prealloc
    BY Zenon, <1>1, <1>2, <1>8 DEF Lands, Claims
  <2>2. Apart(Prealloc, allocated[q][i], staged[q][i], receives[q][i])
    BY Zenon DEF OwnershipInvariant, PoolsApart, Fixed, Receivers, Roles
  <2>3. receives[q][i][r] \notin Prealloc \cup {None}
    BY Zenon, <2>1, SlotsAreSlots
  <2>4. QED  BY Zenon, <2>1, <2>2, <2>3 DEF Apart
<1>9. QED  BY Zenon, <1>5, <1>6, <1>7, <1>8

(* Where a message says that the data of its request has arrived.          *)
Arrived(m) == (m.type = "PUSHED" /\ Tracked(tracker, m.id)) \/ m.type = "READY"

(* That block is the request's own.                                        *)
LEMMA ArrivedLands ==
  ASSUME SlotInvariant, OwnershipInvariant, NEW m \in Tokens(net), Arrived(m)
  PROVE  m.id \in Requests /\ \E q \in Receivers : \E i \in Inst(q) : Lands(m.id, q, i)
<1>1. m.id \in Requests /\ TokenOK(m) /\ m.inst \in Inst(m.role)
  BY Zenon, MessageKnown DEF Tokens
<1>2. CASE m.type = "READY"
  <2>1. m.role \in Receivers /\ Lands(m.id, m.role, m.inst)
    BY Zenon, <1>1, <1>2 DEF TokenOK, ReadyOK
  <2>2. QED  BY Zenon, <1>1, <2>1
<1>3. CASE m.type = "PUSHED" /\ Tracked(tracker, m.id)
  <2>1. PushedOK(m)
    BY Zenon, <1>1, <1>3 DEF TokenOK
  <2>2. QED  BY Zenon, <1>1, <1>3, <2>1 DEF PushedOK
<1>4. QED  BY Zenon, <1>2, <1>3 DEF Arrived

-------------------------------------------------------------------------------
(* Steps of a role instance.                                               *)

(* For message m a thread writes only block `a`, where no other request's  *)
(* data lands and nothing is staged but what it puts there itself.         *)
WritesOnly(m, a) ==
  /\ \A b \in AllAddr : b # a => mem'[b] = mem[b]
  /\ \A q \in Roles : \A i \in Inst(q) : \A x \in Requests :
       staged'[q][i][x] # None =>
         \/ staged'[q][i][x] = staged[q][i][x] /\ At(q, i, staged[q][i][x]) # a
         \/ mem'[At(q, i, staged'[q][i][x])] = Output(x, q)
  /\ \A x \in Requests \ {m.id} : \A q \in Receivers : \A i \in Inst(q) :
       Lands(x, q, i) => transfer[x].addr # a

(* What it sends is true.                                                  *)
SendsTruth(m) == \A k \in Tokens(net') : k \in net \ {m} \/ CarriesOwnData(k)'

(* Then the data of every request stays in place.                          *)
LEMMA RoleWrites ==
  ASSUME SlotInvariant, OwnershipInvariant, DataInvariant, UNCHANGED serverVars,
         NEW m \in Tokens(net), NEW a, WritesOnly(m, a), SendsTruth(m)
  PROVE  DataInvariant'
<1>1. tracker' = tracker /\ transfer' = transfer /\ replies' = replies
  BY Zenon DEF serverVars
<1>2. ASSUME NEW q \in Roles, NEW i \in Inst(q), NEW x \in Requests, staged'[q][i][x] # None
      PROVE  mem'[At(q, i, staged'[q][i][x])] = Output(x, q)
  <2>1. CASE staged'[q][i][x] = staged[q][i][x] /\ At(q, i, staged[q][i][x]) # a
    <3>1. staged[q][i][x] \in Slots
      BY <1>2, <2>1, PoolsTyped DEF OwnershipInvariant, Register
    <3>2. At(q, i, staged[q][i][x]) \in AllAddr
      BY <3>1 DEF AllAddr
    <3>3. mem[At(q, i, staged[q][i][x])] = Output(x, q)
      BY Zenon, <1>2, <2>1 DEF DataInvariant
    <3>4. QED  BY Zenon, <2>1, <3>2, <3>3 DEF WritesOnly
  <2>2. QED  BY Zenon, <1>2, <2>1 DEF WritesOnly
<1>3. ASSUME NEW k \in Tokens(net')
      PROVE  CarriesOwnData(k)'
  <2>1. CASE k \in net \ {m}
    <3>1. k \in Tokens(net) /\ k.id \in Requests \ {m.id} /\ CarriesOwnData(k)
      BY Zenon, <2>1 DEF Tokens, SlotInvariant, OneToken, DataInvariant
    <3>2. Arrived(k) => mem'[transfer[k.id].addr] = mem[transfer[k.id].addr]
      <4> SUFFICES ASSUME Arrived(k)
                   PROVE  mem'[transfer[k.id].addr] = mem[transfer[k.id].addr]
        BY Zenon
      <4>1. PICK q \in Receivers : \E i \in Inst(q) : Lands(k.id, q, i)
        BY Zenon, <3>1, ArrivedLands
      <4>2. PICK i \in Inst(q) : Lands(k.id, q, i)
        BY Zenon, <4>1
      <4>3. transfer[k.id].addr \in AllAddr /\ transfer[k.id].addr # a
        BY Zenon, <3>1, <4>2, LandsAllocated DEF WritesOnly
      <4>4. QED  BY Zenon, <4>3 DEF WritesOnly
    <3>3. QED  BY Zenon, <1>1, <3>1, <3>2 DEF CarriesOwnData, Arrived
  <2>2. QED  BY Zenon, <1>3, <2>1 DEF SendsTruth
<1>4. RepliesAreOwn'
  BY Zenon, <1>1 DEF DataInvariant, RepliesAreOwn
<1>5. QED  BY Zenon, <1>2, <1>3, <1>4 DEF DataInvariant

(* A thread that writes and stages nothing only has to send what is true.  *)
LEMMA RoleReads ==
  ASSUME SlotInvariant, OwnershipInvariant, DataInvariant, UNCHANGED serverVars,
         NEW m \in Tokens(net), UNCHANGED <<staged, mem>>, SendsTruth(m)
  PROVE  DataInvariant'
<1>1. tracker' = tracker /\ transfer' = transfer /\ replies' = replies
  BY Zenon DEF serverVars
<1>2. ASSUME NEW k \in Tokens(net')
      PROVE  CarriesOwnData(k)'
  <2>1. CASE k \in net \ {m}
    <3>1. CarriesOwnData(k)
      BY Zenon, <1>2, <2>1 DEF Tokens, DataInvariant
    <3>2. QED  BY Zenon, <1>1, <3>1 DEF CarriesOwnData
  <2>2. QED  BY Zenon, <1>2, <2>1 DEF SendsTruth
<1>3. QED  BY Zenon, <1>1, <1>2 DEF DataInvariant, RepliesAreOwn

(* A thread stages the output of its request in a block nobody else uses.  *)
Stages(r, q, i, s) ==
  /\ SetStaged(q, i, r, s) /\ mem' = [mem EXCEPT ![At(q, i, s)] = Output(r, q)]
  /\ \A x \in Requests \ {r} : staged[q][i][x] # s
  /\ \A x \in Requests \ {r} :
       q \in Receivers /\ Lands(x, q, i) => transfer[x].addr.slot # s

(* That disturbs nobody.                                                   *)
LEMMA OutputStaged ==
  ASSUME OwnershipInvariant, NEW m, m.id \in Requests, NEW q \in Roles, NEW i \in Inst(q),
         NEW s \in Slots, Stages(m.id, q, i, s)
  PROVE  WritesOnly(m, At(q, i, s))
<1> DEFINE a == At(q, i, s)
           r == m.id
<1>1. a \in AllAddr /\ DOMAIN mem = AllAddr /\ a.role = q /\ a.inst = i /\ a.slot = s
  BY PoolsTyped DEF AllAddr, At, OwnershipInvariant
<1>2. mem'[a] = Output(r, q) /\ \A b \in AllAddr : b # a => mem'[b] = mem[b]
  BY Zenon, <1>1 DEF Stages
<1>3. Assigned(staged', staged, Register, q, i, [staged[q][i] EXCEPT ![r] = s])
      /\ staged[q][i] \in Register
  BY Zenon, EntryAssigned, PoolsTyped DEF Stages, SetStaged, OwnershipInvariant
<1>4. ASSUME NEW p \in Roles, NEW j \in Inst(p), NEW x \in Requests, staged'[p][j][x] # None
      PROVE  \/ staged'[p][j][x] = staged[p][j][x] /\ At(p, j, staged[p][j][x]) # a
             \/ mem'[At(p, j, staged'[p][j][x])] = Output(x, p)
  <2>1. CASE p = q /\ j = i /\ x = r
    <3>1. staged'[p][j][x] = s
      BY Zenon, <1>3, <2>1 DEF Assigned, Register
    <3>2. QED  BY Zenon, <1>2, <2>1, <3>1
  <2>2. CASE p = q /\ j = i /\ x # r
    <3>1. staged'[p][j][x] = staged[p][j][x]
      BY Zenon, <1>3, <2>2 DEF Assigned, Register
    <3>2. QED  BY Zenon, <1>1, <2>2, <3>1 DEF At, Stages
  <2>3. CASE ~(p = q /\ j = i)
    <3>1. staged'[p][j] = staged[p][j]
      BY Zenon, <1>3, <2>3 DEF Assigned
    <3>2. QED  BY Zenon, <1>1, <2>3, <3>1 DEF At
  <2>4. QED  BY Zenon, <2>1, <2>2, <2>3
<1>5. \A x \in Requests \ {m.id} : \A p \in Receivers : \A j \in Inst(p) :
        Lands(x, p, j) => transfer[x].addr # a
  BY ZenonT(60), <1>1 DEF Lands, Stages
<1>6. QED  BY Zenon, <1>2, <1>4, <1>5 DEF WritesOnly

(* _disagg_encoder_step stages the output of its own request.              *)
LEMMA EncoderStepData ==
  ASSUME SlotInvariant, OwnershipInvariant, DataInvariant, UNCHANGED serverVars,
         NEW m \in net, EncoderStep(m)
  PROVE  DataInvariant'
<1> DEFINE i == m.inst
           r == m.id
           A == allocated["encoder"][i]
<1>1. m.type = "REQUEST"
  BY Zenon DEF EncoderStep
<1>2. /\ m \in Tokens(net) /\ r \in Requests /\ i \in Inst("encoder") /\ "encoder" \in Roles
      /\ Apart(Fixed("encoder"), A, staged["encoder"][i], receives["encoder"][i])
  BY Zenon, <1>1, MessageKnown DEF TokenOK
<1>3. \A size, k : k = STAGED(i, r, size) \/ k = ERROR(i, r) => CarriesOwnData(k)'
  BY DEF CarriesOwnData, STAGED, ERROR
<1>4. ASSUME NEW s \in Slots \ A, NEW size, SetStaged("encoder", i, r, s),
             mem' = [mem EXCEPT ![At("encoder", i, s)] = Output(r, "encoder")],
             net' = (net \ {m}) \cup {STAGED(i, r, size)}
      PROVE  DataInvariant'
  <2>1. SendsTruth(m)
    BY Zenon, <1>3, <1>4 DEF Tokens, SendsTruth
  <2>2. \A x \in Requests : staged["encoder"][i][x] # s
    BY Zenon, <1>2, <1>4, SlotsAreSlots DEF Apart
  <2>3. "encoder" \notin Receivers
    BY Zenon DEF Receivers
  <2>4. WritesOnly(m, At("encoder", i, s))
    BY Zenon, <1>2, <1>4, <2>2, <2>3, OutputStaged DEF Stages
  <2>5. QED  BY Zenon, <1>2, <2>1, <2>4, RoleWrites
<1>5. CASE net' = (net \ {m}) \cup {ERROR(i, r)} /\ UNCHANGED <<staged, mem>>
  <2>1. SendsTruth(m)
    BY Zenon, <1>3, <1>5 DEF Tokens, SendsTruth
  <2>2. QED  BY Zenon, <1>2, <1>5, <2>1, RoleReads
<1>6. QED  BY Zenon, <1>4, <1>5 DEF EncoderStep, Reply1

(* _disagg_denoiser_compute stages its output where neither an output nor  *)
(* an input of another request is.                                         *)
LEMMA DenoiserComputeData ==
  ASSUME SlotInvariant, OwnershipInvariant, DataInvariant, UNCHANGED serverVars,
         NEW m \in net, DenoiserCompute(m)
  PROVE  DataInvariant'
<1> DEFINE q == "denoiser"
           i == m.inst
           r == m.id
           P == ReleasedPool(m)
<1>1. m.type = "COMPUTE" /\ m.role = q
  BY Zenon DEF DenoiserCompute
<1>2. /\ m \in Tokens(net) /\ r \in Requests /\ i \in Inst(q) /\ q \in Roles
      /\ receives[q][i] \in Register
      /\ Apart(Prealloc, P, staged[q][i], [receives[q][i] EXCEPT ![r] = None])
  BY Zenon, <1>1, MessageKnown, ComputeReleases DEF Fixed
<1>3. Run(m) = Output(r, q)
  BY Zenon, <1>1, <1>2 DEF Run, DataInvariant, CarriesOwnData
<1>4. \A err, size, k : k = DONE(i, r, err, size) => CarriesOwnData(k)'
  BY DEF CarriesOwnData, DONE
<1> HIDE DEF P
<1>5. ASSUME NEW s \in Slots \ P, NEW size, SetStaged(q, i, r, s),
             mem' = [mem EXCEPT ![At(q, i, s)] = Run(m)],
             net' = (net \ {m}) \cup {DONE(i, r, FALSE, size)}
      PROVE  DataInvariant'
  <2>1. SendsTruth(m)
    BY Zenon, <1>4, <1>5 DEF Tokens, SendsTruth
  <2>2. \A x \in Requests : staged[q][i][x] # s
    BY ZenonT(60), <1>2, <1>5, SlotsAreSlots DEF Apart
  <2>3. ASSUME NEW x \in Requests \ {r}, Lands(x, q, i)
        PROVE  transfer[x].addr.slot # s
    <3>1. transfer[x].pre # None => transfer[x].addr.slot \in Prealloc
      BY Zenon, <2>3 DEF Lands, OwnershipInvariant, ClaimsApart, Claims, ClaimOK
    <3>2. transfer[x].pre = None => /\ transfer[x].addr.slot = receives[q][i][x]
                                    /\ receives[q][i][x] # None
      BY Zenon, <2>3, SlotsAreSlots DEF Lands, Addr
    <3>3. receives[q][i][x] # None => receives[q][i][x] \in P
      BY Zenon, <1>2 DEF Apart, Register
    <3>4. QED  BY <1>2, <1>5, <3>1, <3>2, <3>3 DEF Apart
  <2>4. mem' = [mem EXCEPT ![At(q, i, s)] = Output(r, q)]
    BY Zenon, <1>3, <1>5
  <2>5. WritesOnly(m, At(q, i, s))
    BY Zenon, <1>2, <1>5, <2>2, <2>3, <2>4, OutputStaged DEF Stages
  <2>6. QED  BY Zenon, <1>2, <2>1, <2>5, RoleWrites
<1>6. CASE net' = (net \ {m}) \cup {DONE(i, r, TRUE, 0)} /\ UNCHANGED <<staged, mem>>
  <2>1. SendsTruth(m)
    BY Zenon, <1>4, <1>6 DEF Tokens, SendsTruth
  <2>2. QED  BY Zenon, <1>2, <1>6, <2>1, RoleReads
<1>7. QED  BY Zenon, <1>5, <1>6 DEF DenoiserCompute, Reply1, P

(* An RDMA push that succeeds copies the request's data into the block     *)
(* where it is to land.                                                    *)
LEMMA RdmaPushData ==
  ASSUME SlotInvariant, OwnershipInvariant, DataInvariant, UNCHANGED serverVars,
         "rdma" \notin Faults, NEW m \in net, RdmaPush(m)
  PROVE  DataInvariant'
<1> DEFINE q == m.role
           i == m.inst
           r == m.id
           a == m.addr
           s == staged[q][i][r]
<1>1. /\ m.type = "PUSH" /\ net' = (net \ {m}) \cup {PUSHED(q, i, r)}
      /\ \/ /\ s # None /\ mem' = [mem EXCEPT ![a] = mem[At(q, i, s)]]
            /\ SetStaged(q, i, r, None)
         \/ s = None /\ UNCHANGED <<staged, mem>>
  BY Zenon DEF RdmaPush, Reply1
<1>2. /\ m \in Tokens(net) /\ r \in Requests /\ q \in Roles /\ i \in Inst(q) /\ PushOK(m)
      /\ staged[q][i] \in Register
  BY Zenon, <1>1, MessageKnown DEF TokenOK
<1>3. tracker' = tracker /\ transfer' = transfer
  BY Zenon DEF serverVars
<1>4. /\ a.role \in Receivers /\ a.inst \in Inst(a.role) /\ Lands(r, a.role, a.inst)
      /\ transfer[r].addr = a /\ (Tracked(tracker, r) => s # None)
  BY Zenon, <1>2 DEF PushOK, HasStaged
<1>5. \A k : k = PUSHED(q, i, r) =>
        k.type = "PUSHED" /\ k.id = r /\ k.role = q
  BY DEF PUSHED
<1>6. ASSUME s # None, mem' = [mem EXCEPT ![a] = mem[At(q, i, s)]], SetStaged(q, i, r, None)
      PROVE  DataInvariant'
  <2>1. /\ a \in AllAddr /\ DOMAIN mem = AllAddr /\ a = At(a.role, a.inst, a.slot)
        /\ \A x \in Requests : staged[a.role][a.inst][x] # None =>
             staged[a.role][a.inst][x] # a.slot
    BY <1>2, <1>4, LandsAllocated, PoolsTyped DEF OwnershipInvariant
  <2>2. mem[At(q, i, s)] = Output(r, q)
    BY Zenon, <1>2, <1>6 DEF DataInvariant
  <2>3. mem'[a] = Output(r, q) /\ \A b \in AllAddr : b # a => mem'[b] = mem[b]
    BY Zenon, <1>6, <2>1, <2>2
  <2>4. Assigned(staged', staged, Register, q, i, [staged[q][i] EXCEPT ![r] = None])
    BY Zenon, <1>2, <1>6, EntryAssigned, PoolsTyped DEF SetStaged, OwnershipInvariant
  <2> HIDE DEF q, i, r, a, s
  <2>5. ASSUME NEW p \in Roles, NEW j \in Inst(p), NEW x \in Requests, staged'[p][j][x] # None
        PROVE  staged'[p][j][x] = staged[p][j][x] /\ At(p, j, staged[p][j][x]) # a
    <3>1. staged'[p][j][x] = staged[p][j][x]
      BY <1>2, <2>4, <2>5 DEF Assigned, Register
    <3>2. QED  BY <2>1, <2>5, <3>1 DEF At
  <2>6. ASSUME NEW x \in Requests \ {m.id}, NEW p \in Receivers, NEW j \in Inst(p), Lands(x, p, j)
        PROVE  transfer[x].addr # a
    BY Zenon, <1>2, <1>4, <2>6, LandsApart DEF r
  <2>7. WritesOnly(m, a)
    BY Zenon, <2>3, <2>5, <2>6 DEF WritesOnly
  <2>8. \A k : k = PUSHED(q, i, r) => CarriesOwnData(k)'
    BY Zenon, <1>3, <1>4, <1>5, <2>3 DEF CarriesOwnData
  <2>9. SendsTruth(m)
    BY Zenon, <1>1, <2>8 DEF SendsTruth, Tokens
  <2>10. QED  BY ZenonT(60), <1>2, <2>7, <2>9, RoleWrites
<1>7. ASSUME s = None, UNCHANGED <<staged, mem>>
      PROVE  DataInvariant'
  <2>1. \A k : k = PUSHED(q, i, r) => CarriesOwnData(k)'
    BY Zenon, <1>3, <1>4, <1>5, <1>7 DEF CarriesOwnData
  <2>2. SendsTruth(m)
    BY Zenon, <1>1, <2>1 DEF SendsTruth, Tokens
  <2>3. QED  BY Zenon, <1>2, <1>7, <2>2, RoleReads
<1>8. QED  BY Zenon, <1>1, <1>6, <1>7

(* _handle_transfer_alloc moves no data.                                   *)
LEMMA HandleAllocData ==
  ASSUME SlotInvariant, OwnershipInvariant, DataInvariant, UNCHANGED serverVars,
         NEW m \in net, HandleAlloc(m)
  PROVE  DataInvariant'
<1>1. /\ m.type = "ALLOC" /\ UNCHANGED <<staged, mem>>
      /\ \/ net' = net \ {m}
         \/ \E b : net' = (net \ {m}) \cup {ALLOCATED(m.role, m.inst, m.id, b)}
  BY Zenon DEF HandleAlloc, Reply1
<1>2. \A b, k : k = ALLOCATED(m.role, m.inst, m.id, b) => CarriesOwnData(k)'
  BY DEF CarriesOwnData, ALLOCATED
<1>3. SendsTruth(m)
  BY Zenon, <1>1, <1>2 DEF SendsTruth, Tokens
<1>4. QED  BY Zenon, <1>1, <1>3, RoleReads, MessageKnown

(* _prefetch_transfer_ready loads the data that has landed.                *)
LEMMA PrefetchData ==
  ASSUME SlotInvariant, OwnershipInvariant, DataInvariant, UNCHANGED serverVars,
         NEW m \in net, Prefetch(m)
  PROVE  DataInvariant'
<1> DEFINE q == m.role
           i == m.inst
           r == m.id
           s == IF m.pre # None THEN m.pre ELSE receives[q][i][r]
<1>1. /\ m.type = "READY" /\ UNCHANGED <<staged, mem>>
      /\ net' = net \ {m} \/ net' = (net \ {m}) \cup {COMPUTE(q, i, r, m.pre, mem[At(q, i, s)])}
  BY Zenon DEF Prefetch, Reply1
<1>2. /\ m \in Tokens(net) /\ r \in Requests /\ q \in Roles /\ i \in Inst(q) /\ ReadyOK(m)
  BY Zenon, <1>1, MessageKnown DEF TokenOK
<1>3. s = transfer[r].addr.slot
  BY Zenon, <1>1, ReadySlot
<1> HIDE DEF s
<1>4. transfer[r].addr = At(q, i, s)
  BY Zenon, <1>2, <1>3, LandsAllocated DEF ReadyOK
<1>5. mem[At(q, i, s)] = Output(r, Upstream(q))
  BY Zenon, <1>1, <1>2, <1>4 DEF DataInvariant, CarriesOwnData
<1>6. \A k : k = COMPUTE(q, i, r, m.pre, mem[At(q, i, s)]) =>
        k.type = "COMPUTE" /\ k.id = r /\ k.role = q /\ k.data = Output(r, Upstream(q))
  BY <1>5 DEF COMPUTE
<1>7. SendsTruth(m)
  <2>1. \A k : k = COMPUTE(q, i, r, m.pre, mem[At(q, i, s)]) => CarriesOwnData(k)'
    BY Zenon, <1>6 DEF CarriesOwnData
  <2>2. QED  BY Zenon, <1>1, <2>1 DEF SendsTruth, Tokens
<1>8. QED  BY Zenon, <1>1, <1>2, <1>7, RoleReads

(* _disagg_decoder_compute makes the result from the request's own latents.*)
LEMMA DecoderComputeData ==
  ASSUME SlotInvariant, OwnershipInvariant, DataInvariant, UNCHANGED serverVars,
         NEW m \in net, DecoderCompute(m)
  PROVE  DataInvariant'
<1>1. /\ m.type = "COMPUTE" /\ m.role = "decoder" /\ UNCHANGED <<staged, mem>>
      /\ \/ net' = (net \ {m}) \cup {OUTPUT(m.inst, m.id, FALSE, Run(m))}
         \/ net' = (net \ {m}) \cup {OUTPUT(m.inst, m.id, TRUE, None)}
  BY Zenon DEF DecoderCompute, Reply1
<1>2. m \in Tokens(net)
  BY Zenon, <1>1, MessageKnown
<1>3. Run(m) = Output(m.id, "decoder")
  BY Zenon, <1>1, <1>2 DEF Run, DataInvariant, CarriesOwnData
<1>4. \A k : k = OUTPUT(m.inst, m.id, FALSE, Run(m)) =>
        k.type = "OUTPUT" /\ k.id = m.id /\ k.data = Output(m.id, "decoder")
  BY <1>3 DEF OUTPUT
<1>5. \A k : k = OUTPUT(m.inst, m.id, TRUE, None) => k.type = "OUTPUT" /\ k.error
  BY DEF OUTPUT
<1>6. \A k : k \in {OUTPUT(m.inst, m.id, FALSE, Run(m)), OUTPUT(m.inst, m.id, TRUE, None)}
              => CarriesOwnData(k)'
  BY Zenon, <1>4, <1>5 DEF CarriesOwnData
<1>7. SendsTruth(m)
  BY Zenon, <1>1, <1>6 DEF SendsTruth, Tokens
<1>8. QED  BY Zenon, <1>1, <1>2, <1>7, RoleReads

(* A handler that raises sends nothing and stages nothing.                 *)
LEMMA HandlerRaisesData ==
  ASSUME SlotInvariant, OwnershipInvariant, DataInvariant, UNCHANGED serverVars,
         NEW m \in net, HandlerRaises(m)
  PROVE  DataInvariant'
<1>1. /\ m.type \in {"REQUEST", "PUSH", "ALLOC", "READY", "COMPUTE"}
      /\ UNCHANGED <<staged, mem>> /\ net' = net \ {m}
  BY Zenon DEF HandlerRaises
<1>2. m \in Tokens(net) /\ SendsTruth(m)
  BY Zenon, <1>1 DEF SendsTruth, Tokens
<1>3. QED  BY Zenon, <1>1, <1>2, RoleReads

(* So every step of a role instance keeps the data in place.               *)
LEMMA RolesData ==
  ASSUME SlotInvariant, OwnershipInvariant, DataInvariant, "rdma" \notin Faults,
         RolesNext, UNCHANGED serverVars
  PROVE  DataInvariant'
BY ZenonT(60), EncoderStepData, RdmaPushData, HandleAllocData, PrefetchData, DenoiserComputeData,
   DecoderComputeData, HandlerRaisesData DEF RolesNext

-------------------------------------------------------------------------------
(* Steps of the server: it touches no data, and says only what is true.    *)

(* A step of the server about request r.                                   *)
ServerTruth(r) ==
  /\ \A k \in Tokens(net') : (k \in net /\ k.id # r) \/ CarriesOwnData(k)'
  /\ \A x \in Requests \ {r} : /\ transfer'[x] = transfer[x]
                               /\ tracker'[x] = tracker[x] \/ tracker'[x] = None

(* It keeps the data of all requests in place if its replies do.           *)
LEMMA ServerKeepsData ==
  ASSUME SlotInvariant, DataInvariant, UNCHANGED roleVars, NEW r, ServerTruth(r),
         RepliesAreOwn'
  PROVE  DataInvariant'
<1>1. staged' = staged /\ mem' = mem
  BY Zenon DEF roleVars
<1>2. ASSUME NEW k \in Tokens(net')
      PROVE  CarriesOwnData(k)'
  <2>1. CASE k \in net /\ k.id # r
    <3>1. k \in Tokens(net) /\ k.id \in Requests \ {r} /\ CarriesOwnData(k)
      BY Zenon, <1>2, <2>1 DEF Tokens, SlotInvariant, OneToken, DataInvariant
    <3>2. transfer'[k.id] = transfer[k.id] /\ (Tracked(tracker', k.id) => Tracked(tracker, k.id))
      BY Zenon, <3>1 DEF ServerTruth, Tracked
    <3>3. QED  BY Zenon, <1>1, <3>1, <3>2 DEF CarriesOwnData
  <2>2. QED  BY Zenon, <1>2, <2>1 DEF ServerTruth
<1>3. QED  BY Zenon, <1>1, <1>2 DEF DataInvariant

(* A handler changes the records of its own request only.                  *)
LEMMA HandlerLeavesOthers ==
  ASSUME SlotInvariant, NEW m \in net, NEW x \in Requests \ {m.id},
         \/ HandleError(m) \/ HandleStaged(m) \/ HandleAllocated(m)
         \/ HandlePushed(m) \/ HandleDone(m) \/ HandleOutput(m)
  PROVE  transfer'[x] = transfer[x] /\ tracker'[x] = tracker[x]
<1>1. DOMAIN transfer = Requests /\ DOMAIN tracker = Requests
  BY Zenon DEF SlotInvariant, ServerTypeOK
<1>2. \A v : [transfer EXCEPT ![m.id] = v][x] = transfer[x]
  BY Zenon, <1>1
<1>3. transfer' = transfer \/ \E v : transfer' = [transfer EXCEPT ![m.id] = v]
  <2>1. CASE HandleError(m) \/ HandlePushed(m)
    BY Zenon, <2>1 DEF HandleError, HandlePushed
  <2>2. CASE HandleStaged(m)
    BY Zenon, <2>2 DEF HandleStaged
  <2>3. CASE HandleAllocated(m)
    BY Zenon, <2>3 DEF HandleAllocated
  <2>4. CASE HandleDone(m)
    BY Zenon, <2>4 DEF HandleDone
  <2>5. CASE HandleOutput(m)
    BY Zenon, <2>5 DEF HandleOutput
  <2>6. QED  BY Zenon, <2>1, <2>2, <2>3, <2>4, <2>5
<1>4. \/ tracker' = tracker
      \/ tracker' = Remove(tracker, m.id)
      \/ \E new : tracker' = Transition(tracker, m.id, new)
      \/ \E mid, new : tracker' = Transition(Transition(tracker, m.id, mid), m.id, new)
  <2>1. CASE HandleError(m) \/ HandleOutput(m)
    BY Zenon, <2>1 DEF HandleError, HandleOutput, Complete
  <2>2. CASE HandleStaged(m)
    BY Zenon, <2>2 DEF HandleStaged
  <2>3. CASE HandleAllocated(m) \/ HandlePushed(m)
    BY Zenon, <2>3 DEF HandleAllocated, HandlePushed
  <2>4. CASE HandleDone(m)
    BY Zenon, <2>4 DEF HandleDone, Complete
  <2>5. QED  BY Zenon, <2>1, <2>2, <2>3, <2>4
<1>5. tracker'[x] = tracker[x]
  <2>1. \A mid, new : Transition(Transition(tracker, m.id, mid), m.id, new)[x] = tracker[x]
    <3> TAKE mid, new
    <3> DEFINE u == Transition(tracker, m.id, mid)
    <3>1. DOMAIN u = Requests /\ u[x] = tracker[x]
      BY Zenon, <1>1 DEF Transition
    <3> HIDE DEF u
    <3>2. Transition(u, m.id, new)[x] = u[x]
      BY Zenon, <3>1 DEF Transition
    <3>3. QED  BY Zenon, <3>1, <3>2 DEF u
  <2>2. /\ Remove(tracker, m.id)[x] = tracker[x]
        /\ \A new : Transition(tracker, m.id, new)[x] = tracker[x]
    BY Zenon, <1>1 DEF Remove, Transition
  <2>3. QED  BY Zenon, <1>4, <2>1, <2>2
<1>6. QED  BY Zenon, <1>2, <1>3, <1>5

(* Each message handler of the server says only what is true: it announces *)
(* data (READY) only after the PUSHED of a tracked request.                *)
LEMMA HandlerTruth ==
  ASSUME SlotInvariant, OwnershipInvariant, DataInvariant, UNCHANGED roleVars,
         NEW m \in net,
         \/ HandleError(m) \/ HandleStaged(m) \/ HandleAllocated(m)
         \/ HandlePushed(m) \/ HandleDone(m) \/ HandleOutput(m)
  PROVE  ServerTruth(m.id)
<1> DEFINE r == m.id
<1>1. m.type # "REGISTER"
  BY Zenon DEF HandleError, HandleStaged, HandleAllocated, HandlePushed, HandleDone, HandleOutput
<1>2. m \in Tokens(net) /\ r \in Requests /\ TokenOK(m) /\ m.role \in Roles
  BY Zenon, <1>1, MessageKnown
<1>3. \A k \in Tokens(net') : k \in net /\ k # m => k \in net /\ k.id # r
  BY Zenon, <1>2 DEF SlotInvariant, OneToken, Tokens
<1>4. ASSUME NEW k \in Tokens(net'), k \notin net \ {m}
      PROVE  CarriesOwnData(k)'
  <2>1. CASE HandleAllocated(m)
    <3>1. \E q, i, b, size : net' \subseteq (net \ {m}) \cup {PUSH(q, i, r, b, size)}
      BY Zenon, <2>1 DEF HandleAllocated
    <3>2. k.type = "PUSH"
      BY <1>4, <3>1 DEF PUSH, Tokens
    <3>3. QED  BY Zenon, <3>2 DEF CarriesOwnData
  <2>2. CASE HandlePushed(m)
    <3>1. PICK q \in Receivers :
            /\ k = READY(q, transfer[r].receiver, r, transfer[r].pre)
            /\ InState(tracker, r, IF q = "denoiser" THEN InDenoising ELSE InDecoding)
      BY Zenon, <1>4, <2>2 DEF HandlePushed, Tokens, Receivers
    <3>2. k.type = "READY" /\ k.id = r /\ k.role = q
      BY Zenon, <3>1 DEF READY
    <3>3. m.type = "PUSHED" /\ Tracked(tracker, r) /\ transfer' = transfer /\ mem' = mem
      BY Zenon, <2>2, <3>1 DEF HandlePushed, InState, roleVars
    <3>4. mem[transfer[r].addr] = Output(r, m.role)
      BY Zenon, <1>2, <3>3 DEF DataInvariant, CarriesOwnData
    <3>5. m.role = Upstream(q)
      <4>1. \E p \in Receivers : m.role = Upstream(p)
        BY Zenon, <1>2, <3>3 DEF TokenOK, PushedOK
      <4>2. tracker[r].state = IF m.role = "encoder" THEN "DENOISING_RUNNING"
                               ELSE "DECODER_RUNNING"
        BY Zenon, <1>2, <3>3 DEF SlotInvariant, TokenState, StateOf
      <4>3. q = "denoiser" <=> m.role = "encoder"
        BY Zenon, <3>1, <4>2 DEF InState, InDenoising, InDecoding, Receivers
      <4>4. QED  BY Zenon, <3>1, <4>1, <4>3 DEF Upstream, Receivers
    <3>6. QED  BY Zenon, <3>2, <3>3, <3>4, <3>5 DEF CarriesOwnData
  <2>3. CASE HandleError(m) \/ HandleStaged(m) \/ HandleDone(m) \/ HandleOutput(m)
    <3>1. net' = net \ {m}
      BY Zenon, <2>3 DEF HandleError, HandleStaged, HandleDone, HandleOutput
    <3>2. QED  BY Zenon, <1>4, <3>1 DEF Tokens
  <2>4. QED  BY Zenon, <2>1, <2>2, <2>3
<1>5. QED  BY Zenon, <1>3, <1>4, HandlerLeavesOthers DEF ServerTruth

(* A dispatch says nothing about data.                                     *)
LEMMA DispatchTruth ==
  ASSUME SlotInvariant, NEW role \in Roles, NEW e \in tta[role], NEW i, NEW state,
         Dispatch(role, e, i, state),
         \A k \in net' : k \in net \/ k.type \in {"REQUEST", "PUSH", "ALLOC"},
         \A x \in Requests \ {e.id} : transfer'[x] = transfer[x]
  PROVE  ServerTruth(e.id)
<1>1. DOMAIN tracker = Requests /\ tracker' = TransitionAt(tracker, e.id, state, role, i)
  BY Zenon DEF SlotInvariant, ServerTypeOK, Dispatch
<1>2. \A x \in Requests \ {e.id} : tracker'[x] = tracker[x]
  BY Zenon, <1>1 DEF TransitionAt
<1>3. InQueue(e.id, role)
  BY Zenon DEF InQueue
<1>4. \A k \in Tokens(net') : k \in net => k.id # e.id
  BY Zenon, <1>3 DEF Tokens, SlotInvariant, OneToken
<1>5. \A k \in Tokens(net') : (k \in net /\ k.id # e.id) \/ CarriesOwnData(k)'
  <2> SUFFICES ASSUME NEW k \in Tokens(net'), k \notin net
               PROVE  CarriesOwnData(k)'
    BY Zenon, <1>4
  <2>1. k.type \in {"REQUEST", "PUSH", "ALLOC"}
    BY Zenon DEF Tokens
  <2>2. QED  BY Zenon, <2>1 DEF CarriesOwnData
<1>6. QED  BY Zenon, <1>2, <1>5 DEF ServerTruth

(* A step that sends nothing and starts to track no request says nothing.  *)
LEMMA SilentTruth ==
  ASSUME SlotInvariant, DataInvariant, UNCHANGED roleVars, net' \subseteq net,
         transfer' = transfer, NEW r, \A k \in Tokens(net) : k.id # r,
         \A x \in Requests \ {r} : tracker'[x] = tracker[x] \/ tracker'[x] = None
  PROVE  ServerTruth(r)
BY Zenon DEF ServerTruth, Tokens

(* Every step of the server.                                               *)
LEMMA ServerSaysTruth ==
  ASSUME SlotInvariant, OwnershipInvariant, DataInvariant, ServerNext, UNCHANGED roleVars
  PROVE  \E r : ServerTruth(r)
<1>0. DOMAIN tracker = Requests /\ DOMAIN transfer = Requests
  BY Zenon DEF SlotInvariant, ServerTypeOK
<1>a. \A k \in Tokens(net) : k.id \in Requests /\ k.id # None
  BY Zenon, DeploymentAssumption DEF SlotInvariant, OneToken
<1>1. CASE Poll
  <2> DEFINE T == FindTimedOut(tracker, horizon)
  <2>1. /\ tracker' = [x \in Requests |-> IF x \in T THEN None ELSE tracker[x]]
        /\ UNCHANGED <<transfer, net>>
    BY Zenon, <1>1 DEF Poll, HandleTimeouts
  <2> HIDE DEF T
  <2>2. \A x \in Requests : tracker'[x] = tracker[x] \/ tracker'[x] = None
    BY Zenon, <2>1
  <2>3. ServerTruth(None)
    BY Zenon, <1>a, <2>1, <2>2, SilentTruth
  <2>4. QED  BY Zenon, <2>3
<1>2. ASSUME NEW c \in Clients, HandleClientRequest(c)
      PROVE  \E r : ServerTruth(r)
  <2>1. /\ inbox[c] = "sent" /\ UNCHANGED <<transfer, net>>
        /\ \/ tracker' = tracker
           \/ tracker' = Transition(Submit(tracker, IdOf[c], now + 1), IdOf[c], "ENCODER_WAITING")
    BY Zenon, <1>2 DEF HandleClientRequest
  <2>2. \A k \in Tokens(net) : k.id # IdOf[c]
    BY Zenon, <1>2, <1>a, <2>1 DEF SlotInvariant, FreshRequests
  <2>3. \A x \in Requests \ {IdOf[c]} : tracker'[x] = tracker[x]
    <3> DEFINE u == Submit(tracker, IdOf[c], now + 1)
    <3>1. DOMAIN u = Requests /\ \A x \in Requests \ {IdOf[c]} : u[x] = tracker[x]
      BY Zenon, <1>0 DEF Submit
    <3> HIDE DEF u
    <3>2. \A x \in Requests \ {IdOf[c]} : Transition(u, IdOf[c], "ENCODER_WAITING")[x] = u[x]
      BY Zenon, <3>1 DEF Transition
    <3>3. QED  BY Zenon, <2>1, <3>1, <3>2 DEF u
  <2>4. ServerTruth(IdOf[c])
    BY Zenon, <2>1, <2>2, <2>3, SilentTruth
  <2>5. QED  BY Zenon, <2>4
<1>3. ASSUME NEW m \in net, HandleRegister(m)
      PROVE  \E r : ServerTruth(r)
  <2>1. net' \subseteq net /\ UNCHANGED <<transfer, tracker>>
    BY Zenon, <1>3 DEF HandleRegister
  <2>2. ServerTruth(None)
    BY Zenon, <1>a, <2>1, SilentTruth
  <2>3. QED  BY Zenon, <2>2
<1>4. ASSUME NEW i \in Inst("encoder"), NEW e \in tta["encoder"], DispatchToEncoder(e, i)
      PROVE  \E r : ServerTruth(r)
  <2>1. Dispatch("encoder", e, i, "ENCODER_RUNNING") /\ "encoder" \in Roles /\ transfer' = transfer
    BY Zenon, <1>4 DEF DispatchToEncoder, Roles
  <2>2. \A k \in net' : k \in net \/ k.type \in {"REQUEST", "PUSH", "ALLOC"}
    BY <1>4 DEF DispatchToEncoder, REQUEST
  <2>3. ServerTruth(e.id)
    BY Zenon, <2>1, <2>2, DispatchTruth
  <2>4. QED  BY Zenon, <2>3
<1>5. ASSUME NEW role \in Receivers, NEW i \in Inst(role), NEW e \in tta[role],
             DispatchTransfer(role, e, i)
      PROVE  \E r : ServerTruth(r)
  <2>1. role \in Roles /\ \E state : Dispatch(role, e, i, state)
    BY Zenon, <1>5 DEF DispatchTransfer, Receivers, Roles
  <2>2. \A k \in net' : k \in net \/ k.type \in {"REQUEST", "PUSH", "ALLOC"}
    BY <1>5 DEF DispatchTransfer, PUSH, ALLOC
  <2>3. \E v : transfer' = [transfer EXCEPT ![e.id] = v]
    BY Zenon, <1>5 DEF DispatchTransfer
  <2>4. \A x \in Requests \ {e.id} : transfer'[x] = transfer[x]
    BY Zenon, <1>0, <2>3
  <2>5. ServerTruth(e.id)
    BY Zenon, <2>1, <2>2, <2>4, DispatchTruth
  <2>6. QED  BY Zenon, <2>5
<1>6. ASSUME NEW m \in net,
             \/ HandleError(m) \/ HandleStaged(m) \/ HandleAllocated(m)
             \/ HandlePushed(m) \/ HandleDone(m) \/ HandleOutput(m)
      PROVE  \E r : ServerTruth(r)
  BY Zenon, <1>6, HandlerTruth
<1>7. QED  BY Zenon, <1>1, <1>2, <1>3, <1>4, <1>5, <1>6 DEF ServerNext

-------------------------------------------------------------------------------
(* Replies.                                                                *)

(* A client is told its own result, or nothing more than it was.           *)
ToldOwn(c) ==
  \/ replies'[c] = replies[c]
  \/ \E reply : /\ replies[c] = <<>> /\ replies'[c] = Append(<<>>, reply)
                /\ reply.kind = "ok" => reply.data = Output(IdOf[c], "decoder")

(* That keeps every reply its client's own.                                *)
LEMMA OwnReplies ==
  ASSUME RepliesAreOwn, \A c \in Clients : ToldOwn(c)
  PROVE  RepliesAreOwn'
<1> SUFFICES ASSUME NEW c \in Clients, NEW k \in 1 .. Len(replies'[c]),
                    replies'[c][k].kind = "ok"
             PROVE  replies'[c][k].data = Output(IdOf[c], "decoder")
  BY Zenon DEF RepliesAreOwn
<1>1. CASE replies'[c] = replies[c]
  BY Zenon, <1>1 DEF RepliesAreOwn
<1>2. ASSUME NEW reply, replies'[c] = Append(<<>>, reply),
             reply.kind = "ok" => reply.data = Output(IdOf[c], "decoder")
      PROVE  replies'[c][k].data = Output(IdOf[c], "decoder")
  <2>1. Len(Append(<<>>, reply)) = 1 /\ Append(<<>>, reply)[1] = reply
    OBVIOUS
  <2>2. k = 1
    BY <1>2, <2>1
  <2>3. QED  BY Zenon, <1>2, <2>1, <2>2
<1>3. QED  BY Zenon, <1>1, <1>2 DEF ToldOwn

(* The end of request r: the client that waits for it is told.             *)
LEMMA CompleteTells ==
  ASSUME AnswerInvariant, RepliesAreOwn, NEW r \in Requests, NEW kind, NEW data,
         Complete(r, kind, data), kind = "ok" => data = Output(r, "decoder")
  PROVE  RepliesAreOwn'
<1> DEFINE c == pending[r]
           reply == [kind |-> kind, data |-> data]
<1>1. CASE c = None
  BY Zenon, <1>1 DEF Complete, ReplyTo, RepliesAreOwn
<1>2. CASE c # None
  <2>1. c \in Clients /\ IdOf[c] = r /\ replies[c] = <<>> /\ DOMAIN replies = Clients
    BY Zenon, <1>2 DEF AnswerInvariant, WaitingOnly
  <2>2. replies' = [replies EXCEPT ![c] = Append(@, reply)]
    BY Zenon, <1>2 DEF Complete, ReplyTo
  <2>3. reply.kind = kind /\ reply.data = data
    BY Zenon
  <2> HIDE DEF c, reply
  <2>4. replies'[c] = Append(<<>>, reply) /\ \A d \in Clients \ {c} : replies'[d] = replies[d]
    BY Zenon, <2>1, <2>2
  <2>5. \A d \in Clients : ToldOwn(d)
    BY Zenon, <2>1, <2>3, <2>4 DEF ToldOwn
  <2>6. QED  BY Zenon, <2>5, OwnReplies
<1>3. QED  BY Zenon, <1>1, <1>2

(* Every step of the server.                                               *)
LEMMA ServerReplies ==
  ASSUME SlotInvariant, AnswerInvariant, DataInvariant, ServerNext
  PROVE  RepliesAreOwn'
<1>0. RepliesAreOwn
  BY Zenon DEF DataInvariant
<1>1. CASE replies' = replies
  BY Zenon, <1>0, <1>1 DEF RepliesAreOwn
<1>2. CASE Poll
  <2> DEFINE reply == [kind |-> "error", data |-> None]
             T == FindTimedOut(tracker, horizon)
  <2>1. replies' = [c \in Clients |-> IF \E r \in T : pending[r] = c
                                      THEN Append(replies[c], reply) ELSE replies[c]]
    BY Zenon, <1>2 DEF Poll, HandleTimeouts
  <2>2. reply.kind # "ok" /\ T \subseteq Requests
    BY Zenon DEF FindTimedOut
  <2> HIDE DEF reply, T
  <2>3. \A c \in Clients : (\E r \in T : pending[r] = c) => replies[c] = <<>>
    BY <2>2, DeploymentAssumption DEF AnswerInvariant, WaitingOnly
  <2>4. \A c \in Clients : ToldOwn(c)
    BY Zenon, <2>1, <2>2, <2>3 DEF ToldOwn
  <2>5. QED  BY Zenon, <1>0, <2>4, OwnReplies
<1>3. ASSUME NEW c \in Clients, HandleClientRequest(c)
      PROVE  RepliesAreOwn'
  <2> DEFINE reply == [kind |-> "ignored", data |-> None]
  <2>1. CASE replies' = ReplyTo(c, "ignored", None)
    <3>1. c # None /\ DOMAIN replies = Clients /\ replies[c] = <<>>
      BY Zenon, <1>3, DeploymentAssumption DEF AnswerInvariant, HandleClientRequest
    <3>2. replies' = [replies EXCEPT ![c] = Append(@, reply)]
      BY Zenon, <2>1, <3>1 DEF ReplyTo
    <3>3. reply.kind # "ok"
      BY Zenon
    <3> HIDE DEF reply
    <3>4. \A d \in Clients : ToldOwn(d)
      BY Zenon, <3>1, <3>2, <3>3 DEF ToldOwn
    <3>5. QED  BY Zenon, <1>0, <3>4, OwnReplies
  <2>2. QED  BY Zenon, <1>1, <1>3, <2>1 DEF HandleClientRequest
<1>4. ASSUME NEW m \in net,
             \/ HandleRegister(m) \/ HandleError(m) \/ HandleStaged(m)
             \/ HandleAllocated(m) \/ HandlePushed(m) \/ HandleDone(m) \/ HandleOutput(m)
      PROVE  RepliesAreOwn'
  <2>1. \/ replies' = replies
        \/ m.type # "REGISTER" /\ Complete(m.id, "error", None)
        \/ HandleOutput(m)
    BY Zenon, <1>4 DEF HandleRegister, HandleError, HandleStaged, HandleAllocated, HandlePushed,
                       HandleDone
  <2>2. ASSUME m.type # "REGISTER", Complete(m.id, "error", None)
        PROVE  RepliesAreOwn'
    <3>1. m.id \in Requests
      BY Zenon, <2>2 DEF Tokens, AnswerInvariant
    <3>2. QED  BY Zenon, <1>0, <2>2, <3>1, CompleteTells
  <2>3. ASSUME HandleOutput(m)
        PROVE  RepliesAreOwn'
    <3> DEFINE kind == IF m.error THEN "error" ELSE "ok"
    <3>1. m.type = "OUTPUT" /\ Complete(m.id, kind, m.data)
      BY Zenon, <2>3 DEF HandleOutput
    <3>2. m.id \in Requests /\ CarriesOwnData(m)
      BY Zenon, <3>1 DEF Tokens, AnswerInvariant, DataInvariant
    <3>3. kind = "ok" => m.data = Output(m.id, "decoder")
      BY Zenon, <3>1, <3>2 DEF CarriesOwnData
    <3> HIDE DEF kind
    <3>4. QED  BY Zenon, <1>0, <3>1, <3>2, <3>3, CompleteTells
  <2>4. QED  BY Zenon, <1>1, <2>1, <2>2, <2>3
<1>5. ASSUME NEW role, NEW i, NEW e, NEW state, Dispatch(role, e, i, state)
      PROVE  RepliesAreOwn'
  BY Zenon, <1>1, <1>5 DEF Dispatch
<1>6. QED
  BY ZenonT(60), <1>2, <1>3, <1>4, <1>5 DEF ServerNext, DispatchToEncoder, DispatchTransfer

-------------------------------------------------------------------------------
(* The whole system.                                                       *)

(* At start nothing is staged, sent or told.                               *)
LEMMA InitData == Init => DataInvariant
<1> SUFFICES ASSUME Init
             PROVE  DataInvariant
  BY Zenon
<1>1. /\ staged = [q \in Roles |-> [i \in Inst(q) |-> [r \in Requests |-> None]]]
      /\ net = UNION {{REGISTER(q, i) : i \in Inst(q)} : q \in Roles}
      /\ replies = [c \in Clients |-> <<>>]
  BY Zenon DEF Init, RolesInit, ServerInit
<1>2. \A q \in Roles : \A i \in Inst(q) : \A r \in Requests : staged[q][i][r] = None
  BY Zenon, <1>1
<1>3. Tokens(net) = {}
  <2>1. \A m \in net : \E q, i : m = REGISTER(q, i)
    BY Zenon, <1>1
  <2>2. \A q, i : REGISTER(q, i).type = "REGISTER"
    BY Zenon DEF REGISTER
  <2>3. QED  BY Zenon, <2>1, <2>2 DEF Tokens
<1>4. RepliesAreOwn
  BY <1>1 DEF RepliesAreOwn
<1>5. QED  BY Zenon, <1>2, <1>3, <1>4 DEF DataInvariant

(* A step that changes nothing that the invariant reads.                   *)
LEMMA UntouchedData ==
  ASSUME DataInvariant, UNCHANGED <<net, tracker, transfer, staged, mem, replies>>
  PROVE  DataInvariant'
BY Zenon DEF DataInvariant, CarriesOwnData, RepliesAreOwn

(* Every step keeps the data of all requests in place.                     *)
LEMMA NextData ==
  ASSUME SlotInvariant, OwnershipInvariant, AnswerInvariant, DataInvariant,
         "rdma" \notin Faults, [Next]_vars
  PROVE  DataInvariant'
<1>1. CASE \/ \E c \in Clients : ClientSend(c)
           \/ Tick /\ UNCHANGED roleVars
           \/ UNCHANGED vars
  <2>1. UNCHANGED <<net, tracker, transfer, staged, mem, replies>>
    BY Zenon, <1>1 DEF ClientSend, Tick, vars, roleVars, serverVars
  <2>2. QED  BY Zenon, <2>1, UntouchedData
<1>2. CASE ServerNext /\ UNCHANGED roleVars
  BY Zenon, <1>2, ServerSaysTruth, ServerReplies, ServerKeepsData
<1>3. CASE RolesNext /\ UNCHANGED serverVars
  BY Zenon, <1>3, RolesData
<1>4. QED  BY Zenon, <1>1, <1>2, <1>3 DEF Next
===============================================================================
