-------------------------- MODULE DisaggSlotProofs ----------------------------
(***************************************************************************)
(* SlotInvariant, which keeps the slot counters of the server within the   *)
(* capacity of their instances, is inductive for every deployment with     *)
(* unique request ids.                                                     *)
(***************************************************************************)
EXTENDS DisaggTrackerProofs

-------------------------------------------------------------------------------
(* Counting.                                                               *)

(* What the lemmas use of finite sets.  It is a hypothesis of theirs;      *)
(* CountingHolds in DisaggProofs discharges it with the library's theorems *)
(* on cardinalities.                                                       *)
Counting ==
  /\ \A S : IsFiniteSet(S) => Cardinality(S) \in Nat
  /\ \A S : IsFiniteSet(S) =>
       \A T \in SUBSET S : IsFiniteSet(T) /\ Cardinality(T) <= Cardinality(S)
  /\ \A S, T : IsFiniteSet(S) => Cardinality(S \ T) = Cardinality(S) - Cardinality(S \cap T)
  /\ \A S, x : IsFiniteSet(S) =>
       /\ IsFiniteSet(S \cup {x})
       /\ x \notin S => Cardinality(S \cup {x}) = Cardinality(S) + 1
  /\ \A x : Cardinality({x}) = 1
  /\ Cardinality({}) = 0

(* Slots given back, one for each request of F that held one and does not  *)
(* any more, keep free slots and holders within the capacity.              *)
LEMMA BoundGiveBack ==
  ASSUME Counting, NEW H, NEW H2, NEW F, IsFiniteSet(H), H2 \subseteq H \ F, F \subseteq H,
         NEW f \in Int, NEW cap \in Nat, f >= 0, f + Cardinality(H) <= cap
  PROVE  f + Cardinality(F) >= 0 /\ f + Cardinality(F) + Cardinality(H2) <= cap
<1>1. IsFiniteSet(F) /\ IsFiniteSet(H \ F) /\ IsFiniteSet(H2)
  BY Zenon DEF Counting
<1>2. Cardinality(F) \in Nat /\ Cardinality(H2) \in Nat /\ Cardinality(H \ F) \in Nat
      /\ Cardinality(H) \in Nat
  BY Zenon, <1>1 DEF Counting
<1>3. Cardinality(H2) <= Cardinality(H \ F)
  BY Zenon, <1>1 DEF Counting
<1>4. Cardinality(H \ F) = Cardinality(H) - Cardinality(F)
  <2>1. H \cap F = F
    BY Zenon
  <2>2. Cardinality(H \ F) = Cardinality(H) - Cardinality(H \cap F)
    BY Zenon DEF Counting
  <2>3. QED  BY <2>1, <2>2
<1>5. QED  BY <1>2, <1>3, <1>4

(* A free slot handed to one more request does so too.                     *)
LEMMA BoundTake ==
  ASSUME Counting, NEW H, NEW H2, NEW r, IsFiniteSet(H), H2 \subseteq H \cup {r},
         NEW f \in Int, NEW cap \in Nat, f > 0, f + Cardinality(H) <= cap
  PROVE  f - 1 >= 0 /\ f - 1 + Cardinality(H2) <= cap
<1>1. IsFiniteSet(H \cup {r}) /\ Cardinality(H \cup {r}) \in Nat /\ Cardinality(H) \in Nat
      /\ Cardinality(H \cup {r}) <= Cardinality(H) + 1
  <2>1. IsFiniteSet(H \cup {r})
    BY Zenon DEF Counting
  <2>2. Cardinality(H \cup {r}) \in Nat /\ Cardinality(H) \in Nat
    BY Zenon, <2>1 DEF Counting
  <2>3. CASE r \in H
    <3>1. H \cup {r} = H
      BY Zenon, <2>3
    <3>2. QED  BY <2>1, <2>2, <3>1
  <2>4. CASE r \notin H
    BY <2>1, <2>2, <2>4 DEF Counting
  <2>5. QED  BY Zenon, <2>3, <2>4
<1>2. Cardinality(H2) \in Nat /\ Cardinality(H2) <= Cardinality(H \cup {r})
  BY Zenon, <1>1 DEF Counting
<1>3. QED  BY <1>1, <1>2

(* Finitely many requests hold slots of an instance.                       *)
LEMMA HoldersFinite ==
  ASSUME Counting, NEW q, NEW i
  PROVE  IsFiniteSet(Holders(q, i))
<1>1. Holders(q, i) \subseteq Requests
  BY Zenon DEF Holders
<1>2. QED  BY Zenon, <1>1, DeploymentAssumption DEF Counting

(* A step that leaves the counters alone and adds no holder.               *)
LEMMA SlotBoundShrink ==
  ASSUME Counting, SlotBound, ServerTypeOK, free' = free,
         \A q \in Roles : \A i \in Inst(q) : Holders(q, i)' \subseteq Holders(q, i)
  PROVE  SlotBound'
<1> SUFFICES ASSUME NEW q \in Roles, NEW i \in Inst(q)
             PROVE  (free[q][i] >= 0 /\ free[q][i] + Cardinality(Holders(q, i)) <= Capacity[q])'
  BY Zenon DEF SlotBound
<1>1. free[q][i] \in Int /\ Capacity[q] \in Nat
  BY Zenon, ServerAssumption DEF ServerTypeOK
<1>2. free[q][i] >= 0 /\ free[q][i] + Cardinality(Holders(q, i)) <= Capacity[q]
  BY Zenon DEF SlotBound
<1>3. IsFiniteSet(Holders(q, i))
  BY Zenon, HoldersFinite
<1>4. Cardinality(Holders(q, i)') \in Nat /\ Cardinality(Holders(q, i)) \in Nat
      /\ Cardinality(Holders(q, i)') <= Cardinality(Holders(q, i))
  BY Zenon, <1>3 DEF Counting
<1>5. QED  BY <1>1, <1>2, <1>4

-------------------------------------------------------------------------------
(* One request moves.                                                      *)

(* Everything but r stays as it is: the messages, the queues, the records  *)
(* and the transfer states of the other requests.                          *)
OthersKept(r) ==
  /\ \A m \in Tokens(net') : m.id # r => m \in net
  /\ \A x \in Requests \ {r} : \A q \in Roles : InQueue(x, q)' => InQueue(x, q)
  /\ \A x \in Requests \ {r} : tracker'[x] = tracker[x]
  /\ \A x \in Requests \ {r} : transfer'[x] = transfer[x]
  /\ \A c \in Clients : inbox'[c] # "taken" => inbox[c] # "taken" /\ IdOf[c] # r

(* r has at most one token afterwards, which matches its record.           *)
MovedOnce(r) ==
  /\ \A m \in Tokens(net') : m.id = r =>
       /\ \A n \in Tokens(net') : n.id = r => m = n
       /\ \A q \in Roles : ~InQueue(r, q)'
       /\ Tracked(tracker', r) => tracker'[r].state = StateOf(m)
  /\ \A p, q \in Roles : InQueue(r, p)' /\ InQueue(r, q)' => p = q
  /\ \A q \in Roles : InQueue(r, q)' /\ Tracked(tracker', r) =>
       tracker'[r].state = WaitingFor(q)
  /\ InState(tracker', r, PastEncoder) => transfer'[r] # None
  /\ \A q \in Receivers : InQueue(r, q)' => transfer'[r] # None

(* Then the one token of every request still matches its record.           *)
LEMMA TokenMoves ==
  ASSUME OneToken, FreshRequests, TokenState, TransferKept,
         NEW r \in Requests, OthersKept(r), MovedOnce(r)
  PROVE  OneToken' /\ FreshRequests' /\ TokenState' /\ TransferKept'
<1>1. \A m \in Tokens(net') : m.id # r => m \in Tokens(net) /\ m.id \in Requests
  BY Zenon DEF OthersKept, OneToken, Tokens
<1>2. OneToken'
  <2>1. \A m \in Tokens(net') : m.id \in Requests
    BY Zenon, <1>1
  <2>2. \A m, n \in Tokens(net') : m.id = n.id => m = n
    <3> SUFFICES ASSUME NEW m \in Tokens(net'), NEW n \in Tokens(net'), m.id = n.id
                 PROVE  m = n
      BY Zenon
    <3>1. CASE m.id = r
      BY Zenon, <3>1 DEF MovedOnce
    <3>2. CASE m.id # r
      BY Zenon, <1>1, <3>2 DEF OneToken
    <3>3. QED  BY Zenon, <3>1, <3>2
  <2>3. \A m \in Tokens(net') : \A q \in Roles : ~InQueue(m.id, q)'
    <3> SUFFICES ASSUME NEW m \in Tokens(net'), NEW q \in Roles
                 PROVE  ~InQueue(m.id, q)'
      BY Zenon
    <3>1. CASE m.id = r
      <4>1. ~InQueue(r, q)'
        BY Zenon, <3>1 DEF MovedOnce
      <4>2. QED  BY Zenon, <3>1, <4>1 DEF InQueue
    <3>2. CASE m.id # r
      <4>1. ~InQueue(m.id, q) /\ m.id \in Requests \ {r}
        BY Zenon, <1>1, <3>2 DEF OneToken
      <4>2. QED  BY Zenon, <4>1 DEF OthersKept
    <3>3. QED  BY Zenon, <3>1, <3>2
  <2>4. \A x \in Requests : \A p, q \in Roles :
          InQueue(x, p)' /\ InQueue(x, q)' => p = q
    <3> SUFFICES ASSUME NEW x \in Requests, NEW p \in Roles, NEW q \in Roles,
                        InQueue(x, p)', InQueue(x, q)'
                 PROVE  p = q
      BY Zenon
    <3>1. CASE x = r
      BY Zenon, <3>1 DEF MovedOnce
    <3>2. CASE x # r
      BY Zenon, <3>2 DEF OthersKept, OneToken
    <3>3. QED  BY Zenon, <3>1, <3>2
  <2>5. QED  BY Zenon, <2>1, <2>2, <2>3, <2>4 DEF OneToken
<1>3. FreshRequests'
  <2> SUFFICES ASSUME NEW c \in Clients, inbox'[c] # "taken", IdOf[c] # None
               PROVE  /\ ~Tracked(tracker', IdOf[c])
                      /\ \A q \in Roles : ~InQueue(IdOf[c], q)'
                      /\ \A m \in Tokens(net') : m.id # IdOf[c]
    BY Zenon DEF FreshRequests
  <2>1. inbox[c] # "taken" /\ IdOf[c] \in Requests \ {r}
    BY Zenon, DeploymentAssumption DEF OthersKept
  <2>2. QED  BY Zenon, <1>1, <2>1 DEF OthersKept, FreshRequests, Tracked
<1>4. TokenState'
  BY Zenon, <1>1 DEF TokenState, OthersKept, MovedOnce, Tracked
<1>5. TransferKept'
  BY Zenon DEF TransferKept, OthersKept, MovedOnce, InState, Tracked, Receivers, Roles
<1>6. QED  BY Zenon, <1>2, <1>3, <1>4, <1>5

(* Only r can become a holder of a slot, or cease to be one.               *)
LEMMA OtherHolders ==
  ASSUME NEW r \in Requests, OthersKept(r), NEW q \in Roles, NEW i
  PROVE  Holders(q, i)' \subseteq Holders(q, i) \cup {r}
<1>1. \A x \in Requests \ {r} : InTransfer(x)' => InTransfer(x)
  BY Zenon DEF OthersKept, InTransfer, Tokens
<1>2. \A x \in Requests \ {r} : tracker'[x] = tracker[x]
  BY Zenon DEF OthersKept
<1>3. \A x \in Requests \ {r} : Holds(x, q)' => Holds(x, q)
  BY Zenon, <1>1, <1>2 DEF Holds, InState, Tracked, Roles
<1>4. QED  BY Zenon, <1>2, <1>3 DEF Holders

(* A step after which r holds no slot it did not hold before.              *)
LEMMA NoNewHolder ==
  ASSUME Counting, SlotBound, ServerTypeOK, NEW r \in Requests, OthersKept(r), free' = free,
         \A q \in Roles : \A i \in Inst(q) : r \in Holders(q, i)' => r \in Holders(q, i)
  PROVE  SlotBound'
BY OtherHolders, SlotBoundShrink

FreeOK(f) == DOMAIN f = Roles /\ \A q \in Roles : f[q] \in [Inst(q) -> Int]

(* _<role>_free_slots[i] += 1 changes that counter only.                   *)
LEMMA GiveBackEffect ==
  ASSUME FreeOK(free), NEW role \in Roles, NEW j \in Inst(role)
  PROVE  /\ FreeOK(GiveBack(role, j))
         /\ \A q \in Roles : \A i \in Inst(q) :
              GiveBack(role, j)[q][i] =
                IF q = role /\ i = j THEN free[q][i] + 1 ELSE free[q][i]
<1> DEFINE G == [free[role] EXCEPT ![j] = @ + 1]
<1>1. G \in [Inst(role) -> Int] /\ G[j] = free[role][j] + 1
      /\ \A i \in Inst(role) \ {j} : G[i] = free[role][i]
  BY DEF FreeOK
<1>2. GiveBack(role, j) = [free EXCEPT ![role] = G]
  BY Zenon DEF GiveBack
<1> HIDE DEF G
<1>3. QED  BY Zenon, <1>1, <1>2 DEF FreeOK

(* _<role>_free_slots[i] -= 1 changes that counter only.                   *)
LEMMA TakeEffect ==
  ASSUME FreeOK(free), NEW role \in Roles, NEW j \in Inst(role)
  PROVE  /\ FreeOK(Take(role, j))
         /\ \A q \in Roles : \A i \in Inst(q) :
              Take(role, j)[q][i] =
                IF q = role /\ i = j THEN free[q][i] - 1 ELSE free[q][i]
<1> DEFINE G == [free[role] EXCEPT ![j] = @ - 1]
<1>1. G \in [Inst(role) -> Int] /\ G[j] = free[role][j] - 1
      /\ \A i \in Inst(role) \ {j} : G[i] = free[role][i]
  BY DEF FreeOK
<1>2. Take(role, j) = [free EXCEPT ![role] = G]
  BY Zenon DEF Take
<1> HIDE DEF G
<1>3. QED  BY Zenon, <1>1, <1>2 DEF FreeOK

(* Giving back the slot a record names keeps the counters well typed.      *)
LEMMA GiveBackOfType ==
  ASSUME ServerTypeOK, NEW r \in Requests, NEW role \in Roles
  PROVE  FreeOK(GiveBackOf(role, r))
<1>1. FreeOK(free)
  BY Zenon DEF ServerTypeOK, FreeOK
<1>2. CASE Tracked(tracker, r) /\ tracker[r].instance[role] # None
  <2>1. tracker[r].instance[role] \in Inst(role)
    BY Zenon, <1>2 DEF ServerTypeOK, RecordOK, Tracked
  <2>2. QED  BY Zenon, <1>1, <1>2, <2>1, GiveBackEffect DEF GiveBackOf
<1>3. CASE ~(Tracked(tracker, r) /\ tracker[r].instance[role] # None)
  BY Zenon, <1>1, <1>3 DEF GiveBackOf
<1>4. QED  BY Zenon, <1>2, <1>3

(* r gives back its slot in the pool of `role`.                            *)
LEMMA SlotGivenBack ==
  ASSUME Counting, SlotBound, ServerTypeOK, NEW r \in Requests, OthersKept(r),
         NEW role \in Roles, free' = GiveBackOf(role, r),
         Tracked(tracker, r) => Holds(r, role), ~Holds(r, role)',
         \A q \in Roles : \A i \in Inst(q) : r \in Holders(q, i)' => r \in Holders(q, i)
  PROVE  SlotBound'
<1>1. CASE ~(Tracked(tracker, r) /\ tracker[r].instance[role] # None)
  BY Zenon, <1>1, NoNewHolder DEF GiveBackOf
<1>2. CASE Tracked(tracker, r) /\ tracker[r].instance[role] # None
  <2> DEFINE j == tracker[r].instance[role]
  <2>1. j \in Inst(role) /\ FreeOK(free) /\ free' = GiveBack(role, j)
    BY Zenon, <1>2 DEF ServerTypeOK, RecordOK, Tracked, FreeOK, GiveBackOf
  <2> SUFFICES ASSUME NEW q \in Roles, NEW i \in Inst(q)
               PROVE  /\ free'[q][i] >= 0
                      /\ free'[q][i] + Cardinality(Holders(q, i)') <= Capacity[q]
    BY Zenon DEF SlotBound
  <2>2. free[q][i] \in Int /\ Capacity[q] \in Nat
    BY Zenon, ServerAssumption DEF ServerTypeOK
  <2>3. free[q][i] >= 0 /\ free[q][i] + Cardinality(Holders(q, i)) <= Capacity[q]
    BY Zenon DEF SlotBound
  <2>4. IsFiniteSet(Holders(q, i)) /\ Holders(q, i)' \subseteq Holders(q, i)
    BY HoldersFinite, OtherHolders
  <2>5. CASE q = role /\ i = j
    <3>1. {r} \subseteq Holders(q, i) /\ Holders(q, i)' \subseteq Holders(q, i) \ {r}
      BY Zenon, <1>2, <2>4, <2>5 DEF Holders
    <3>2. Cardinality({r}) = 1
      BY Zenon DEF Counting
    <3>3. free'[q][i] = free[q][i] + 1
      BY <2>1, <2>5, GiveBackEffect
    <3> HIDE DEF j
    <3>4. /\ free[q][i] + Cardinality({r}) >= 0
          /\ free[q][i] + Cardinality({r}) + Cardinality(Holders(q, i)') <= Capacity[q]
      BY Zenon, <2>2, <2>3, <2>4, <3>1, BoundGiveBack
    <3>5. QED  BY <3>2, <3>3, <3>4
  <2>6. CASE ~(q = role /\ i = j)
    <3>1. free'[q][i] = free[q][i]
      BY <2>1, <2>6, GiveBackEffect
    <3>2. Cardinality(Holders(q, i)') \in Nat /\ Cardinality(Holders(q, i)) \in Nat
          /\ Cardinality(Holders(q, i)') <= Cardinality(Holders(q, i))
      BY Zenon, <2>4 DEF Counting
    <3>3. QED  BY <2>2, <2>3, <3>1, <3>2
  <2>7. QED  BY Zenon, <2>5, <2>6
<1>3. QED  BY Zenon, <1>1, <1>2

(* r is dispatched to instance j of `role`, which has a free slot.         *)
LEMMA SlotTaken ==
  ASSUME Counting, SlotBound, ServerTypeOK, NEW r \in Requests, OthersKept(r),
         NEW role \in Roles, NEW j \in Inst(role), free' = Take(role, j),
         free[role][j] > 0,
         \A q \in Roles : \A i \in Inst(q) :
           r \in Holders(q, i)' => r \in Holders(q, i) \/ (q = role /\ i = j)
  PROVE  SlotBound'
<1> SUFFICES ASSUME NEW q \in Roles, NEW i \in Inst(q)
             PROVE  /\ free'[q][i] >= 0
                    /\ free'[q][i] + Cardinality(Holders(q, i)') <= Capacity[q]
  BY Zenon DEF SlotBound
<1>1. free[q][i] \in Int /\ Capacity[q] \in Nat /\ FreeOK(free)
  BY Zenon, ServerAssumption DEF ServerTypeOK, FreeOK
<1>2. free[q][i] >= 0 /\ free[q][i] + Cardinality(Holders(q, i)) <= Capacity[q]
  BY Zenon DEF SlotBound
<1>3. IsFiniteSet(Holders(q, i)) /\ Holders(q, i)' \subseteq Holders(q, i) \cup {r}
  BY Zenon, HoldersFinite, OtherHolders
<1>4. CASE q = role /\ i = j
  <2>1. free'[q][i] = free[q][i] - 1 /\ free[q][i] > 0
    BY Zenon, <1>1, <1>4, TakeEffect
  <2>2. QED  BY Zenon, <1>1, <1>2, <1>3, <2>1, BoundTake
<1>5. CASE ~(q = role /\ i = j)
  <2>1. free'[q][i] = free[q][i]
    BY <1>1, <1>5, TakeEffect
  <2>2. Holders(q, i)' \subseteq Holders(q, i)
    BY Zenon, <1>3, <1>5
  <2>3. Cardinality(Holders(q, i)') \in Nat /\ Cardinality(Holders(q, i)) \in Nat
        /\ Cardinality(Holders(q, i)') <= Cardinality(Holders(q, i))
    BY Zenon, <1>3, <2>2 DEF Counting
  <2>4. QED  BY <1>1, <1>2, <2>1, <2>3
<1>6. QED  BY Zenon, <1>4, <1>5

-------------------------------------------------------------------------------
(* The actions, one lemma each.                                            *)

(* A role instance answers: the request keeps its one message.             *)
LEMMA RolesKeepInvariant ==
  ASSUME Counting, SlotInvariant, RolesNext, UNCHANGED serverVars
  PROVE  SlotInvariant'
<1> USE DEF SlotInvariant
<1>1. PICK m \in Tokens(net) : \E N : net' = (net \ {m}) \cup N /\ RoleAnswers(m, N)
  BY Zenon, RoleStep
<1>2. PICK N : net' = (net \ {m}) \cup N /\ RoleAnswers(m, N)
  BY Zenon, <1>1
<1> DEFINE r == m.id
<1>3. /\ r \in Requests
      /\ \A k \in Tokens(net') : IF k.id = r THEN k \in N ELSE k \in net
      /\ \A c \in Clients : inbox[c] # "taken" => IdOf[c] # r
      /\ \A q \in Roles : ~InQueue(r, q)
      /\ InTransfer(r)' <=>
           \E n \in N : n.type \in {"ALLOC", "ALLOCATED", "PUSH", "PUSHED"}
      /\ MessagesOK'
  BY Zenon, <1>2, TokenConsumed DEF RoleAnswers
<1>4. /\ tracker' = tracker /\ free' = free /\ transfer' = transfer /\ inbox' = inbox
      /\ tta' = tta
      /\ \A x, q : InQueue(x, q)' <=> InQueue(x, q)
  BY Zenon DEF serverVars, InQueue
<1> HIDE DEF r
<1>5. OthersKept(r)
  BY Zenon, <1>3, <1>4 DEF OthersKept
<1>6. MovedOnce(r)
  <2>1. ASSUME NEW k \in Tokens(net'), k.id = r
        PROVE  /\ \A n \in Tokens(net') : n.id = r => k = n
               /\ Tracked(tracker', r) => tracker'[r].state = StateOf(k)
    BY Zenon, <1>2, <1>3, <1>4, <2>1 DEF RoleAnswers, TokenState, r
  <2>2. QED  BY Zenon, <1>3, <1>4, <2>1 DEF MovedOnce, TransferKept
<1>7. OneToken' /\ FreshRequests' /\ TokenState' /\ TransferKept'
  BY Zenon, <1>3, <1>5, <1>6, TokenMoves
<1>8. InTransfer(r)' => InTransfer(r)
  BY Zenon, <1>1, <1>2, <1>3 DEF InTransfer, RoleAnswers, Tokens, r
<1>9. \A q \in Roles : \A i \in Inst(q) : r \in Holders(q, i)' => r \in Holders(q, i)
  BY Zenon, <1>4, <1>8 DEF Holders, Holds, Roles
<1>10. SlotBound'
  BY Zenon, <1>3, <1>4, <1>5, <1>9, NoNewHolder
<1>11. ServerTypeOK'
  BY Zenon DEF ServerTypeOK, serverVars
<1>12. QED  BY Zenon, <1>3, <1>7, <1>10, <1>11

(* Steps of the server that touch no message, record, queue or slot.       *)
LEMMA UntouchedKeepInvariant ==
  ASSUME Counting, SlotInvariant, UNCHANGED <<tracker, tta, transfer, free, net>>, ServerTypeOK',
         \A c \in Clients : inbox'[c] # "taken" => inbox[c] # "taken"
  PROVE  SlotInvariant'
<1> USE DEF SlotInvariant
<1>1. /\ \A x, q : InQueue(x, q)' <=> InQueue(x, q)
      /\ \A x : InTransfer(x)' <=> InTransfer(x)
  BY Zenon DEF InQueue, InTransfer
<1>2. OneToken' /\ FreshRequests' /\ TokenState' /\ TransferKept' /\ MessagesOK'
  BY Zenon, <1>1 DEF OneToken, FreshRequests, TokenState, TransferKept, MessagesOK
<1>3. \A q \in Roles : \A i \in Inst(q) : Holders(q, i)' = Holders(q, i)
  BY ZenonT(60), <1>1 DEF Holders, Holds, Roles
<1>4. SlotBound'
  BY Zenon, <1>3, SlotBoundShrink
<1>5. QED  BY Zenon, <1>2, <1>4

(* A client sends its request to the frontend.                             *)
LEMMA ClientSendKeepsInvariant ==
  ASSUME Counting, SlotInvariant, NEW c \in Clients, ClientSend(c)
  PROVE  SlotInvariant'
<1>1. ServerTypeOK'
  BY Zenon DEF SlotInvariant, ServerTypeOK, ClientSend
<1>2. \A d \in Clients : inbox'[d] # "taken" => inbox[d] # "taken"
  BY Zenon DEF SlotInvariant, ServerTypeOK, ClientSend
<1>3. QED  BY Zenon, <1>1, <1>2, UntouchedKeepInvariant DEF ClientSend

(* Time passes.                                                            *)
LEMMA TickKeepsInvariant ==
  ASSUME Counting, SlotInvariant, Tick
  PROVE  SlotInvariant'
<1>1. ServerTypeOK'
  BY DEF SlotInvariant, ServerTypeOK, Tick
<1>2. QED  BY Zenon, <1>1, UntouchedKeepInvariant DEF Tick

(* _handle_transfer_register fills the free list of an instance.           *)
LEMMA RegisterKeepsInvariant ==
  ASSUME Counting, SlotInvariant, NEW m \in net, HandleRegister(m)
  PROVE  SlotInvariant'
<1> USE DEF SlotInvariant
<1> DEFINE entries == IF m.role = "encoder" THEN <<>>
                      ELSE [k \in 1 .. NumPrealloc |->
                              [slot |-> k - 1, addr |-> At(m.role, m.inst, k - 1),
                               size |-> PreallocSize]]
<1>1. m.role \in Roles /\ m.inst \in Inst(m.role) /\ m.type = "REGISTER"
  BY Zenon DEF MessagesOK, MessageOK, HandleRegister
<1>2. entries \in Seq(PreallocEntry)
  <2>1. m.inst \in Nat
    BY <1>1, DeploymentAssumption DEF Inst, Pool
  <2>2. \A k \in 1 .. NumPrealloc :
          [slot |-> k - 1, addr |-> At(m.role, m.inst, k - 1), size |-> PreallocSize]
            \in PreallocEntry
    BY <1>1, <2>1, DeploymentAssumption DEF PreallocEntry, At, Addr, Slots
  <2>3. NumPrealloc \in Nat
    BY DeploymentAssumption
  <2>4. QED  BY <2>2, <2>3
<1>3. peers' = [peers EXCEPT ![m.role][m.inst] = entries]
  BY Zenon DEF HandleRegister
<1> HIDE DEF entries
<1>4. DOMAIN peers' = Roles /\ \A q \in Roles : peers'[q] \in [Inst(q) -> Seq(PreallocEntry)]
  BY Zenon, <1>1, <1>2, <1>3 DEF ServerTypeOK
<1>5. ServerTypeOK'
  BY Zenon, <1>4 DEF ServerTypeOK, HandleRegister, Served
<1>6. UNCHANGED <<tracker, tta, transfer, free, inbox>> /\ net' = net \ {m}
  BY Zenon DEF HandleRegister
<1>7. /\ Tokens(net') = Tokens(net)
      /\ \A x, q : InQueue(x, q)' <=> InQueue(x, q)
      /\ \A x : InTransfer(x)' <=> InTransfer(x)
  BY Zenon, <1>1, <1>6 DEF Tokens, InQueue, InTransfer
<1>8. OneToken' /\ FreshRequests' /\ TokenState' /\ TransferKept' /\ MessagesOK'
  BY Zenon, <1>6, <1>7 DEF OneToken, FreshRequests, TokenState, TransferKept, MessagesOK
<1>9. \A q \in Roles : \A i \in Inst(q) : Holders(q, i)' = Holders(q, i)
  BY ZenonT(60), <1>6, <1>7 DEF Holders, Holds, Roles
<1>10. SlotBound'
  BY Zenon, <1>6, <1>9, SlotBoundShrink
<1>11. QED  BY Zenon, <1>5, <1>8, <1>10

(* _handle_client_request queues a new id; here ids have to be unique, or  *)
(* an old message about the same id could still be on its way.             *)
LEMMA ClientRequestKeepsInvariant ==
  ASSUME Counting, SlotInvariant, UniqueIds, NEW c \in Clients, HandleClientRequest(c)
  PROVE  SlotInvariant'
<1> USE DEF SlotInvariant
<1> DEFINE r == IdOf[c]
<1>1. /\ inbox[c] = "sent" /\ inbox' = [inbox EXCEPT ![c] = "taken"]
      /\ todo' = todo \ {"frontend"}
      /\ UNCHANGED <<free, cursor, transfer, peers, running, horizon, net>>
  BY Zenon DEF HandleClientRequest, Served
<1>2. /\ inbox' \in [Clients -> {"idle", "sent", "taken"}]
      /\ \A d \in Clients : inbox'[d] # "taken" => inbox[d] # "taken" /\ d # c
  BY Zenon, <1>1 DEF ServerTypeOK
<1>3. CASE r = None \/ IsDuplicate(r)
  <2>1. UNCHANGED <<tracker, pending, tta, now>> /\ DOMAIN replies' = Clients
    BY Zenon, <1>3 DEF HandleClientRequest, ReplyTo, ServerTypeOK
  <2>2. ServerTypeOK'
    BY Zenon, <1>1, <1>2, <2>1 DEF ServerTypeOK
  <2>3. QED  BY Zenon, <1>1, <1>2, <2>1, <2>2, UntouchedKeepInvariant
<1>4. CASE r # None /\ ~IsDuplicate(r)
  <2>1. /\ now' = now + 1
        /\ tracker' = Transition(Submit(tracker, r, now + 1), r, "ENCODER_WAITING")
        /\ pending' = [pending EXCEPT ![r] = c]
        /\ tta' = [tta EXCEPT !["encoder"] = Enqueue(@, r)]
        /\ UNCHANGED replies
    BY Zenon, <1>4 DEF HandleClientRequest
  <2>2. r \in Requests /\ TrackerOK(tracker) /\ now + 1 \in Nat
        /\ tta \in [Roles -> Queue]
    <3>1. r \in Requests
      BY Zenon, <1>4, DeploymentAssumption
    <3>2. now \in Nat /\ TrackerOK(tracker) /\ tta \in [Roles -> Queue]
      BY Zenon DEF ServerTypeOK, TrackerOK, Queue
    <3>3. QED  BY <3>1, <3>2
  <2>3. /\ TrackerOK(tracker')
        /\ \A x \in Requests \ {r} : tracker'[x] = tracker[x]
        /\ Tracked(tracker', r) /\ tracker'[r].state = "ENCODER_WAITING"
    BY ZenonT(60), <2>1, <2>2, SubmitEffect
  <2>4. /\ tta' \in [Roles -> Queue]
        /\ \A x : \A q \in Roles : InQueue(x, q)' <=> InQueue(x, q) \/ (q = "encoder" /\ x = r)
    BY Zenon, <2>1, <2>2, Enqueued DEF Roles
  <2>5. ServerTypeOK'
    BY Zenon, <1>1, <1>2, <2>1, <2>2, <2>3, <2>4 DEF ServerTypeOK, TrackerOK, Queue
  <2>6. /\ ~Tracked(tracker, r) /\ \A q \in Roles : ~InQueue(r, q)
        /\ \A m \in Tokens(net) : m.id # r
    BY Zenon, <1>1, <1>4 DEF FreshRequests
  <2>7. \A d \in Clients : inbox'[d] # "taken" => IdOf[d] # r
    BY Zenon, <1>2, <1>4 DEF UniqueIds
  <2>a. \A m \in Tokens(net') : m \in net
    BY Zenon, <1>1 DEF Tokens
  <2> HIDE DEF r
  <2>8. OthersKept(r)
    BY Zenon, <1>1, <1>2, <2>3, <2>4, <2>7, <2>a DEF OthersKept
  <2>9. MovedOnce(r)
    BY Zenon, <1>1, <2>3, <2>4, <2>6
      DEF MovedOnce, WaitingFor, InState, PastEncoder, Receivers, Roles
  <2>10. OneToken' /\ FreshRequests' /\ TokenState' /\ TransferKept'
    BY Zenon, <2>2, <2>8, <2>9, TokenMoves
  <2>11. \A q \in Roles : \A i \in Inst(q) : r \notin Holders(q, i)'
    BY Zenon, <2>3 DEF Holders, Holds, InState, Roles
  <2>12. SlotBound'
    BY Zenon, <1>1, <2>2, <2>8, <2>11, NoNewHolder
  <2>13. QED  BY Zenon, <1>1, <2>5, <2>10, <2>12 DEF MessagesOK
<1>5. QED  BY Zenon, <1>3, <1>4

(* The client is answered and the request forgotten.                       *)
LEMMA CompleteType ==
  ASSUME ServerTypeOK, NEW r \in Requests, NEW kind, NEW data, Complete(r, kind, data)
  PROVE  /\ TrackerOK(tracker') /\ ~Tracked(tracker', r)
         /\ \A x \in Requests \ {r} : tracker'[x] = tracker[x]
         /\ pending' \in [Requests -> Clients \cup {None}]
         /\ DOMAIN replies' = Clients
<1>1. TrackerOK(tracker)
  BY Zenon DEF ServerTypeOK, TrackerOK
<1>2. TrackerOK(tracker') /\ ~Tracked(tracker', r)
      /\ \A x \in Requests \ {r} : tracker'[x] = tracker[x]
  BY Zenon, <1>1, RemoveEffect DEF Complete
<1>3. pending' \in [Requests -> Clients \cup {None}] /\ DOMAIN replies' = Clients
  BY Zenon DEF ServerTypeOK, Complete, PopPending, ReplyTo
<1>4. QED  BY Zenon, <1>2, <1>3

(* r is forgotten while no message or queue entry about it is left.        *)
LEMMA Forgotten ==
  ASSUME NEW r \in Requests, ~Tracked(tracker', r),
         \A m \in Tokens(net') : m.id # r, \A q \in Roles : ~InQueue(r, q)'
  PROVE  /\ MovedOnce(r)
         /\ \A q \in Roles : ~Holds(r, q)' /\ \A i \in Inst(q) : r \notin Holders(q, i)'
BY Zenon DEF MovedOnce, InState, Holders, Holds, Receivers, Roles

(* _handle_role_error_frames forgets the request and gives nothing back.   *)
LEMMA ErrorKeepsInvariant ==
  ASSUME Counting, SlotInvariant, NEW m \in net, HandleError(m)
  PROVE  SlotInvariant'
<1> USE DEF SlotInvariant
<1> DEFINE r == m.id
<1>1. /\ m \in Tokens(net) /\ Complete(r, "error", None)
      /\ net' = net \ {m} /\ todo' = todo \ {m.role}
      /\ UNCHANGED <<free, tta, cursor, transfer, peers, running, now, horizon, inbox>>
  BY Zenon DEF HandleError, Tokens, Served
<1>2. /\ r \in Requests
      /\ \A k \in Tokens(net') : k.id # r /\ k \in net
      /\ \A c \in Clients : inbox[c] # "taken" => IdOf[c] # r
      /\ \A q \in Roles : ~InQueue(r, q)
      /\ MessagesOK'
  BY Zenon, <1>1, LastToken
<1>3. /\ TrackerOK(tracker') /\ ~Tracked(tracker', r)
      /\ \A x \in Requests \ {r} : tracker'[x] = tracker[x]
      /\ pending' \in [Requests -> Clients \cup {None}]
      /\ DOMAIN replies' = Clients
  BY Zenon, <1>1, <1>2, CompleteType
<1>4. ServerTypeOK'
  BY Zenon, <1>1, <1>3 DEF ServerTypeOK, TrackerOK
<1>5. \A x, q : InQueue(x, q)' <=> InQueue(x, q)
  BY Zenon, <1>1 DEF InQueue
<1> HIDE DEF r
<1>6. OthersKept(r)
  BY Zenon, <1>1, <1>2, <1>3, <1>5 DEF OthersKept
<1>7. MovedOnce(r) /\ \A q \in Roles : \A i \in Inst(q) : r \notin Holders(q, i)'
  BY Zenon, <1>2, <1>3, <1>5, Forgotten
<1>8. OneToken' /\ FreshRequests' /\ TokenState' /\ TransferKept'
  BY Zenon, <1>2, <1>6, <1>7, TokenMoves
<1>9. SlotBound'
  BY Zenon, <1>1, <1>2, <1>6, <1>7, NoNewHolder
<1>10. QED  BY Zenon, <1>2, <1>4, <1>8, <1>9

(* _handle_transfer_staged moves the request to the denoiser queue, with   *)
(* its encoder slot still taken.                                           *)
LEMMA StagedKeepsInvariant ==
  ASSUME Counting, SlotInvariant, NEW m \in net, HandleStaged(m)
  PROVE  SlotInvariant'
<1> USE DEF SlotInvariant
<1> DEFINE r == m.id
           ts == [size |-> m.size,
                  sender |-> IF Tracked(tracker, r)
                             THEN tracker[r].instance["encoder"] ELSE 0,
                  receiver |-> None, addr |-> None, pre |-> None]
<1>1. /\ m \in Tokens(net) /\ m.type = "STAGED"
      /\ net' = net \ {m} /\ todo' = todo \ {m.role}
      /\ transfer' = [transfer EXCEPT ![r] = ts]
      /\ tracker' = Transition(Transition(tracker, r, "ENCODER_DONE"),
                                r, "DENOISING_WAITING")
      /\ tta' = [tta EXCEPT !["denoiser"] = Enqueue(@, r)]
      /\ UNCHANGED <<pending, free, cursor, peers, running, now, horizon, inbox, replies>>
  BY Zenon DEF HandleStaged, Tokens, Served
<1>2. /\ r \in Requests
      /\ \A k \in Tokens(net') : k.id # r /\ k \in net
      /\ \A c \in Clients : inbox[c] # "taken" => IdOf[c] # r
      /\ \A q \in Roles : ~InQueue(r, q)
      /\ MessagesOK'
  BY Zenon, <1>1, LastToken
<1>3. ts \in TransferState /\ ts # None
  <2>1. m.size \in Nat
    BY Zenon, <1>1 DEF MessagesOK, MessageOK
  <2>2. Tracked(tracker, r) => tracker[r].instance["encoder"] \in Nat \cup {None}
    BY ZenonT(60), <1>2 DEF ServerTypeOK, RecordOK, Record, Tracked, Roles
  <2>3. ts \in TransferState
    BY Zenon, <2>1, <2>2 DEF TransferState
  <2>4. QED  BY Zenon, <2>3, NoneAssumption
<1>4. /\ TrackerOK(tracker') /\ \A x \in Requests \ {r} : tracker'[x] = tracker[x]
      /\ Tracked(tracker', r) => /\ Tracked(tracker, r)
                                 /\ tracker[r].state = "ENCODER_RUNNING"
                                 /\ tracker'[r].state = "DENOISING_WAITING"
                                 /\ tracker'[r].instance = tracker[r].instance
  <2>1. TrackerOK(tracker)
    BY Zenon DEF ServerTypeOK, TrackerOK
  <2>2. /\ "ENCODER_DONE" \in ActiveStates \cup TerminalStates
        /\ "DENOISING_WAITING" \in ActiveStates \cup TerminalStates
    BY Zenon DEF ActiveStates
  <2>3. Tracked(tracker, r) => tracker[r].state = "ENCODER_RUNNING"
    BY Zenon, <1>1 DEF TokenState, StateOf
  <2>4. Legal("ENCODER_RUNNING", "ENCODER_DONE") /\ Legal("ENCODER_DONE", "DENOISING_WAITING")
    BY Zenon DEF Legal, ValidTransitions, TerminalStates
  <2>5. QED  BY Zenon, <1>1, <1>2, <2>1, <2>2, <2>3, <2>4, HandedOn
<1> HIDE DEF ts
<1>5. /\ tta' \in [Roles -> Queue]
      /\ \A x : \A q \in Roles : InQueue(x, q)' <=> InQueue(x, q) \/ (q = "denoiser" /\ x = r)
  BY Zenon, <1>1, <1>2, Enqueued DEF ServerTypeOK, Queue, Roles
<1>6. /\ transfer' \in [Requests -> TransferState \cup {None}]
      /\ \A x \in Requests \ {r} : transfer'[x] = transfer[x]
      /\ transfer'[r] # None
  BY Zenon, <1>1, <1>2, <1>3 DEF ServerTypeOK
<1>7. ServerTypeOK'
  BY Zenon, <1>1, <1>4, <1>5, <1>6 DEF ServerTypeOK, TrackerOK, Queue
<1> HIDE DEF r
<1>8. OthersKept(r)
  BY Zenon, <1>1, <1>2, <1>4, <1>5, <1>6 DEF OthersKept
<1>9. MovedOnce(r)
  BY Zenon, <1>2, <1>4, <1>5, <1>6 DEF MovedOnce, WaitingFor, Roles
<1>10. OneToken' /\ FreshRequests' /\ TokenState' /\ TransferKept'
  BY Zenon, <1>2, <1>8, <1>9, TokenMoves
<1>11. \A q \in Roles : \A i \in Inst(q) : r \in Holders(q, i)' => r \in Holders(q, i)
  BY Zenon, <1>4 DEF Holders, Holds, InState, Roles
<1>12. SlotBound'
  BY Zenon, <1>1, <1>2, <1>8, <1>11, NoNewHolder
<1>13. QED  BY Zenon, <1>2, <1>7, <1>10, <1>12

(* _handle_transfer_allocated turns the answer of the receiver into a PUSH *)
(* of the sender.                                                          *)
LEMMA AllocatedKeepsInvariant ==
  ASSUME Counting, SlotInvariant, NEW m \in net, HandleAllocated(m)
  PROVE  SlotInvariant'
<1> USE DEF SlotInvariant
<1> DEFINE r == m.id
           to == IF InState(tracker, r, InDecoding) THEN "denoiser" ELSE "encoder"
           push == PUSH(to, transfer[r].sender, r, m.addr, transfer[r].size)
<1>1. /\ m \in Tokens(net) /\ m.type = "ALLOCATED" /\ m.role \in Roles /\ m.addr \in Addr
      /\ todo' = todo \ {m.role}
      /\ UNCHANGED <<tracker, pending, free, tta, cursor, peers, now, horizon, inbox, replies>>
  BY Zenon DEF HandleAllocated, Tokens, Served, MessagesOK, MessageOK
<1>2. PICK N \in SUBSET {push} : net' = (net \ {m}) \cup N
  <2>1. net' = net \ {m} \/ net' = (net \ {m}) \cup {push}
    BY Zenon DEF HandleAllocated
  <2>2. net' = (net \ {m}) \cup {} \/ net' = (net \ {m}) \cup {push}
    BY Zenon, <2>1
  <2> HIDE DEF push
  <2>3. QED  BY Zenon, <2>2
<1>3. r \in Requests
  BY Zenon, <1>1 DEF OneToken
<1>4. push.id = r /\ push.type = "PUSH" /\ push.role = to /\ MessageOK(push)
  BY Zenon DEF PUSH, MessageOK, Roles
<1>5. Answers(m, N)
  <2> HIDE DEF push
  <2>1. \A n \in N : n = push
    BY Zenon, <1>2
  <2>2. QED  BY Zenon, <1>4, <2>1 DEF Answers
<1>6. /\ \A k \in Tokens(net') : IF k.id = r THEN k \in N ELSE k \in net
      /\ \A c \in Clients : inbox[c] # "taken" => IdOf[c] # r
      /\ \A q \in Roles : ~InQueue(r, q)
      /\ MessagesOK'
  BY Zenon, <1>1, <1>2, <1>5, TokenConsumed
<1>7. /\ transfer' \in [Requests -> TransferState \cup {None}]
      /\ \A x \in Requests \ {r} : transfer'[x] = transfer[x]
      /\ transfer[r] # None => transfer'[r] # None
      /\ running' \in BOOLEAN
  <2>1. CASE transfer[r] = None
    BY Zenon, <2>1 DEF HandleAllocated, ServerTypeOK
  <2>2. CASE transfer[r] # None
    <3> DEFINE ts == [transfer[r] EXCEPT !.addr = m.addr]
    <3>1. transfer' = [transfer EXCEPT ![r] = ts] /\ running' \in BOOLEAN
      BY Zenon, <2>2 DEF HandleAllocated, ServerTypeOK
    <3>a. transfer[r] \in TransferState
      BY Zenon, <1>3, <2>2 DEF ServerTypeOK
    <3>2. ts \in TransferState
      BY Zenon, <1>1, <3>a DEF TransferState
    <3> HIDE DEF ts
    <3>3. QED  BY Zenon, <1>3, <3>1, <3>2, NoneAssumption DEF ServerTypeOK
  <2>3. QED  BY Zenon, <2>1, <2>2
<1>8. ServerTypeOK'
  BY Zenon, <1>1, <1>7 DEF ServerTypeOK
<1>9. \A x, q : InQueue(x, q)' <=> InQueue(x, q)
  BY Zenon, <1>1 DEF InQueue
<1>10. Tracked(tracker, r) => tracker[r].state = StateOf(push)
  <2>1. Tracked(tracker, r) => tracker[r].state = StateOf(m)
    BY Zenon, <1>1 DEF TokenState
  <2>2. StateOf(m) = IF m.role = "denoiser" THEN "DENOISING_RUNNING" ELSE "DECODER_RUNNING"
    BY Zenon, <1>1 DEF StateOf
  <2>3. StateOf(push) = IF to = "encoder" THEN "DENOISING_RUNNING" ELSE "DECODER_RUNNING"
    BY Zenon, <1>4 DEF StateOf
  <2>4. QED  BY Zenon, <2>1, <2>2, <2>3 DEF InState, InDecoding
<1> HIDE DEF push, to
<1>a. InTransfer(r)
  BY Zenon, <1>1 DEF InTransfer, Tokens
<1> HIDE DEF r
<1>11. OthersKept(r)
  BY Zenon, <1>1, <1>6, <1>7, <1>9 DEF OthersKept
<1>12. MovedOnce(r)
  BY ZenonT(60), <1>1, <1>2, <1>3, <1>6, <1>7, <1>9, <1>10 DEF MovedOnce, TransferKept
<1>13. OneToken' /\ FreshRequests' /\ TokenState' /\ TransferKept'
  BY Zenon, <1>3, <1>11, <1>12, TokenMoves
<1>14. \A q \in Roles : \A i \in Inst(q) : r \in Holders(q, i)' => r \in Holders(q, i)
  BY Zenon, <1>1, <1>a DEF Holders, Holds, Roles
<1>15. SlotBound'
  BY Zenon, <1>1, <1>3, <1>11, <1>14, NoNewHolder
<1>16. QED  BY Zenon, <1>6, <1>8, <1>13, <1>15

(* The push of a tracked request frees the slot of the sender and starts   *)
(* the receiver; any other leaves the counters alone.                      *)
LEMMA PushedEffect ==
  ASSUME SlotInvariant, NEW m \in net, HandlePushed(m)
  PROVE  \E N : /\ net' = (net \ {m}) \cup N /\ Answers(m, N) /\ \A n, k \in N : n = k
                /\ \A n \in N : n.type = "READY"
                /\ \/ ~Tracked(tracker, m.id) /\ free' = free /\ N = {}
                   \/ /\ InState(tracker, m.id, {"DENOISING_RUNNING"})
                      /\ free' = GiveBackOf("encoder", m.id)
                      /\ \A n \in N : n.role = "denoiser"
                   \/ /\ InState(tracker, m.id, {"DECODER_RUNNING"})
                      /\ free' = GiveBackOf("denoiser", m.id)
                      /\ \A n \in N : n.role = "decoder"
<1> USE DEF SlotInvariant
<1> DEFINE r == m.id
           ready(role) == READY(role, transfer[r].receiver, r, transfer[r].pre)
<1>1. m \in Tokens(net) /\ m.type = "PUSHED" /\ r \in Requests
  BY Zenon DEF HandlePushed, Tokens, OneToken
<1>2. Tracked(tracker, r) =>
        tracker[r].state \in {"DENOISING_RUNNING", "DECODER_RUNNING"} /\ transfer[r] # None
  <2>1. Tracked(tracker, r) => tracker[r].state \in {"DENOISING_RUNNING", "DECODER_RUNNING"}
    BY Zenon, <1>1 DEF TokenState, StateOf
  <2>2. QED  BY Zenon, <1>1, <2>1 DEF TransferKept, InState, PastEncoder
<1>3. \A role \in Roles : /\ Answers(m, {ready(role)})
                          /\ ready(role).type = "READY" /\ ready(role).role = role
  BY DEF Answers, MessageOK, READY
<1>4. Answers(m, {})
  BY Zenon DEF Answers
<1>5. CASE ~Tracked(tracker, r)
  <2>1. free' = free /\ net' = (net \ {m}) \cup {}
    BY Zenon, <1>5 DEF HandlePushed, InState
  <2>2. QED  BY Zenon, <1>4, <1>5, <2>1
<1>6. CASE InState(tracker, r, {"DENOISING_RUNNING"})
  <2>1. free' = GiveBackOf("encoder", r) /\ net' = (net \ {m}) \cup {ready("denoiser")}
    BY Zenon, <1>2, <1>6 DEF HandlePushed, InState, InDenoising
  <2>2. Answers(m, {ready("denoiser")})
        /\ ready("denoiser").type = "READY" /\ ready("denoiser").role = "denoiser"
    BY Zenon, <1>3 DEF Roles
  <2> HIDE DEF ready
  <2>3. QED  BY Zenon, <1>6, <2>1, <2>2
<1>7. CASE InState(tracker, r, {"DECODER_RUNNING"})
  <2>1. free' = GiveBackOf("denoiser", r) /\ net' = (net \ {m}) \cup {ready("decoder")}
    BY Zenon, <1>2, <1>7 DEF HandlePushed, InState, InDenoising, InDecoding
  <2>2. Answers(m, {ready("decoder")})
        /\ ready("decoder").type = "READY" /\ ready("decoder").role = "decoder"
    BY Zenon, <1>3 DEF Roles
  <2> HIDE DEF ready
  <2>3. QED  BY Zenon, <1>7, <2>1, <2>2
<1>8. QED  BY Zenon, <1>2, <1>5, <1>6, <1>7 DEF InState

(* _handle_transfer_pushed gives back the slot of the sender, which the    *)
(* request held until this message.                                        *)
LEMMA PushedKeepsInvariant ==
  ASSUME Counting, SlotInvariant, NEW m \in net, HandlePushed(m)
  PROVE  SlotInvariant'
<1> DEFINE r == m.id
<1>1. PICK N : /\ net' = (net \ {m}) \cup N /\ Answers(m, N) /\ \A n, k \in N : n = k
               /\ \A n \in N : n.type = "READY"
               /\ \/ ~Tracked(tracker, r) /\ free' = free /\ N = {}
                  \/ /\ InState(tracker, r, {"DENOISING_RUNNING"})
                     /\ free' = GiveBackOf("encoder", r)
                     /\ \A n \in N : n.role = "denoiser"
                  \/ /\ InState(tracker, r, {"DECODER_RUNNING"})
                     /\ free' = GiveBackOf("denoiser", r)
                     /\ \A n \in N : n.role = "decoder"
  BY Zenon, PushedEffect
<1> USE DEF SlotInvariant
<1>2. /\ m \in Tokens(net) /\ m.type = "PUSHED" /\ todo' = todo \ {m.role}
      /\ UNCHANGED <<tracker, pending, tta, cursor, transfer, peers, running, now,
                     horizon, inbox, replies>>
  BY Zenon DEF HandlePushed, Tokens, Served
<1>3. /\ r \in Requests
      /\ \A k \in Tokens(net') : IF k.id = r THEN k \in N ELSE k \in net
      /\ \A c \in Clients : inbox[c] # "taken" => IdOf[c] # r
      /\ \A q \in Roles : ~InQueue(r, q)
      /\ InTransfer(r)' <=> \E n \in N : n.type \in {"ALLOC", "ALLOCATED", "PUSH", "PUSHED"}
      /\ MessagesOK'
  BY Zenon, <1>1, <1>2, TokenConsumed
<1>4. InTransfer(r) /\ ~InTransfer(r)'
  <2>1. InTransfer(r)
    BY Zenon, <1>2 DEF InTransfer, Tokens
  <2>2. QED  BY Zenon, <1>1, <1>3, <2>1
<1>5. \A x, q : InQueue(x, q)' <=> InQueue(x, q)
  BY Zenon, <1>2 DEF InQueue
<1>6. FreeOK(free')
  <2>1. FreeOK(free)
    BY Zenon DEF ServerTypeOK, FreeOK
  <2>2. FreeOK(GiveBackOf("encoder", r)) /\ FreeOK(GiveBackOf("denoiser", r))
    BY Zenon, <1>3, GiveBackOfType DEF Roles
  <2>3. QED  BY Zenon, <1>1, <2>1, <2>2
<1>7. ServerTypeOK'
  BY Zenon, <1>2, <1>6 DEF ServerTypeOK, FreeOK
<1> HIDE DEF r
<1>8. OthersKept(r)
  BY Zenon, <1>2, <1>3, <1>5 DEF OthersKept
<1>9. MovedOnce(r)
  <2>1. ASSUME NEW k \in N, Tracked(tracker, r)
        PROVE  tracker[r].state = StateOf(k)
    BY Zenon, <1>1, <2>1 DEF StateOf, InState
  <2>2. QED  BY Zenon, <1>1, <1>2, <1>3, <1>5, <2>1 DEF MovedOnce, TransferKept
<1>10. OneToken' /\ FreshRequests' /\ TokenState' /\ TransferKept'
  BY Zenon, <1>3, <1>8, <1>9, TokenMoves
<1>11. \A q \in Roles : \A i \in Inst(q) : r \in Holders(q, i)' => r \in Holders(q, i)
  BY Zenon, <1>2, <1>4 DEF Holders, Holds, Roles
<1>12. SlotBound'
  <2>1. CASE ~Tracked(tracker, r) /\ free' = free
    BY Zenon, <1>3, <1>8, <1>11, <2>1, NoNewHolder
  <2>2. CASE InState(tracker, r, {"DENOISING_RUNNING"}) /\ free' = GiveBackOf("encoder", r)
    <3>1. Holds(r, "encoder") /\ ~Holds(r, "encoder")'
      BY Zenon, <1>2, <1>4, <2>2 DEF Holds, InState
    <3>2. QED  BY Zenon, <1>3, <1>8, <1>11, <2>2, <3>1, SlotGivenBack DEF Roles
  <2>3. CASE InState(tracker, r, {"DECODER_RUNNING"}) /\ free' = GiveBackOf("denoiser", r)
    <3>1. Holds(r, "denoiser") /\ ~Holds(r, "denoiser")'
      BY Zenon, <1>2, <1>4, <2>3 DEF Holds, InState
    <3>2. QED  BY Zenon, <1>3, <1>8, <1>11, <2>3, <3>1, SlotGivenBack DEF Roles
  <2>4. QED  BY Zenon, <1>1, <2>1, <2>2, <2>3
<1>13. QED  BY Zenon, <1>3, <1>7, <1>10, <1>12

(* _recycle_prealloc_slot keeps the free lists well typed.                 *)
LEMMA RecycledType ==
  ASSUME ServerTypeOK, NEW r \in Requests, NEW role \in Roles
  PROVE  /\ DOMAIN Recycled(r, role) = Roles
         /\ \A q \in Roles : Recycled(r, role)[q] \in [Inst(q) -> Seq(PreallocEntry)]
<1>1. CASE ~Recycles(r)
  BY Zenon, <1>1 DEF Recycled, ServerTypeOK
<1>2. CASE Recycles(r)
  <2> DEFINE entry == [slot |-> transfer[r].pre, addr |-> transfer[r].addr,
                       size |-> transfer[r].size]
  <2>1. entry \in PreallocEntry
    <3>1. transfer[r] \in TransferState /\ transfer[r].pre # None
      BY Zenon, <1>2 DEF Recycles, ServerTypeOK
    <3>2. QED  BY Zenon, <3>1 DEF TransferState, PreallocEntry
  <2>2. Recycled(r, role) = [peers EXCEPT ![role][transfer[r].receiver] = Append(@, entry)]
    BY Zenon, <1>2 DEF Recycled
  <2> HIDE DEF entry
  <2> DEFINE G == [peers[role] EXCEPT ![transfer[r].receiver] = Append(@, entry)]
  <2>3. DOMAIN peers = Roles /\ \A q \in Roles : peers[q] \in [Inst(q) -> Seq(PreallocEntry)]
    BY Zenon DEF ServerTypeOK
  <2>4. G \in [Inst(role) -> Seq(PreallocEntry)]
    <3>1. \A j \in Inst(role) : Append(peers[role][j], entry) \in Seq(PreallocEntry)
      BY <2>1, <2>3
    <3>2. QED  BY Zenon, <2>3, <3>1
  <2>5. Recycled(r, role) = [peers EXCEPT ![role] = G]
    BY Zenon, <2>2
  <2> HIDE DEF G
  <2>6. QED  BY Zenon, <2>3, <2>4, <2>5
<1>3. QED  BY Zenon, <1>1, <1>2

(* The transfer state stays well typed when the denoiser becomes sender.   *)
LEMMA StagedForDecoderType ==
  ASSUME ServerTypeOK, NEW r \in Requests, transfer[r] # None, NEW size \in Nat
  PROVE  StagedForDecoder(r, size) \in TransferState
<1>1. transfer[r] \in TransferState
  BY Zenon DEF ServerTypeOK
<1>2. Tracked(tracker, r) => tracker[r].instance["denoiser"] \in Nat \cup {None}
  BY ZenonT(60) DEF ServerTypeOK, RecordOK, Record, Tracked, Roles
<1>3. QED  BY Zenon, <1>1, <1>2 DEF StagedForDecoder, TransferState

(* _handle_transfer_done: an error gives back the denoiser slot and        *)
(* forgets the request, a success queues it for a decoder.                 *)
LEMMA DoneKeepsInvariant ==
  ASSUME Counting, SlotInvariant, NEW m \in net, HandleDone(m)
  PROVE  SlotInvariant'
<1> USE DEF SlotInvariant
<1> DEFINE r == m.id
<1>1. /\ m \in Tokens(net) /\ m.type = "DONE" /\ m.size \in Nat
      /\ net' = net \ {m} /\ todo' = todo \ {m.role} /\ peers' = Recycled(r, "denoiser")
      /\ UNCHANGED <<cursor, running, now, horizon, inbox>>
  BY Zenon DEF HandleDone, Tokens, Served, MessagesOK, MessageOK
<1>2. /\ r \in Requests
      /\ \A k \in Tokens(net') : k.id # r /\ k \in net
      /\ \A c \in Clients : inbox[c] # "taken" => IdOf[c] # r
      /\ \A q \in Roles : ~InQueue(r, q)
      /\ MessagesOK'
  BY Zenon, <1>1, LastToken
<1>3. /\ DOMAIN peers' = Roles
      /\ \A q \in Roles : peers'[q] \in [Inst(q) -> Seq(PreallocEntry)]
  BY Zenon, <1>1, <1>2, RecycledType DEF Roles
<1>4. Tracked(tracker, r) => tracker[r].state = "DENOISING_RUNNING" /\ transfer[r] # None
  <2>1. Tracked(tracker, r) => tracker[r].state = "DENOISING_RUNNING"
    BY Zenon, <1>1 DEF TokenState, StateOf
  <2>2. QED  BY Zenon, <1>2, <2>1 DEF TransferKept, InState, PastEncoder
<1>5. TrackerOK(tracker) /\ FreeOK(free) /\ FreeOK(GiveBackOf("denoiser", r))
      /\ tta \in [Roles -> Queue]
  BY Zenon, <1>2, GiveBackOfType DEF ServerTypeOK, TrackerOK, FreeOK, Queue, Roles
<1>6. ~InTransfer(r)'
  BY Zenon, <1>2 DEF InTransfer, Tokens
<1>7. CASE m.error
  <2>1. /\ free' = GiveBackOf("denoiser", r) /\ Complete(r, "error", None) /\ tta' = tta
        /\ transfer' = IF Recycles(r)
                       THEN [transfer EXCEPT ![r] = [transfer[r] EXCEPT !.pre = None]]
                       ELSE transfer
    BY Zenon, <1>7 DEF HandleDone
  <2>2. /\ TrackerOK(tracker') /\ ~Tracked(tracker', r)
        /\ \A x \in Requests \ {r} : tracker'[x] = tracker[x]
        /\ pending' \in [Requests -> Clients \cup {None}]
        /\ DOMAIN replies' = Clients
    BY Zenon, <1>2, <2>1, CompleteType
  <2>3. /\ transfer' \in [Requests -> TransferState \cup {None}]
        /\ \A x \in Requests \ {r} : transfer'[x] = transfer[x]
    <3> DEFINE ts == [transfer[r] EXCEPT !.pre = None]
    <3>1. Recycles(r) => transfer[r] \in TransferState
      BY Zenon, <1>2 DEF Recycles, ServerTypeOK
    <3>2. Recycles(r) => ts \in TransferState
      BY Zenon, <3>1 DEF TransferState
    <3> HIDE DEF ts
    <3>3. QED  BY Zenon, <1>2, <2>1, <3>2 DEF ServerTypeOK, ts
  <2>4. ServerTypeOK'
    BY Zenon, <1>1, <1>3, <1>5, <2>1, <2>2, <2>3 DEF ServerTypeOK, TrackerOK, FreeOK
  <2>5. \A x, q : InQueue(x, q)' <=> InQueue(x, q)
    BY Zenon, <2>1 DEF InQueue
  <2> HIDE DEF r
  <2>6. OthersKept(r)
    BY Zenon, <1>1, <1>2, <2>2, <2>3, <2>5 DEF OthersKept
  <2>7. /\ MovedOnce(r)
        /\ \A q \in Roles : ~Holds(r, q)' /\ \A i \in Inst(q) : r \notin Holders(q, i)'
    BY Zenon, <1>2, <2>2, <2>5, Forgotten
  <2>8. OneToken' /\ FreshRequests' /\ TokenState' /\ TransferKept'
    BY Zenon, <1>2, <2>6, <2>7, TokenMoves
  <2>9. Tracked(tracker, r) => Holds(r, "denoiser")
    BY Zenon, <1>4 DEF Holds, InState
  <2>10. SlotBound'
    BY Zenon, <1>2, <2>1, <2>6, <2>7, <2>9, SlotGivenBack DEF Roles
  <2>11. QED  BY Zenon, <1>2, <2>4, <2>8, <2>10
<1>8. CASE ~m.error /\ transfer[r] = None
  <2>1. ~Tracked(tracker, r)
    BY Zenon, <1>4, <1>8
  <2>2. UNCHANGED <<pending, replies, tta, transfer, free, tracker>>
    BY Zenon, <1>8, <2>1 DEF HandleDone, GiveBackOf, Transition
  <2>3. ServerTypeOK'
    BY Zenon, <1>1, <1>3, <2>2 DEF ServerTypeOK
  <2>4. \A x, q : InQueue(x, q)' <=> InQueue(x, q)
    BY Zenon, <2>2 DEF InQueue
  <2> HIDE DEF r
  <2>5. OthersKept(r)
    BY Zenon, <1>1, <1>2, <2>2, <2>4 DEF OthersKept
  <2>6. MovedOnce(r) /\ \A q \in Roles : \A i \in Inst(q) : r \notin Holders(q, i)'
    BY Zenon, <1>2, <2>1, <2>2, <2>4, Forgotten
  <2>7. OneToken' /\ FreshRequests' /\ TokenState' /\ TransferKept'
    BY Zenon, <1>2, <2>5, <2>6, TokenMoves
  <2>8. SlotBound'
    BY Zenon, <1>2, <2>2, <2>5, <2>6, NoNewHolder
  <2>9. QED  BY Zenon, <1>2, <2>3, <2>7, <2>8
<1>9. CASE ~m.error /\ transfer[r] # None
  <2>1. /\ UNCHANGED <<pending, replies, free>>
        /\ transfer' = [transfer EXCEPT ![r] = StagedForDecoder(r, m.size)]
        /\ tracker' = Transition(Transition(tracker, r, "DENOISING_DONE"), r, "DECODER_WAITING")
        /\ tta' = [tta EXCEPT !["decoder"] = Enqueue(@, r)]
    BY Zenon, <1>9 DEF HandleDone
  <2>2. /\ transfer' \in [Requests -> TransferState \cup {None}]
        /\ \A x \in Requests \ {r} : transfer'[x] = transfer[x]
        /\ transfer'[r] # None
    <3>1. StagedForDecoder(r, m.size) \in TransferState
      BY Zenon, <1>1, <1>2, <1>9, StagedForDecoderType
    <3>2. QED  BY Zenon, <1>2, <2>1, <3>1, NoneAssumption DEF ServerTypeOK
  <2>3. /\ TrackerOK(tracker') /\ \A x \in Requests \ {r} : tracker'[x] = tracker[x]
        /\ Tracked(tracker', r) => /\ Tracked(tracker, r)
                                   /\ tracker'[r].state = "DECODER_WAITING"
                                   /\ tracker'[r].instance = tracker[r].instance
    <3>1. /\ "DENOISING_DONE" \in ActiveStates \cup TerminalStates
          /\ "DECODER_WAITING" \in ActiveStates \cup TerminalStates
      BY Zenon DEF ActiveStates
    <3>2. /\ Legal("DENOISING_RUNNING", "DENOISING_DONE")
          /\ Legal("DENOISING_DONE", "DECODER_WAITING")
      BY Zenon DEF Legal, ValidTransitions, TerminalStates
    <3>3. Tracked(tracker, r) => tracker[r].state = "DENOISING_RUNNING"
      BY Zenon, <1>4
    <3>4. TrackerOK(tracker) /\ r \in Requests
      BY Zenon, <1>2, <1>5
    <3>5. tracker' = Transition(Transition(tracker, r, "DENOISING_DONE"), r, "DECODER_WAITING")
      BY Zenon, <2>1
    <3> HIDE DEF r
    <3>6. QED  BY ZenonT(60), <3>1, <3>2, <3>3, <3>4, <3>5, HandedOn
  <2>4. /\ tta' \in [Roles -> Queue]
        /\ \A x : \A q \in Roles : InQueue(x, q)' <=> InQueue(x, q) \/ (q = "decoder" /\ x = r)
    BY Zenon, <1>2, <1>5, <2>1, Enqueued DEF Roles
  <2>5. ServerTypeOK'
    BY Zenon, <1>1, <1>3, <2>1, <2>2, <2>3, <2>4 DEF ServerTypeOK, TrackerOK, Queue
  <2> HIDE DEF r
  <2>6. OthersKept(r)
    BY Zenon, <1>1, <1>2, <2>2, <2>3, <2>4 DEF OthersKept
  <2>7. MovedOnce(r)
    BY Zenon, <1>2, <2>2, <2>3, <2>4 DEF MovedOnce, WaitingFor, Roles
  <2>8. OneToken' /\ FreshRequests' /\ TokenState' /\ TransferKept'
    BY Zenon, <1>2, <2>6, <2>7, TokenMoves
  <2>9. \A q \in Roles : \A i \in Inst(q) : r \in Holders(q, i)' => r \in Holders(q, i)
    BY Zenon, <1>4, <1>6, <2>3 DEF Holders, Holds, InState, Roles
  <2>10. SlotBound'
    BY Zenon, <1>2, <2>1, <2>6, <2>9, NoNewHolder
  <2>11. QED  BY Zenon, <1>2, <2>5, <2>8, <2>10
<1>10. QED  BY Zenon, <1>7, <1>8, <1>9

(* _handle_decoder_result_frames gives back the decoder slot and forgets   *)
(* the request.                                                            *)
LEMMA OutputKeepsInvariant ==
  ASSUME Counting, SlotInvariant, NEW m \in net, HandleOutput(m)
  PROVE  SlotInvariant'
<1> USE DEF SlotInvariant
<1> DEFINE r == m.id
<1>1. /\ m \in Tokens(net) /\ m.type = "OUTPUT"
      /\ net' = net \ {m} /\ todo' = todo \ {m.role}
      /\ free' = GiveBackOf("decoder", r)
      /\ Complete(r, IF m.error THEN "error" ELSE "ok", m.data)
      /\ transfer' = IF pending[r] = None THEN transfer ELSE [transfer EXCEPT ![r] = None]
      /\ UNCHANGED <<tta, cursor, peers, running, now, horizon, inbox>>
  BY Zenon DEF HandleOutput, Tokens, Served
<1>2. /\ r \in Requests
      /\ \A k \in Tokens(net') : k.id # r /\ k \in net
      /\ \A c \in Clients : inbox[c] # "taken" => IdOf[c] # r
      /\ \A q \in Roles : ~InQueue(r, q)
      /\ MessagesOK'
  BY Zenon, <1>1, LastToken
<1>3. /\ TrackerOK(tracker') /\ ~Tracked(tracker', r)
      /\ \A x \in Requests \ {r} : tracker'[x] = tracker[x]
      /\ pending' \in [Requests -> Clients \cup {None}]
      /\ DOMAIN replies' = Clients
  BY Zenon, <1>1, <1>2, CompleteType
<1>4. FreeOK(free')
  BY Zenon, <1>1, <1>2, GiveBackOfType DEF Roles
<1>5. /\ transfer' \in [Requests -> TransferState \cup {None}]
      /\ \A x \in Requests \ {r} : transfer'[x] = transfer[x]
  BY Zenon, <1>1, <1>2 DEF ServerTypeOK
<1>6. ServerTypeOK'
  BY Zenon, <1>1, <1>3, <1>4, <1>5 DEF ServerTypeOK, TrackerOK, FreeOK
<1>7. \A x, q : InQueue(x, q)' <=> InQueue(x, q)
  BY Zenon, <1>1 DEF InQueue
<1>8. Tracked(tracker, r) => Holds(r, "decoder")
  BY Zenon, <1>1 DEF TokenState, StateOf, Holds, InState
<1> HIDE DEF r
<1>9. OthersKept(r)
  BY Zenon, <1>1, <1>2, <1>3, <1>5, <1>7 DEF OthersKept
<1>10. /\ MovedOnce(r)
       /\ \A q \in Roles : ~Holds(r, q)' /\ \A i \in Inst(q) : r \notin Holders(q, i)'
  BY Zenon, <1>2, <1>3, <1>7, Forgotten
<1>11. OneToken' /\ FreshRequests' /\ TokenState' /\ TransferKept'
  BY Zenon, <1>2, <1>9, <1>10, TokenMoves
<1>12. SlotBound'
  BY Zenon, <1>1, <1>2, <1>8, <1>9, <1>10, SlotGivenBack DEF Roles
<1>13. QED  BY Zenon, <1>2, <1>6, <1>11, <1>12

-------------------------------------------------------------------------------
(* The counters of the policies stay within the pool.                      *)
LEMMA AdvanceInPool ==
  ASSUME NEW n \in Nat \ {0}, NEW k \in Pool(n)
  PROVE  Advance(n, k) \in Pool(n)
BY DEF Advance, Pool

(* A policy keeps its counter within the pool, whether or not it finds a   *)
(* free instance.                                                          *)
LEMMA CursorInPool ==
  ASSUME NEW n \in Nat \ {0}, NEW k \in Pool(n), NEW i \in Pool(n)
  PROVE  CursorAfter(Policy, n, k, i) \in Pool(n) /\ CursorAfterNone(Policy, n, k) \in Pool(n)
BY Zenon, AdvanceInPool DEF CursorAfter, CursorAfterNone

(* The head of a queue is sent on as message n.                            *)
LEMMA DispatchKeepsInvariant ==
  ASSUME Counting, SlotInvariant, NEW role \in Roles, NEW i \in Inst(role), NEW e \in tta[role],
         Dispatch(role, e, i, RunningAt(role)),
         NEW n, net' = net \cup {n}, n.id = e.id, n.type # "REGISTER", MessageOK(n),
         StateOf(n) = RunningAt(role),
         transfer' \in [Requests -> TransferState \cup {None}],
         \A x \in Requests \ {e.id} : transfer'[x] = transfer[x],
         role \in Receivers => transfer'[e.id] # None,
         DOMAIN peers' = Roles,
         \A q \in Roles : peers'[q] \in [Inst(q) -> Seq(PreallocEntry)]
  PROVE  SlotInvariant'
<1> USE DEF SlotInvariant
<1> DEFINE r == e.id
<1>1. /\ tta' = [tta EXCEPT ![role] = Without(@, {r})]
      /\ free' = Take(role, i) /\ free[role][i] > 0
      /\ tracker' = TransitionAt(tracker, r, RunningAt(role), role, i)
      /\ cursor' = [cursor EXCEPT ![role] =
                      CursorAfter(Policy, NumInstances[role], cursor[role], i)]
      /\ UNCHANGED <<pending, todo, running, now, horizon, inbox, replies>>
  BY Zenon DEF Dispatch, Selects, RoundRobinSelects, MaxFreeSlotsSelects
<1>2. /\ r \in Requests /\ r # None /\ InQueue(r, role) /\ tta \in [Roles -> Queue]
      /\ TrackerOK(tracker) /\ FreeOK(free)
  <2>1. tta \in [Roles -> Queue] /\ TrackerOK(tracker) /\ FreeOK(free)
    BY Zenon DEF ServerTypeOK, Queue, TrackerOK, FreeOK
  <2>2. e \in [id : Requests, ahead : SUBSET Requests]
    BY Zenon, <2>1 DEF Queue
  <2>3. r \in Requests
    BY Zenon, <2>2
  <2>4. r # None
    BY Zenon, <2>3, DeploymentAssumption
  <2>5. QED  BY Zenon, <2>1, <2>3, <2>4 DEF InQueue
<1>3. Tracked(tracker, r) => tracker[r].state = WaitingFor(role)
  BY Zenon, <1>2 DEF TokenState
<1>4. /\ TrackerOK(tracker') /\ \A x \in Requests \ {r} : tracker'[x] = tracker[x]
      /\ Tracked(tracker', r) =>
           /\ Tracked(tracker, r)
           /\ tracker'[r].state = RunningAt(role) /\ tracker'[r].instance[role] = i
           /\ \A q \in Roles \ {role} : tracker'[r].instance[q] = tracker[r].instance[q]
  BY DispatchEffect
<1>5. /\ tta' \in [Roles -> Queue]
      /\ \A x : \A q \in Roles : InQueue(x, q)' <=> InQueue(x, q) /\ ~(q = role /\ x = r)
  BY DispatchEffect
<1>6. FreeOK(free')
  BY Zenon, <1>1, <1>2, TakeEffect
<1>7. cursor' \in [Roles -> Int] /\ \A q \in Roles : cursor'[q] \in Inst(q)
  <2>1. NumInstances[role] \in Nat \ {0} /\ cursor[role] \in Inst(role)
    BY Zenon, DeploymentAssumption DEF ServerTypeOK
  <2>2. CursorAfter(Policy, NumInstances[role], cursor[role], i) \in Inst(role)
    BY Zenon, <2>1, CursorInPool DEF Inst
  <2>3. CursorAfter(Policy, NumInstances[role], cursor[role], i) \in Int
    BY Zenon, <2>2, InstancesAreNumbers
  <2>4. QED  BY Zenon, <1>1, <2>2, <2>3 DEF ServerTypeOK
<1>8. ServerTypeOK'
  BY Zenon, <1>1, <1>4, <1>5, <1>6, <1>7 DEF ServerTypeOK, TrackerOK, FreeOK, Queue
<1>9. /\ \A k \in Tokens(net) : k.id # r
      /\ \A q \in Roles : ~InQueue(r, q)'
      /\ \A c \in Clients : inbox[c] # "taken" => IdOf[c] # r
  BY Zenon, <1>2, <1>5 DEF OneToken, FreshRequests
<1>10. \A k \in Tokens(net') : IF k.id = r THEN k = n ELSE k \in net
  BY Zenon, <1>9 DEF Tokens
<1>11. MessagesOK'
  BY Zenon DEF MessagesOK
<1> HIDE DEF r
<1>12. OthersKept(r)
  BY Zenon, <1>1, <1>4, <1>5, <1>9, <1>10 DEF OthersKept, r
<1>13. MovedOnce(r)
  <2>1. InState(tracker', r, PastEncoder) => transfer'[r] # None
    BY Zenon, <1>4 DEF InState, PastEncoder, RunningAt, Receivers, Roles, r
  <2>2. QED  BY Zenon, <1>4, <1>9, <1>10, <2>1 DEF MovedOnce, Receivers, Roles
<1>14. OneToken' /\ FreshRequests' /\ TokenState' /\ TransferKept'
  BY Zenon, <1>2, <1>12, <1>13, TokenMoves
<1>15. ASSUME NEW q \in Roles, NEW j \in Inst(q), r \in Holders(q, j)'
       PROVE  r \in Holders(q, j) \/ (q = role /\ j = i)
  <2>1. /\ Tracked(tracker', r) /\ Holds(r, q)' /\ tracker'[r].instance[q] = j
    BY Zenon, <1>15 DEF Holders, Holds, InState, Roles
  <2>2. Tracked(tracker, r) /\ tracker[r].state = WaitingFor(role)
    BY Zenon, <1>3, <1>4, <2>1
  <2>3. CASE q = role
    BY Zenon, <1>4, <2>1, <2>3
  <2>4. CASE q # role
    <3>1. tracker[r].instance[q] = j
      BY Zenon, <1>4, <2>1, <2>4
    <3>2. Holds(r, q)
      <4>1. tracker'[r].state = RunningAt(role)
        BY Zenon, <1>4, <2>1
      <4>2. CASE q = "encoder"
        BY Zenon, <2>1, <2>2, <2>4, <4>1, <4>2 DEF Holds, InState, RunningAt, WaitingFor, Roles
      <4>3. CASE q = "denoiser"
        BY Zenon, <2>1, <2>2, <2>4, <4>1, <4>3 DEF Holds, InState, RunningAt, WaitingFor, Roles
      <4>4. CASE q = "decoder"
        BY Zenon, <2>1, <2>2, <2>4, <4>1, <4>4 DEF Holds, InState, RunningAt, WaitingFor, Roles
      <4>5. QED  BY Zenon, <4>2, <4>3, <4>4 DEF Roles
    <3>3. QED  BY Zenon, <1>2, <3>1, <3>2 DEF Holders
  <2>5. QED  BY Zenon, <2>3, <2>4
<1>16. SlotBound'
  <2>1. \A q \in Roles : \A j \in Inst(q) :
          r \in Holders(q, j)' => r \in Holders(q, j) \/ (q = role /\ j = i)
    BY Zenon, <1>15
  <2>2. SlotBound /\ ServerTypeOK /\ r \in Requests /\ free' = Take(role, i) /\ free[role][i] > 0
    BY Zenon, <1>1, <1>2
  <2>3. QED  BY <1>12, <2>1, <2>2, SlotTaken
<1>17. QED  BY Zenon, <1>8, <1>11, <1>14, <1>16

(* _dispatch_to_encoder takes a free slot.                                 *)
LEMMA DispatchToEncoderKeepsInvariant ==
  ASSUME Counting, SlotInvariant, NEW i \in Inst("encoder"), NEW e \in tta["encoder"],
         DispatchToEncoder(e, i)
  PROVE  SlotInvariant'
<1> DEFINE n == REQUEST(i, e.id)
<1>1. /\ n.id = e.id /\ n.type # "REGISTER" /\ MessageOK(n)
      /\ StateOf(n) = RunningAt("encoder")
  BY Zenon DEF REQUEST, MessageOK, StateOf, RunningAt, Roles
<1>2. /\ Dispatch("encoder", e, i, RunningAt("encoder")) /\ net' = net \cup {n}
      /\ transfer' = transfer /\ peers' = peers
  BY Zenon DEF DispatchToEncoder, RunningAt
<1>3. /\ "encoder" \in Roles /\ "encoder" \notin Receivers
      /\ transfer' \in [Requests -> TransferState \cup {None}]
      /\ DOMAIN peers' = Roles
      /\ \A q \in Roles : peers'[q] \in [Inst(q) -> Seq(PreallocEntry)]
  BY Zenon, <1>2 DEF SlotInvariant, ServerTypeOK, Roles, Receivers
<1> HIDE DEF n
<1>4. QED  BY Zenon, <1>1, <1>2, <1>3, DispatchKeepsInvariant

(* _transfer_dispatch_to_denoiser and _transfer_dispatch_to_decoder take a *)
(* free slot, on the fast and on the slow path.                            *)
LEMMA DispatchTransferKeepsInvariant ==
  ASSUME Counting, SlotInvariant, NEW role \in Receivers, NEW i \in Inst(role),
         NEW e \in tta[role], DispatchTransfer(role, e, i)
  PROVE  SlotInvariant'
<1> DEFINE r == e.id
<1>1. role \in Roles /\ role \in {"denoiser", "decoder"}
  BY Zenon DEF Receivers, Roles
<1>2. r \in Requests /\ transfer[r] \in TransferState
  <2>1. r \in Requests /\ InQueue(r, role)
    BY <1>1 DEF SlotInvariant, ServerTypeOK, InQueue
  <2>2. transfer[r] # None
    BY Zenon, <2>1 DEF SlotInvariant, TransferKept
  <2>3. QED  BY Zenon, <2>1, <2>2 DEF SlotInvariant, ServerTypeOK
<1>3. Dispatch(role, e, i, RunningAt(role))
  BY Zenon, <1>1 DEF DispatchTransfer, RunningAt
<1>4. /\ DOMAIN peers = Roles
      /\ \A q \in Roles : peers[q] \in [Inst(q) -> Seq(PreallocEntry)]
      /\ transfer \in [Requests -> TransferState \cup {None}]
  BY Zenon DEF SlotInvariant, ServerTypeOK
<1>5. i \in Nat
  BY <1>1, DeploymentAssumption DEF Inst, Pool
<1>6. CASE FastPath(role, r, i)
  <2> DEFINE slot == Head(peers[role][i])
             n == PUSH(Upstream(role), transfer[r].sender, r, slot.addr, transfer[r].size)
             ts == [transfer[r] EXCEPT !.receiver = i, !.addr = slot.addr, !.pre = slot.slot]
             G == [peers[role] EXCEPT ![i] = Tail(@)]
  <2>1. /\ net' = net \cup {n} /\ transfer' = [transfer EXCEPT ![r] = ts]
        /\ peers' = [peers EXCEPT ![role][i] = Tail(@)]
    BY Zenon, <1>6 DEF DispatchTransfer, ClaimSlot
  <2>2. peers[role][i] \in Seq(PreallocEntry) /\ peers[role][i] # <<>>
    BY Zenon, <1>1, <1>4, <1>6 DEF FastPath
  <2>3. slot \in PreallocEntry /\ Tail(peers[role][i]) \in Seq(PreallocEntry)
    BY <2>2
  <2>4. G \in [Inst(role) -> Seq(PreallocEntry)]
    BY Zenon, <1>1, <1>4, <2>3
  <2>5. peers' = [peers EXCEPT ![role] = G]
    BY Zenon, <2>1
  <2> HIDE DEF G, slot
  <2>6. /\ DOMAIN peers' = Roles
        /\ \A q \in Roles : peers'[q] \in [Inst(q) -> Seq(PreallocEntry)]
    BY Zenon, <1>4, <2>4, <2>5
  <2>7. ts \in TransferState
    BY Zenon, <1>2, <1>5, <2>3 DEF TransferState, PreallocEntry
  <2> HIDE DEF ts
  <2>8. /\ transfer' \in [Requests -> TransferState \cup {None}]
        /\ \A x \in Requests \ {r} : transfer'[x] = transfer[x]
        /\ transfer'[r] # None
    BY Zenon, <1>2, <1>4, <2>1, <2>7, NoneAssumption
  <2>9. /\ n.id = r /\ n.type # "REGISTER" /\ MessageOK(n) /\ StateOf(n) = RunningAt(role)
    BY Zenon, <1>1 DEF PUSH, MessageOK, StateOf, RunningAt, Upstream, Roles
  <2> HIDE DEF n
  <2>10. QED  BY Zenon, <1>1, <1>3, <2>1, <2>6, <2>8, <2>9, DispatchKeepsInvariant
<1>7. CASE ~FastPath(role, r, i)
  <2> DEFINE n == ALLOC(role, i, r, transfer[r].size)
             ts == [transfer[r] EXCEPT !.receiver = i]
  <2>1. /\ net' = net \cup {n} /\ transfer' = [transfer EXCEPT ![r] = ts]
        /\ peers' = peers
    BY Zenon, <1>7 DEF DispatchTransfer
  <2>2. ts \in TransferState
    BY Zenon, <1>2, <1>5 DEF TransferState
  <2> HIDE DEF ts
  <2>3. /\ transfer' \in [Requests -> TransferState \cup {None}]
        /\ \A x \in Requests \ {r} : transfer'[x] = transfer[x]
        /\ transfer'[r] # None
    BY Zenon, <1>2, <1>4, <2>1, <2>2, NoneAssumption
  <2>4. /\ n.id = r /\ n.type # "REGISTER" /\ MessageOK(n) /\ StateOf(n) = RunningAt(role)
    BY Zenon, <1>1 DEF ALLOC, MessageOK, StateOf, RunningAt
  <2> HIDE DEF n
  <2>5. QED  BY Zenon, <1>1, <1>3, <1>4, <2>1, <2>3, <2>4, DispatchKeepsInvariant
<1>8. QED  BY Zenon, <1>6, <1>7

(* A timeout gives back only slots that the expired requests hold.         *)
LEMMA PollKeepsInvariant ==
  ASSUME Counting, SlotInvariant, Poll
  PROVE  SlotInvariant'
<1> USE DEF SlotInvariant
<1> DEFINE T == FindTimedOut(tracker, horizon)
           F(q, i) == {r \in T : FreesSlot(r, q, i)}
<1>1. /\ free' = [q \in Roles |-> [i \in Inst(q) |-> free[q][i] + Cardinality(F(q, i))]]
      /\ tracker' = [r \in Requests |-> IF r \in T THEN None ELSE tracker[r]]
      /\ pending' = PopPending(T) /\ DOMAIN replies' = Clients
      /\ tta' = [q \in Roles |-> Without(tta[q], T)]
      /\ todo' \subseteq Sockets
      /\ UNCHANGED <<transfer, peers, running, now, horizon, inbox, net>>
  BY Zenon DEF Poll, HandleTimeouts
<1>2. cursor' = [q \in Roles |->
                   IF tta[q] = {} THEN cursor[q]
                   ELSE CursorAfterNone(Policy, NumInstances[q], cursor[q])]
  BY Zenon DEF Poll
<1>3. \A r \in T : r \in Requests /\ Tracked(tracker, r)
  BY Zenon DEF FindTimedOut, InState
<1>4. \A q \in Roles : \A i \in Inst(q) : F(q, i) \subseteq Holders(q, i)
  <2> SUFFICES ASSUME NEW q \in Roles, NEW i \in Inst(q), NEW r \in F(q, i)
               PROVE  r \in Holders(q, i)
    BY Zenon
  <2>1. r \in Requests /\ Tracked(tracker, r) /\ FreesSlot(r, q, i)
    BY Zenon, <1>3
  <2>2. Holds(r, q)
    BY Zenon, <2>1 DEF FreesSlot, Holds, InState, Roles
  <2>3. QED  BY Zenon, <2>1, <2>2 DEF FreesSlot, Holders
<1> HIDE DEF T, F
<1>5. \A r \in Requests : tracker'[r] = IF r \in T THEN None ELSE tracker[r]
  BY Zenon, <1>1
<1>6. /\ \A q \in Roles : tta'[q] \in Queue
      /\ \A x : \A q \in Roles : InQueue(x, q)' <=> InQueue(x, q) /\ x \notin T
  <2>1. \A q \in Roles : tta[q] \in Queue /\ tta'[q] = Without(tta[q], T)
    BY Zenon, <1>1 DEF ServerTypeOK, Queue
  <2>2. \A q \in Roles : tta'[q] \in Queue
    BY <2>1, WithoutEffect
  <2>3. ASSUME NEW x, NEW q \in Roles
        PROVE  InQueue(x, q)' <=> InQueue(x, q) /\ x \notin T
    BY <2>1, WithoutEffect DEF InQueue
  <2>4. QED  BY Zenon, <2>2, <2>3
<1>7. \A x : InTransfer(x)' <=> InTransfer(x)
  BY Zenon, <1>1 DEF InTransfer
<1>8. \A q \in Roles : \A i \in Inst(q) :
        Holders(q, i)' \subseteq Holders(q, i) \ F(q, i)
  <2> SUFFICES ASSUME NEW q \in Roles, NEW i \in Inst(q), NEW r \in Holders(q, i)'
               PROVE  r \in Holders(q, i) /\ r \notin F(q, i)
    BY Zenon
  <2>1. r \in Requests /\ Holds(r, q)' /\ tracker'[r].instance[q] = i
    BY Zenon DEF Holders
  <2>2. tracker'[r] # None
    BY Zenon, <2>1 DEF Holds, InState, Tracked, Roles
  <2>3. r \notin T /\ tracker'[r] = tracker[r]
    BY Zenon, <1>5, <2>1, <2>2
  <2>4. Holds(r, q)
    BY Zenon, <1>7, <2>1, <2>3 DEF Holds, InState, Tracked, Roles
  <2>5. QED  BY Zenon, <2>1, <2>3, <2>4 DEF Holders, F
<1>9. ASSUME NEW q \in Roles, NEW i \in Inst(q)
      PROVE  /\ free'[q][i] = free[q][i] + Cardinality(F(q, i)) /\ free'[q][i] \in Int
             /\ free'[q][i] >= 0
             /\ free'[q][i] + Cardinality(Holders(q, i)') <= Capacity[q]
  <2>1. free[q][i] \in Int /\ Capacity[q] \in Nat
    BY Zenon, ServerAssumption DEF ServerTypeOK
  <2>2. free[q][i] >= 0 /\ free[q][i] + Cardinality(Holders(q, i)) <= Capacity[q]
    BY Zenon DEF SlotBound
  <2>3. IsFiniteSet(Holders(q, i)) /\ F(q, i) \subseteq Holders(q, i)
        /\ Holders(q, i)' \subseteq Holders(q, i) \ F(q, i)
    BY Zenon, <1>4, <1>8, HoldersFinite
  <2>4. Cardinality(F(q, i)) \in Nat
    BY Zenon, <2>3 DEF Counting
  <2>5. free'[q][i] = free[q][i] + Cardinality(F(q, i))
    BY Zenon, <1>1
  <2>6. /\ free[q][i] + Cardinality(F(q, i)) >= 0
        /\ free[q][i] + Cardinality(F(q, i)) + Cardinality(Holders(q, i)') <= Capacity[q]
    BY Zenon, <2>1, <2>2, <2>3, BoundGiveBack
  <2>7. QED  BY <2>1, <2>4, <2>5, <2>6
<1>10. SlotBound'
  BY Zenon, <1>9 DEF SlotBound
<1>11. FreeOK(free')
  <2>1. DOMAIN free' = Roles /\ \A q \in Roles : free'[q] = [i \in Inst(q) |-> free'[q][i]]
    BY Zenon, <1>1
  <2>2. QED  BY Zenon, <1>9, <2>1 DEF FreeOK
<1>12. cursor' \in [Roles -> Int] /\ \A q \in Roles : cursor'[q] \in Inst(q)
  <2>1. \A q \in Roles : NumInstances[q] \in Nat \ {0} /\ cursor[q] \in Inst(q)
    BY Zenon, DeploymentAssumption DEF ServerTypeOK
  <2>2. \A q \in Roles : CursorAfterNone(Policy, NumInstances[q], cursor[q]) \in Inst(q)
    BY Zenon, <2>1, CursorInPool DEF Inst
  <2>3. \A q \in Roles : cursor'[q] \in Inst(q)
    BY Zenon, <1>2, <2>1, <2>2
  <2>4. \A q \in Roles : cursor'[q] \in Int
    BY <2>1, <2>3 DEF Inst, Pool
  <2>5. QED  BY Zenon, <1>2, <2>3, <2>4
<1>13. TrackerOK(tracker') /\ pending' \in [Requests -> Clients \cup {None}]
  BY Zenon, <1>1 DEF ServerTypeOK, TrackerOK, PopPending
<1>14. tta' \in [Roles -> Queue]
  BY Zenon, <1>1, <1>6
<1>15. ServerTypeOK'
  BY Zenon, <1>1, <1>11, <1>12, <1>13, <1>14 DEF ServerTypeOK, TrackerOK, FreeOK, Queue
<1>16. MessagesOK' /\ OneToken'
  BY Zenon, <1>1, <1>6 DEF MessagesOK, OneToken
<1>17. FreshRequests'
  <2> SUFFICES ASSUME NEW c \in Clients, inbox'[c] # "taken", IdOf[c] # None
               PROVE  /\ ~Tracked(tracker', IdOf[c])
                      /\ \A q \in Roles : ~InQueue(IdOf[c], q)'
                      /\ \A m \in Tokens(net') : m.id # IdOf[c]
    BY Zenon DEF FreshRequests
  <2>1. IdOf[c] \in Requests
    BY Zenon, DeploymentAssumption
  <2>2. QED  BY Zenon, <1>1, <1>5, <1>6, <2>1 DEF FreshRequests, Tracked
<1>18. TokenState' /\ TransferKept'
  BY Zenon, <1>1, <1>5, <1>6
    DEF TokenState, TransferKept, OneToken, Tracked, InState, Receivers, Roles
<1>19. QED  BY Zenon, <1>10, <1>15, <1>16, <1>17, <1>18

-------------------------------------------------------------------------------

(* At start all slots are free and nothing but registrations is sent.      *)
LEMMA InitSlotInvariant ==
  ASSUME Counting
  PROVE  Init => SlotInvariant
<1> SUFFICES ASSUME Init
             PROVE  SlotInvariant
  BY Zenon
<1>1. /\ tracker = [r \in Requests |-> None] /\ transfer = [r \in Requests |-> None]
      /\ tta = [q \in Roles |-> {}]
      /\ free = [q \in Roles |-> [i \in Inst(q) |-> Capacity[q]]]
      /\ net = UNION {{REGISTER(q, i) : i \in Inst(q)} : q \in Roles}
  BY Zenon DEF Init, ServerInit, RolesInit
<1>2. ServerTypeOK
  <2>1. \A q \in Roles : 0 \in Inst(q) /\ Capacity[q] \in Int
    BY DeploymentAssumption, ServerAssumption DEF Inst, Pool
  <2>2. <<>> \in Seq(PreallocEntry)
    OBVIOUS
  <2>3. QED  BY <2>1, <2>2 DEF ServerTypeOK, Init, ServerInit
<1>3. \A m \in net : \E q \in Roles : \E i \in Inst(q) : m = REGISTER(q, i)
  BY Zenon, <1>1
<1>4. MessagesOK /\ Tokens(net) = {}
  <2>1. ASSUME NEW q \in Roles, NEW i \in Inst(q)
        PROVE  MessageOK(REGISTER(q, i)) /\ REGISTER(q, i).type = "REGISTER"
    BY Zenon DEF MessageOK, REGISTER
  <2>2. QED  BY Zenon, <1>3, <2>1 DEF MessagesOK, Tokens
<1>5. /\ \A r : \A q \in Roles : ~InQueue(r, q)
      /\ \A r \in Requests : ~Tracked(tracker, r)
  BY Zenon, <1>1 DEF InQueue, Tracked
<1>6. OneToken /\ TokenState /\ TransferKept
  BY Zenon, <1>4, <1>5 DEF OneToken, TokenState, TransferKept, InState, Receivers, Roles
<1>7. FreshRequests
  BY Zenon, <1>4, <1>5, DeploymentAssumption DEF FreshRequests
<1>8. SlotBound
  <2> SUFFICES ASSUME NEW q \in Roles, NEW i \in Inst(q)
               PROVE  free[q][i] >= 0 /\ free[q][i] + Cardinality(Holders(q, i)) <= Capacity[q]
    BY Zenon DEF SlotBound
  <2>1. Holders(q, i) = {}
    BY Zenon, <1>5 DEF Holders, Holds, InState, Roles
  <2>2. free[q][i] = Capacity[q] /\ Capacity[q] \in Nat /\ Cardinality({}) = 0
    BY Zenon, <1>1, ServerAssumption DEF Counting
  <2>3. QED  BY <2>1, <2>2
<1>9. QED  BY Zenon, <1>2, <1>4, <1>6, <1>7, <1>8 DEF SlotInvariant

(* Every step keeps the invariant.                                         *)
LEMMA NextSlotInvariant ==
  ASSUME Counting, UniqueIds, SlotInvariant, [Next]_vars
  PROVE  SlotInvariant'
<1>1. CASE \E c \in Clients : ClientSend(c)
  BY Zenon, <1>1, ClientSendKeepsInvariant
<1>2. CASE Tick
  BY Zenon, <1>2, TickKeepsInvariant
<1>3. CASE RolesNext /\ UNCHANGED serverVars
  BY Zenon, <1>3, RolesKeepInvariant
<1>4. CASE ServerNext
  BY Zenon, <1>4, PollKeepsInvariant, ClientRequestKeepsInvariant, RegisterKeepsInvariant,
     ErrorKeepsInvariant, StagedKeepsInvariant, AllocatedKeepsInvariant,
     PushedKeepsInvariant, DoneKeepsInvariant, OutputKeepsInvariant,
     DispatchToEncoderKeepsInvariant, DispatchTransferKeepsInvariant
    DEF ServerNext
<1>5. CASE UNCHANGED vars
  <2>1. ServerTypeOK'
    BY Zenon, <1>5 DEF SlotInvariant, ServerTypeOK, vars, serverVars
  <2>2. QED  BY Zenon, <1>5, <2>1, UntouchedKeepInvariant DEF vars, serverVars
<1>6. QED  BY Zenon, <1>1, <1>2, <1>3, <1>4, <1>5 DEF Next
===============================================================================
