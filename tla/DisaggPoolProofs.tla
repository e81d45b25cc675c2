--------------------------- MODULE DisaggPoolProofs ---------------------------
(***************************************************************************)
(* Every handler of a role instance keeps the blocks of two requests       *)
(* apart: it preserves OwnershipInvariant, given SlotInvariant.            *)
(***************************************************************************)
EXTENDS DisaggOwnership, TLAPS

-------------------------------------------------------------------------------
(* One pool: taking, giving back and handing over its blocks.              *)

Register == [Requests -> Slots \cup {None}]

(* A slot is a number, so it is not None.                                  *)
LEMMA SlotsAreSlots == None \notin Slots /\ Prealloc \subseteq Slots
BY DeploymentAssumption DEF Slots, Prealloc

(* stage_tensors puts an output into a free block.                         *)
LEMMA BlockStaged ==
  ASSUME NEW F, NEW A, NEW S \in Register, NEW R \in Register, Apart(F, A, S, R),
         NEW r \in Requests, NEW s \in Slots \ A
  PROVE  Apart(F, A \cup {s}, [S EXCEPT ![r] = s], R)
BY SlotsAreSlots DEF Apart, Register

(* allocate_receive_slot takes a free block for data to come.              *)
LEMMA BlockReceives ==
  ASSUME NEW F, NEW A, NEW S \in Register, NEW R \in Register, Apart(F, A, S, R),
         NEW r \in Requests, NEW s \in Slots \ A
  PROVE  Apart(F, A \cup {s}, S, [R EXCEPT ![r] = s])
BY SlotsAreSlots DEF Apart, Register

(* free_staged frees the block of a pushed output.                         *)
LEMMA BlockPushed ==
  ASSUME NEW F, NEW A, NEW S \in Register, NEW R \in Register, Apart(F, A, S, R),
         NEW r \in Requests, S[r] # None
  PROVE  Apart(F, A \ {S[r]}, [S EXCEPT ![r] = None], R)
BY DEF Apart, Register

(* free_receive_slot frees the block of loaded data, unless it is one that *)
(* was preallocated.                                                       *)
LEMMA BlockLoaded ==
  ASSUME NEW F, NEW A, NEW S \in Register, NEW R \in Register, Apart(F, A, S, R),
         NEW r \in Requests, NEW B, B = A \/ (B = A \ {R[r]} /\ R[r] \notin F)
  PROVE  Apart(F, B, S, [R EXCEPT ![r] = None])
BY Zenon DEF Apart, Register

(* A preallocated block is registered for a request.                       *)
LEMMA BlockRegistered ==
  ASSUME NEW F, NEW A, NEW S \in Register, NEW R \in Register, Apart(F, A, S, R),
         NEW r \in Requests, NEW s \in F
  PROVE  Apart(F, A, S, [R EXCEPT ![r] = s])
BY Zenon DEF Apart, Register

(* A block is taken and lost.                                              *)
LEMMA BlockLost ==
  ASSUME NEW F, NEW A, NEW S, NEW R, Apart(F, A, S, R), NEW s
  PROVE  Apart(F, A \cup {s}, S, R)
BY Zenon DEF Apart

-------------------------------------------------------------------------------
(* The pools of all instances.                                             *)

(* g is f with v for instance i of role q.                                 *)
Assigned(g, f, T, q, i, v) ==
  /\ DOMAIN g = Roles /\ \A p \in Roles : g[p] \in [Inst(p) -> T]
  /\ \A p \in Roles : \A j \in Inst(p) :
       g[p][j] = IF p = q /\ j = i THEN v ELSE f[p][j]

(* SetPool and UNCHANGED, in these terms ...                               *)
LEMMA PoolAssigned ==
  ASSUME NEW f, DOMAIN f = Roles, NEW T, \A p \in Roles : f[p] \in [Inst(p) -> T],
         NEW q \in Roles, NEW i \in Inst(q)
  PROVE  /\ Assigned(f, f, T, q, i, f[q][i])
         /\ \A v \in T : Assigned([f EXCEPT ![q][i] = v], f, T, q, i, v)
<1>1. Assigned(f, f, T, q, i, f[q][i])
  BY Zenon DEF Assigned
<1>2. ASSUME NEW v \in T
      PROVE  Assigned([f EXCEPT ![q][i] = v], f, T, q, i, v)
  <2> DEFINE G == [f[q] EXCEPT ![i] = v]
  <2>1. G \in [Inst(q) -> T] /\ G[i] = v /\ \A j \in Inst(q) \ {i} : G[j] = f[q][j]
    BY Zenon
  <2>2. [f EXCEPT ![q][i] = v] = [f EXCEPT ![q] = G]
    BY Zenon
  <2> HIDE DEF G
  <2>3. QED  BY Zenon, <2>1, <2>2 DEF Assigned
<1>3. QED  BY Zenon, <1>1, <1>2

(* ... and SetStaged and SetReceive.                                       *)
LEMMA EntryAssigned ==
  ASSUME NEW f, DOMAIN f = Roles, \A p \in Roles : f[p] \in [Inst(p) -> Register],
         NEW q \in Roles, NEW i \in Inst(q), NEW r \in Requests, NEW s \in Slots \cup {None}
  PROVE  /\ [f[q][i] EXCEPT ![r] = s] \in Register
         /\ Assigned([f EXCEPT ![q][i][r] = s], f, Register, q, i, [f[q][i] EXCEPT ![r] = s])
<1> DEFINE v == [f[q][i] EXCEPT ![r] = s]
<1>1. v \in Register
  BY Zenon DEF Register
<1>2. [f EXCEPT ![q][i][r] = s] = [f EXCEPT ![q][i] = v]
  BY Zenon
<1> HIDE DEF v
<1>3. Assigned([f EXCEPT ![q][i] = v], f, Register, q, i, v)
  BY Zenon, <1>1, PoolAssigned
<1>4. QED  BY Zenon, <1>1, <1>2, <1>3 DEF v

(* A step that changes the pool of instance i of role q only, and in it    *)
(* the entries of request r only.                                          *)
OnePool(q, i, r, A, S, R) ==
  /\ \A x \in Requests \ {r} : S[x] = staged[q][i][x] /\ R[x] = receives[q][i][x]
  /\ Assigned(allocated', allocated, SUBSET Slots, q, i, A)
  /\ Assigned(staged', staged, Register, q, i, S)
  /\ Assigned(receives', receives, Register, q, i, R)

(* The entries of request x stay as they are.                              *)
EntriesKept(x) ==
  \A q \in Roles : \A i \in Inst(q) :
    staged'[q][i][x] = staged[q][i][x] /\ receives'[q][i][x] = receives[q][i][x]

(* If its blocks are still apart, those of all pools are.                  *)
LEMMA PoolStep ==
  ASSUME PoolsApart, NEW q \in Roles, NEW i \in Inst(q), NEW r \in Requests,
         NEW A, NEW S, NEW R, OnePool(q, i, r, A, S, R), Apart(Fixed(q), A, S, R),
         DOMAIN mem' = AllAddr
  PROVE  /\ RolesTypeOK' /\ PoolsApart'
         /\ \A x \in Requests \ {r} : EntriesKept(x)
         /\ staged'[q][i] = S /\ receives'[q][i] = R
<1>1. RolesTypeOK'
  BY Zenon DEF OnePool, Assigned, RolesTypeOK, Register
<1>2. PoolsApart'
  <2> SUFFICES ASSUME NEW p \in Roles, NEW j \in Inst(p)
               PROVE  Apart(Fixed(p), allocated'[p][j], staged'[p][j], receives'[p][j])
    BY Zenon DEF PoolsApart, Fixed
  <2>1. Apart(Fixed(p), allocated[p][j], staged[p][j], receives[p][j])
    BY Zenon DEF PoolsApart
  <2>2. CASE p = q /\ j = i
    BY Zenon, <2>2 DEF OnePool, Assigned
  <2>3. CASE ~(p = q /\ j = i)
    BY Zenon, <2>1, <2>3 DEF OnePool, Assigned
  <2>4. QED  BY Zenon, <2>2, <2>3
<1>3. \A x \in Requests \ {r} : EntriesKept(x)
  <2> SUFFICES ASSUME NEW x \in Requests \ {r}, NEW p \in Roles, NEW j \in Inst(p)
               PROVE  /\ staged'[p][j][x] = staged[p][j][x]
                      /\ receives'[p][j][x] = receives[p][j][x]
    BY Zenon DEF EntriesKept
  <2>1. QED  BY Zenon DEF OnePool, Assigned
<1>4. QED  BY Zenon, <1>1, <1>2, <1>3 DEF OnePool, Assigned

-------------------------------------------------------------------------------
(* The tokens.                                                             *)

(* A step that is not about request x, except that it may forget it.       *)
Kept(x) ==
  /\ EntriesKept(x) /\ transfer'[x] = transfer[x]
  /\ tracker'[x] = tracker[x] \/ tracker'[x] = None
  /\ \A q \in Receivers : InQueue(x, q)' => InQueue(x, q)

(* What the transfer state and the pools say of x stays so.                *)
LEMMA PlacesKept ==
  ASSUME NEW x, Kept(x), NEW q \in Receivers
  PROVE  /\ \A i : WorksAt(x, q, i) => WorksAt(x, q, i)'
         /\ \A i \in Inst(q) : Lands(x, q, i) => Lands(x, q, i)'
         /\ Waits(x, q) => Waits(x, q)'
<1>1. q \in Roles /\ Upstream(q) \in Roles
  BY Zenon DEF Receivers, Roles, Upstream
<1>2. /\ transfer'[x] = transfer[x]
      /\ Tracked(tracker', x) => Tracked(tracker, x) /\ tracker'[x] = tracker[x]
  BY Zenon DEF Kept, Tracked
<1>3. \A i : WorksAt(x, q, i) => WorksAt(x, q, i)'
  BY Zenon, <1>2 DEF WorksAt
<1>4. \A i \in Inst(q) : Lands(x, q, i) => Lands(x, q, i)'
  BY Zenon, <1>1, <1>2 DEF Lands, Kept, EntriesKept
<1>5. Waits(x, q) => Waits(x, q)'
  BY Zenon, <1>1, <1>2 DEF Waits, Kept, EntriesKept
<1>6. QED  BY Zenon, <1>3, <1>4, <1>5

(* So does what a message about it says.                                   *)
LEMMA TokenKept ==
  ASSUME NEW m, m.role \in Roles, m.inst \in Inst(m.role), TokenOK(m), Kept(m.id)
  PROVE  TokenOK(m)'
<1> DEFINE x == m.id
<1>1. /\ transfer'[x] = transfer[x]
      /\ Tracked(tracker', x) => Tracked(tracker, x) /\ tracker'[x] = tracker[x]
      /\ staged'[m.role][m.inst][x] = staged[m.role][m.inst][x]
      /\ receives'[m.role][m.inst][x] = receives[m.role][m.inst][x]
  BY Zenon DEF Kept, EntriesKept, Tracked
<1>2. \A i : WorksAt(x, m.role, i) => WorksAt(x, m.role, i)'
  BY Zenon, <1>1 DEF WorksAt
<1>3. m.role \in Receivers /\ Waits(x, m.role) => Waits(x, m.role)'
  BY Zenon, PlacesKept
<1>4. m.role \in Receivers /\ Lands(x, m.role, m.inst) => Lands(x, m.role, m.inst)'
  BY Zenon, PlacesKept
<1>6. \A q \in Receivers : \A i \in Inst(q) :
        /\ WorksAt(x, q, i) => WorksAt(x, q, i)'
        /\ Lands(x, q, i) => Lands(x, q, i)'
  BY Zenon, PlacesKept
<1>7. Claims(x)' <=> Claims(x)
  BY Zenon, <1>1 DEF Claims
<1>8. HasStaged(m)' <=> HasStaged(m)
  BY Zenon, <1>1 DEF HasStaged
<1>9. AllocOK(m) => AllocOK(m)'
  BY Zenon, <1>1, <1>3 DEF AllocOK
<1>10. AllocatedOK(m) => AllocatedOK(m)'
  BY Zenon, <1>1, <1>9 DEF AllocatedOK
<1>11. PushOK(m) => PushOK(m)'
  BY Zenon, <1>1, <1>6, <1>8 DEF PushOK
<1>12. PushedOK(m) => PushedOK(m)'
  BY Zenon, <1>1, <1>6 DEF PushedOK
<1>13. ReadyOK(m) => ReadyOK(m)'
  BY Zenon, <1>1, <1>4 DEF ReadyOK
<1>14. ComputeOK(m) => ComputeOK(m)'
  BY Zenon, <1>1 DEF ComputeOK
<1>15. DoneOK(m) => DoneOK(m)'
  BY Zenon, <1>1, <1>7, <1>8 DEF DoneOK
<1> HIDE DEF x
<1>16. QED
  BY Zenon, <1>2, <1>8, <1>9, <1>10, <1>11, <1>12, <1>13, <1>14, <1>15 DEF TokenOK, x

(* A step moves the requests of M: the other tokens stay as they are.      *)
LEMMA TokensStep ==
  ASSUME MessagesOK, OneToken, InstancesExist, TokensOK, NEW M,
         \A k \in net' : \/ k \in net
                         \/ k.type # "REGISTER" /\ k.id \in M /\ k.inst \in Inst(k.role),
         \A k \in Tokens(net') : k.id \in M => TokenOK(k)',
         \A r \in M : \A q \in Receivers : InQueue(r, q)' => Waits(r, q)',
         \A x \in Requests \ M : Kept(x)
  PROVE  InstancesExist' /\ TokensOK'
<1>1. InstancesExist'
  BY Zenon DEF InstancesExist
<1>2. ASSUME NEW k \in Tokens(net')
      PROVE  TokenOK(k)'
  <2>1. CASE k.id \in M
    BY Zenon, <2>1
  <2>2. CASE k.id \notin M
    <3>1. k \in net /\ k \in Tokens(net)
      BY Zenon, <2>2 DEF Tokens
    <3>2. k.role \in Roles /\ k.inst \in Inst(k.role) /\ TokenOK(k) /\ k.id \in Requests
      BY Zenon, <3>1 DEF MessagesOK, MessageOK, InstancesExist, TokensOK, OneToken
    <3>3. QED  BY Zenon, <2>2, <3>2, TokenKept
  <2>3. QED  BY Zenon, <2>1, <2>2
<1>3. ASSUME NEW q \in Receivers, NEW r \in Requests, InQueue(r, q)'
      PROVE  Waits(r, q)'
  <2>1. CASE r \notin M
    <3>1. InQueue(r, q) /\ Kept(r)
      BY Zenon, <1>3, <2>1 DEF Kept
    <3>2. QED  BY Zenon, <3>1, PlacesKept DEF TokensOK
  <2>2. QED  BY Zenon, <1>3, <2>1
<1>4. QED  BY Zenon, <1>1, <1>2, <1>3 DEF TokensOK

(* No transfer claims a block and no list changes.                         *)
LEMMA NothingClaimed ==
  ASSUME ClaimsApart, peers' = peers,
         \A x \in Requests : Claims(x)' => Claims(x) /\ transfer'[x] = transfer[x],
         \A q \in Roles : \A i \in Inst(q) : REGISTER(q, i) \in net' => REGISTER(q, i) \in net
  PROVE  ClaimsApart'
<1>1. ASSUME NEW r \in Requests, Claims(r)'
      PROVE  ClaimOK(r)'
  <2>1. ClaimOK(r) /\ transfer'[r] = transfer[r]
    BY Zenon, <1>1 DEF ClaimsApart
  <2>2. QED  BY Zenon, <2>1 DEF ClaimOK, Receivers, Roles
<1>2. ASSUME NEW q \in Receivers, NEW i \in Inst(q)
      PROVE  ListOK(q, i)'
  <2>1. ListOK(q, i) /\ q \in Roles
    BY Zenon DEF ClaimsApart, Receivers, Roles
  <2>2. QED  BY <2>1 DEF ListOK
<1>3. QED  BY Zenon, <1>1, <1>2 DEF ClaimsApart

(* A role handles message m and answers with N; it touches nothing of      *)
(* another request.                                                        *)
LEMMA RoleMoves ==
  ASSUME SlotInvariant, OwnershipInvariant, UNCHANGED serverVars,
         NEW m \in Tokens(net), NEW N, net' = (net \ {m}) \cup N,
         \A k \in N : /\ k.id = m.id /\ k.type # "REGISTER" /\ k.inst \in Inst(k.role)
                      /\ TokenOK(k)',
         RolesTypeOK', PoolsApart', \A x \in Requests \ {m.id} : EntriesKept(x)
  PROVE  OwnershipInvariant'
<1> DEFINE M == {m.id}
<1>1. tracker' = tracker /\ transfer' = transfer /\ tta' = tta /\ peers' = peers
  BY Zenon DEF serverVars
<1>2. \A k \in net' : \/ k \in net
                      \/ k.type # "REGISTER" /\ k.id \in M /\ k.inst \in Inst(k.role)
  BY Zenon
<1>3. \A k \in Tokens(net') : k.id \in M => TokenOK(k)'
  BY Zenon DEF SlotInvariant, OneToken, Tokens
<1>4. \A r \in M : \A q \in Receivers : InQueue(r, q)' => Waits(r, q)'
  BY Zenon, <1>1 DEF SlotInvariant, OneToken, InQueue, Receivers, Roles
<1>5. \A x \in Requests \ M : Kept(x)
  BY Zenon, <1>1 DEF Kept, InQueue
<1>6. InstancesExist' /\ TokensOK'
  <2>1. MessagesOK /\ OneToken /\ InstancesExist /\ TokensOK
    BY Zenon DEF SlotInvariant, OwnershipInvariant
  <2> HIDE DEF M
  <2>2. QED  BY Zenon, <1>2, <1>3, <1>4, <1>5, <2>1, TokensStep
<1>7. \A q \in Roles : \A i \in Inst(q) : REGISTER(q, i) \in net' => REGISTER(q, i) \in net
  BY Zenon, <1>2 DEF REGISTER
<1>8. ClaimsApart'
  BY Zenon, <1>1, <1>7, NothingClaimed DEF Claims, OwnershipInvariant
<1>9. QED  BY Zenon, <1>6, <1>8 DEF OwnershipInvariant

(* It answers with one message n ...                                       *)
LEMMA RoleAnswered ==
  ASSUME SlotInvariant, OwnershipInvariant, UNCHANGED serverVars,
         NEW m \in Tokens(net), NEW n, net' = (net \ {m}) \cup {n},
         \A k : k = n => /\ k.id = m.id /\ k.type # "REGISTER" /\ k.inst \in Inst(k.role)
                        /\ TokenOK(k)',
         RolesTypeOK', PoolsApart', \A x \in Requests \ {m.id} : EntriesKept(x)
  PROVE  OwnershipInvariant'
<1> DEFINE N == {n}
<1>1. /\ net' = (net \ {m}) \cup N
      /\ \A k \in N : /\ k.id = m.id /\ k.type # "REGISTER" /\ k.inst \in Inst(k.role)
                      /\ TokenOK(k)'
  BY Zenon
<1> HIDE DEF N
<1>2. QED  BY Zenon, <1>1, RoleMoves

(* ... or not at all.                                                      *)
LEMMA RoleSilent ==
  ASSUME SlotInvariant, OwnershipInvariant, UNCHANGED serverVars,
         NEW m \in Tokens(net), net' = net \ {m},
         RolesTypeOK', PoolsApart', \A x \in Requests \ {m.id} : EntriesKept(x)
  PROVE  OwnershipInvariant'
<1> DEFINE N == {}
<1>1. /\ net' = (net \ {m}) \cup N
      /\ \A k \in N : /\ k.id = m.id /\ k.type # "REGISTER" /\ k.inst \in Inst(k.role)
                      /\ TokenOK(k)'
  BY Zenon
<1> HIDE DEF N
<1>2. QED  BY Zenon, <1>1, RoleMoves

(* What is known of a message to a role.                                   *)
LEMMA MessageKnown ==
  ASSUME SlotInvariant, OwnershipInvariant, NEW m \in net, m.type # "REGISTER"
  PROVE  /\ m \in Tokens(net) /\ m.id \in Requests /\ TokenOK(m)
         /\ m.role \in Roles /\ m.inst \in Inst(m.role)
         /\ allocated[m.role][m.inst] \subseteq Slots
         /\ staged[m.role][m.inst] \in Register /\ receives[m.role][m.inst] \in Register
         /\ Apart(Fixed(m.role), allocated[m.role][m.inst],
                  staged[m.role][m.inst], receives[m.role][m.inst])
<1>1. m \in Tokens(net)
  BY Zenon DEF Tokens
<1>2. m.id \in Requests /\ TokenOK(m) /\ m.role \in Roles /\ m.inst \in Inst(m.role)
  BY Zenon, <1>1 DEF SlotInvariant, OneToken, MessagesOK, MessageOK, OwnershipInvariant,
              TokensOK, InstancesExist
<1>3. QED  BY Zenon, <1>1, <1>2 DEF OwnershipInvariant, RolesTypeOK, PoolsApart, Register

(* The pools a role handler starts from.                                   *)
LEMMA PoolsTyped ==
  ASSUME RolesTypeOK
  PROVE  /\ DOMAIN allocated = Roles /\ \A q \in Roles : allocated[q] \in [Inst(q) -> SUBSET Slots]
         /\ DOMAIN staged = Roles /\ \A q \in Roles : staged[q] \in [Inst(q) -> Register]
         /\ DOMAIN receives = Roles /\ \A q \in Roles : receives[q] \in [Inst(q) -> Register]
         /\ DOMAIN mem = AllAddr
BY Zenon DEF RolesTypeOK, Register

Stored(f, g, q, i, r, v) ==
  \/ g = f /\ v = f[q][i]
  \/ \E s \in Slots \cup {None} :
       g = [f EXCEPT ![q][i][r] = s] /\ v = [f[q][i] EXCEPT ![r] = s]

(* SetPool, SetStaged and SetReceive change one pool.                      *)
LEMMA PoolSet ==
  ASSUME RolesTypeOK, NEW q \in Roles, NEW i \in Inst(q), NEW r \in Requests,
         NEW A \in SUBSET Slots, NEW S, NEW R,
         \/ allocated' = [allocated EXCEPT ![q][i] = A]
         \/ allocated' = allocated /\ A = allocated[q][i],
         Stored(staged, staged', q, i, r, S), Stored(receives, receives', q, i, r, R)
  PROVE  OnePool(q, i, r, A, S, R)
<1>1. Assigned(allocated', allocated, SUBSET Slots, q, i, A)
  BY PoolsTyped, PoolAssigned
<1>2. /\ Assigned(staged', staged, Register, q, i, S)
      /\ \A x \in Requests \ {r} : S[x] = staged[q][i][x]
  <2>1. CASE staged' = staged /\ S = staged[q][i]
    BY Zenon, <2>1, PoolsTyped, PoolAssigned
  <2>2. ASSUME NEW s \in Slots \cup {None}, staged' = [staged EXCEPT ![q][i][r] = s],
               S = [staged[q][i] EXCEPT ![r] = s]
        PROVE  /\ Assigned(staged', staged, Register, q, i, S)
               /\ \A x \in Requests \ {r} : S[x] = staged[q][i][x]
    <3>1. Assigned(staged', staged, Register, q, i, S)
      BY Zenon, <2>2, PoolsTyped, EntryAssigned
    <3>2. staged[q][i] \in Register
      BY Zenon, PoolsTyped
    <3>3. QED  BY Zenon, <2>2, <3>1, <3>2 DEF Register
  <2>3. QED  BY Zenon, <2>1, <2>2 DEF Stored
<1>3. /\ Assigned(receives', receives, Register, q, i, R)
      /\ \A x \in Requests \ {r} : R[x] = receives[q][i][x]
  <2>1. CASE receives' = receives /\ R = receives[q][i]
    BY Zenon, <2>1, PoolsTyped, PoolAssigned
  <2>2. ASSUME NEW s \in Slots \cup {None}, receives' = [receives EXCEPT ![q][i][r] = s],
               R = [receives[q][i] EXCEPT ![r] = s]
        PROVE  /\ Assigned(receives', receives, Register, q, i, R)
               /\ \A x \in Requests \ {r} : R[x] = receives[q][i][x]
    <3>1. Assigned(receives', receives, Register, q, i, R)
      BY Zenon, <2>2, PoolsTyped, EntryAssigned
    <3>2. receives[q][i] \in Register
      BY Zenon, PoolsTyped
    <3>3. QED  BY Zenon, <2>2, <3>1, <3>2 DEF Register
  <2>3. QED  BY Zenon, <2>1, <2>2 DEF Stored
<1>4. QED  BY Zenon, <1>1, <1>2, <1>3 DEF OnePool

(* A role that touches no pool.                                            *)
LEMMA PoolsUntouched ==
  ASSUME OwnershipInvariant, UNCHANGED <<allocated, staged, receives, mem>>
  PROVE  RolesTypeOK' /\ PoolsApart' /\ \A x \in Requests : EntriesKept(x)
BY Zenon DEF OwnershipInvariant, RolesTypeOK, PoolsApart, EntriesKept

(* _disagg_encoder_step stages into a block of its own.                    *)
LEMMA EncoderStepOwnership ==
  ASSUME SlotInvariant, OwnershipInvariant, UNCHANGED serverVars,
         NEW m \in net, EncoderStep(m)
  PROVE  OwnershipInvariant'
<1> DEFINE i == m.inst
           r == m.id
           A == allocated["encoder"][i]
           S == staged["encoder"][i]
           R == receives["encoder"][i]
<1>1. m.type = "REQUEST" /\ receives' = receives
  BY Zenon DEF EncoderStep
<1>2. /\ m \in Tokens(net) /\ r \in Requests /\ m.role = "encoder" /\ i \in Inst("encoder")
      /\ WorksAt(r, "encoder", i) /\ "encoder" \in Roles
      /\ A \subseteq Slots /\ S \in Register /\ R \in Register
      /\ Apart(Fixed("encoder"), A, S, R)
  <2>1. m.role = "encoder" /\ WorksAt(r, m.role, i)
    BY Zenon, <1>1, MessageKnown DEF TokenOK
  <2>2. QED  BY Zenon, <1>1, <2>1, MessageKnown DEF Roles
<1>3. tracker' = tracker
  BY Zenon DEF serverVars
<1>4. ASSUME NEW s \in Slots \ A, NEW size \in DataSizes,
             SetPool("encoder", i, A \cup {s}), SetStaged("encoder", i, r, s),
             mem' = [mem EXCEPT ![At("encoder", i, s)] = Output(r, "encoder")],
             Reply1(m, STAGED(i, r, size))
      PROVE  OwnershipInvariant'
  <2> DEFINE S2 == [S EXCEPT ![r] = s]
  <2>1. Apart(Fixed("encoder"), A \cup {s}, S2, R)
    BY Zenon, <1>2, BlockStaged
  <2>2. OnePool("encoder", i, r, A \cup {s}, S2, R)
    <3>1. Stored(staged, staged', "encoder", i, r, S2) /\ Stored(receives, receives', "encoder", i, r, R)
      BY Zenon, <1>1, <1>4 DEF Stored, SetStaged
    <3>2. A \cup {s} \in SUBSET Slots /\ allocated' = [allocated EXCEPT !["encoder"][i] = A \cup {s}]
      BY Zenon, <1>2, <1>4 DEF SetPool
    <3> HIDE DEF S2, R
    <3>3. QED  BY Zenon, <1>2, <3>1, <3>2, PoolSet DEF OwnershipInvariant
  <2>3. S2[r] = s /\ s # None
    BY Zenon, <1>2, SlotsAreSlots DEF Register
  <2>4. DOMAIN mem' = AllAddr
    BY Zenon, <1>4, PoolsTyped DEF OwnershipInvariant
  <2> HIDE DEF S2
  <2>5. /\ RolesTypeOK' /\ PoolsApart' /\ \A x \in Requests \ {r} : EntriesKept(x)
        /\ staged'["encoder"][i] = S2
    BY <1>2, <2>1, <2>2, <2>4, PoolStep DEF OwnershipInvariant
  <2>6. ASSUME NEW k, k = STAGED(i, r, size)
        PROVE  k.id = r /\ k.type # "REGISTER" /\ k.inst \in Inst(k.role) /\ TokenOK(k)'
    BY Zenon, <1>2, <1>3, <2>3, <2>5, <2>6 DEF STAGED, TokenOK, WorksAt, HasStaged
  <2>7. net' = (net \ {m}) \cup {STAGED(i, r, size)}
    BY Zenon, <1>4 DEF Reply1
  <2>8. QED  BY Zenon, <1>2, <2>5, <2>6, <2>7, RoleAnswered
<1>5. ASSUME Reply1(m, ERROR(i, r)), UNCHANGED <<allocated, staged, mem>>
      PROVE  OwnershipInvariant'
  <2>1. RolesTypeOK' /\ PoolsApart' /\ \A x \in Requests : EntriesKept(x)
    BY Zenon, <1>1, <1>5, PoolsUntouched
  <2>2. ASSUME NEW k, k = ERROR(i, r)
        PROVE  k.id = r /\ k.type # "REGISTER" /\ k.inst \in Inst(k.role) /\ TokenOK(k)'
    BY Zenon, <1>2, <2>2 DEF ERROR, TokenOK
  <2>3. net' = (net \ {m}) \cup {ERROR(i, r)}
    BY Zenon, <1>5 DEF Reply1
  <2>4. QED  BY Zenon, <1>2, <2>1, <2>2, <2>3, RoleAnswered
<1>6. QED  BY Zenon, <1>4, <1>5 DEF EncoderStep

(* _rdma_push_loop frees the block of the request it pushes, and no other. *)
LEMMA RdmaPushOwnership ==
  ASSUME SlotInvariant, OwnershipInvariant, UNCHANGED serverVars,
         NEW m \in net, RdmaPush(m)
  PROVE  OwnershipInvariant'
<1> DEFINE q == m.role
           i == m.inst
           r == m.id
           A == allocated[q][i]
           S == staged[q][i]
           R == receives[q][i]
<1>1. /\ m.type = "PUSH" /\ net' = (net \ {m}) \cup {PUSHED(q, i, r)} /\ receives' = receives
      /\ \/ /\ S[r] # None /\ DOMAIN mem' = DOMAIN mem
            /\ SetPool(q, i, A \ {S[r]}) /\ SetStaged(q, i, r, None)
         \/ UNCHANGED <<allocated, staged, mem>>
  BY Zenon DEF RdmaPush, Reply1
<1>2. /\ m \in Tokens(net) /\ r \in Requests /\ q \in Roles /\ i \in Inst(q) /\ TokenOK(m)
      /\ A \subseteq Slots /\ S \in Register /\ R \in Register /\ Apart(Fixed(q), A, S, R)
  BY Zenon, <1>1, MessageKnown
<1>3. tracker' = tracker /\ transfer' = transfer
  BY Zenon DEF serverVars
<1>4. ASSUME NEW k, k = PUSHED(q, i, r)
      PROVE  k.id = r /\ k.type # "REGISTER" /\ k.inst \in Inst(k.role) /\ TokenOK(k)'
  <2>1. k.type = "PUSHED" /\ k.role = q /\ k.inst = i /\ k.id = r
    BY Zenon, <1>4 DEF PUSHED
  <2>2. PushOK(m) /\ WorksAt(r, q, i)
    BY Zenon, <1>1, <1>2 DEF TokenOK
  <2>3. WorksAt(r, q, i)' /\ \A p, j : WorksAt(r, p, j)' <=> WorksAt(r, p, j)
    BY Zenon, <1>3, <2>2 DEF WorksAt
  <2>4. \A p, j : Lands(r, p, j)' <=> Lands(r, p, j)
    BY Zenon, <1>1, <1>3 DEF Lands
  <2>5. PushedOK(k)'
    BY Zenon, <1>3, <2>1, <2>2, <2>3, <2>4 DEF PushOK, PushedOK
  <2>6. QED  BY Zenon, <1>2, <2>1, <2>3, <2>5 DEF TokenOK
<1>5. CASE S[r] # None /\ DOMAIN mem' = DOMAIN mem
           /\ SetPool(q, i, A \ {S[r]}) /\ SetStaged(q, i, r, None)
  <2> DEFINE A2 == A \ {S[r]}
             S2 == [S EXCEPT ![r] = None]
  <2>1. Apart(Fixed(q), A2, S2, R)
    BY Zenon, <1>2, <1>5, BlockPushed
  <2>2. OnePool(q, i, r, A2, S2, R)
    <3>1. Stored(staged, staged', q, i, r, S2) /\ Stored(receives, receives', q, i, r, R)
      BY Zenon, <1>1, <1>5 DEF Stored, SetStaged
    <3>2. A2 \in SUBSET Slots /\ allocated' = [allocated EXCEPT ![q][i] = A2]
      BY Zenon, <1>2, <1>5 DEF SetPool
    <3> HIDE DEF A2, S2, R, S, q, i, r
    <3>3. QED  BY Zenon, <1>2, <3>1, <3>2, PoolSet DEF OwnershipInvariant
  <2>3. DOMAIN mem' = AllAddr
    BY Zenon, <1>5, PoolsTyped DEF OwnershipInvariant
  <2> HIDE DEF A2, S2
  <2>4. RolesTypeOK' /\ PoolsApart' /\ \A x \in Requests \ {r} : EntriesKept(x)
    BY <1>2, <2>1, <2>2, <2>3, PoolStep DEF OwnershipInvariant
  <2>5. QED  BY Zenon, <1>1, <1>2, <1>4, <2>4, RoleAnswered
<1>6. CASE UNCHANGED <<allocated, staged, mem>>
  <2>1. RolesTypeOK' /\ PoolsApart' /\ \A x \in Requests : EntriesKept(x)
    BY Zenon, <1>1, <1>6, PoolsUntouched
  <2>2. QED  BY Zenon, <1>1, <1>2, <1>4, <2>1, RoleAnswered
<1>7. QED  BY Zenon, <1>1, <1>5, <1>6

(* _handle_transfer_alloc takes a free block, which is not preallocated.   *)
LEMMA HandleAllocOwnership ==
  ASSUME SlotInvariant, OwnershipInvariant, UNCHANGED serverVars,
         NEW m \in net, HandleAlloc(m)
  PROVE  OwnershipInvariant'
<1> DEFINE q == m.role
           i == m.inst
           r == m.id
           A == allocated[q][i]
           S == staged[q][i]
           R == receives[q][i]
<1>1. /\ m.type = "ALLOC" /\ staged' = staged /\ mem' = mem
      /\ \/ \E s \in Slots \ A :
              /\ SetPool(q, i, A \cup {s}) /\ SetReceive(q, i, r, s)
              /\ net' = (net \ {m}) \cup {ALLOCATED(q, i, r, At(q, i, s))}
         \/ net' = net \ {m} /\ UNCHANGED <<allocated, receives>>
  BY Zenon DEF HandleAlloc, Reply1
<1>2. /\ m \in Tokens(net) /\ r \in Requests /\ q \in Roles /\ i \in Inst(q) /\ TokenOK(m)
      /\ A \subseteq Slots /\ S \in Register /\ R \in Register /\ Apart(Fixed(q), A, S, R)
  BY Zenon, <1>1, MessageKnown
<1>3. tracker' = tracker /\ transfer' = transfer
  BY Zenon DEF serverVars
<1>4. AllocOK(m) /\ WorksAt(r, q, i) /\ Prealloc \subseteq A
  BY Zenon, <1>1, <1>2 DEF TokenOK, AllocOK, Apart, Fixed, Receivers
<1>5. ASSUME NEW s \in Slots \ A, SetPool(q, i, A \cup {s}), SetReceive(q, i, r, s),
             net' = (net \ {m}) \cup {ALLOCATED(q, i, r, At(q, i, s))}
      PROVE  OwnershipInvariant'
  <2> DEFINE A2 == A \cup {s}
             R2 == [R EXCEPT ![r] = s]
  <2>1. Apart(Fixed(q), A2, S, R2)
    BY Zenon, <1>2, BlockReceives
  <2>2. OnePool(q, i, r, A2, S, R2)
    <3>1. Stored(staged, staged', q, i, r, S) /\ Stored(receives, receives', q, i, r, R2)
      BY Zenon, <1>1, <1>5 DEF Stored, SetReceive
    <3>2. A2 \in SUBSET Slots /\ allocated' = [allocated EXCEPT ![q][i] = A2]
      BY Zenon, <1>2, <1>5 DEF SetPool
    <3> HIDE DEF A2, R2, R, S, q, i, r
    <3>3. QED  BY Zenon, <1>2, <3>1, <3>2, PoolSet DEF OwnershipInvariant
  <2>3. DOMAIN mem' = AllAddr
    BY Zenon, <1>1, PoolsTyped DEF OwnershipInvariant
  <2>4. R2[r] = s
    BY Zenon, <1>2 DEF Register
  <2> HIDE DEF A2, R2
  <2>5. /\ RolesTypeOK' /\ PoolsApart' /\ \A x \in Requests \ {r} : EntriesKept(x)
        /\ receives'[q][i][r] = s
    BY <1>2, <2>1, <2>2, <2>3, <2>4, PoolStep DEF OwnershipInvariant
  <2>6. ASSUME NEW k, k = ALLOCATED(q, i, r, At(q, i, s))
        PROVE  k.id = r /\ k.type # "REGISTER" /\ k.inst \in Inst(k.role) /\ TokenOK(k)'
    <3>1. /\ k.type = "ALLOCATED" /\ k.role = q /\ k.inst = i /\ k.id = r
          /\ k.addr = At(q, i, s)
      BY Zenon, <2>6 DEF ALLOCATED
    <3>2. WorksAt(r, q, i)' /\ (Waits(r, q) => Waits(r, q)')
      BY Zenon, <1>1, <1>3, <1>4 DEF WorksAt, Waits
    <3>3. AllocOK(k)'
      BY Zenon, <1>3, <1>4, <3>1, <3>2 DEF AllocOK
    <3>4. AllocatedOK(k)'
      BY Zenon, <1>4, <2>5, <3>1, <3>3 DEF AllocatedOK
    <3>5. QED  BY Zenon, <1>2, <3>1, <3>2, <3>4 DEF TokenOK
  <2>7. QED  BY Zenon, <1>2, <1>5, <2>5, <2>6, RoleAnswered
<1>6. CASE net' = net \ {m} /\ UNCHANGED <<allocated, receives>>
  <2>1. RolesTypeOK' /\ PoolsApart' /\ \A x \in Requests : EntriesKept(x)
    BY Zenon, <1>1, <1>6, PoolsUntouched
  <2>2. QED  BY Zenon, <1>2, <1>6, <2>1, RoleSilent
<1>7. QED  BY Zenon, <1>1, <1>5, <1>6

(* The block a READY names is the request's own and belongs to its role.   *)
LEMMA ReadySlot ==
  ASSUME SlotInvariant, OwnershipInvariant, NEW m \in net, m.type = "READY",
         NEW s, s = IF m.pre # None THEN m.pre ELSE receives[m.role][m.inst][m.id]
  PROVE  /\ s \in Slots /\ s = transfer[m.id].addr.slot
         /\ m.pre # None => s \in Prealloc
         /\ m.pre = None => s \notin Prealloc
<1>1. m.id \in Requests /\ ReadyOK(m)
  BY Zenon, MessageKnown DEF TokenOK
<1>2. s = transfer[m.id].addr.slot /\ transfer[m.id].addr \in Addr
  BY Zenon, <1>1 DEF ReadyOK, Lands
<1>3. s \in Slots
  BY Zenon, <1>2 DEF Addr
<1>4. m.pre # None => s \in Prealloc
  BY <1>1, <1>2 DEF ReadyOK, Lands, OwnershipInvariant, ClaimsApart, Claims, ClaimOK
<1>5. m.pre = None => s \notin Prealloc
  BY Zenon, <1>1, <1>2 DEF ReadyOK, Lands
<1>6. QED  BY Zenon, <1>2, <1>3, <1>4, <1>5

(* _prefetch_transfer_ready registers that block for the request.          *)
LEMMA PrefetchOwnership ==
  ASSUME SlotInvariant, OwnershipInvariant, UNCHANGED serverVars,
         NEW m \in net, Prefetch(m)
  PROVE  OwnershipInvariant'
<1> DEFINE q == m.role
           i == m.inst
           r == m.id
           A == allocated[q][i]
           S == staged[q][i]
           R == receives[q][i]
           s == IF m.pre # None THEN m.pre ELSE receives[q][i][r]
           R2 == [R EXCEPT ![r] = s]
<1>1. m.type = "READY" /\ UNCHANGED <<allocated, staged, mem>> /\ SetReceive(q, i, r, s)
  BY Zenon DEF Prefetch
<1>2. /\ m \in Tokens(net) /\ r \in Requests /\ q \in Roles /\ i \in Inst(q) /\ TokenOK(m)
      /\ A \subseteq Slots /\ S \in Register /\ R \in Register /\ Apart(Fixed(q), A, S, R)
  BY Zenon, <1>1, MessageKnown
<1>3. tracker' = tracker /\ transfer' = transfer
  BY Zenon DEF serverVars
<1>4. ReadyOK(m) /\ WorksAt(r, q, i) /\ Fixed(q) = Prealloc
  BY Zenon, <1>1, <1>2 DEF TokenOK, ReadyOK, Fixed, Receivers
<1>5. s \in Slots /\ (m.pre # None => s \in Prealloc) /\ (m.pre = None => s \notin Prealloc)
  BY Zenon, <1>1, ReadySlot
<1>6. net' = (net \ {m}) \cup {COMPUTE(q, i, r, m.pre, mem[At(q, i, s)])}
  BY Zenon, <1>5, SlotsAreSlots DEF Prefetch, Reply1
<1>7. Apart(Fixed(q), A, S, R2)
  <2>1. CASE m.pre # None
    BY Zenon, <1>2, <1>4, <1>5, <2>1, BlockRegistered
  <2>2. CASE m.pre = None
    <3>1. R2 = R
      BY Zenon, <1>2, <2>2 DEF Register
    <3>2. QED  BY Zenon, <1>2, <3>1
  <2>3. QED  BY Zenon, <2>1, <2>2
<1>8. R2[r] = s
  BY Zenon, <1>2 DEF Register
<1>9. OnePool(q, i, r, A, S, R2)
  <2>1. Stored(staged, staged', q, i, r, S) /\ Stored(receives, receives', q, i, r, R2)
    BY Zenon, <1>1, <1>5 DEF Stored, SetReceive
  <2>2. A \in SUBSET Slots /\ allocated' = allocated /\ A = allocated[q][i]
    BY Zenon, <1>1, <1>2
  <2> HIDE DEF A, R2, R, S, q, i, r, s
  <2>3. QED  BY Zenon, <1>2, <2>1, <2>2, PoolSet DEF OwnershipInvariant
<1> HIDE DEF R2, s
<1>10. /\ RolesTypeOK' /\ PoolsApart' /\ \A x \in Requests \ {r} : EntriesKept(x)
       /\ receives'[q][i][r] = s
  <2>1. DOMAIN mem' = AllAddr
    BY Zenon, <1>1, PoolsTyped DEF OwnershipInvariant
  <2>2. QED  BY <1>2, <1>7, <1>8, <1>9, <2>1, PoolStep DEF OwnershipInvariant
<1>11. ASSUME NEW k, k = COMPUTE(q, i, r, m.pre, mem[At(q, i, s)])
       PROVE  k.id = r /\ k.type # "REGISTER" /\ k.inst \in Inst(k.role) /\ TokenOK(k)'
  <2>1. k.type = "COMPUTE" /\ k.role = q /\ k.inst = i /\ k.id = r /\ k.pre = m.pre
    BY Zenon, <1>11 DEF COMPUTE
  <2>2. WorksAt(r, q, i)'
    BY Zenon, <1>3, <1>4 DEF WorksAt
  <2>3. ComputeOK(k)'
    BY Zenon, <1>3, <1>4, <1>5, <1>10, <2>1 DEF ComputeOK, ReadyOK, Lands
  <2>4. QED  BY Zenon, <1>2, <2>1, <2>2, <2>3 DEF TokenOK
<1>12. QED  BY Zenon, <1>2, <1>6, <1>10, <1>11, RoleAnswered

(* The receive block of a COMPUTE is released, unless it was preallocated. *)
LEMMA ComputeReleases ==
  ASSUME SlotInvariant, OwnershipInvariant, NEW m \in net, m.type = "COMPUTE"
  PROVE  /\ ReleasedPool(m) \subseteq Slots
         /\ Apart(Fixed(m.role), ReleasedPool(m), staged[m.role][m.inst],
                  [receives[m.role][m.inst] EXCEPT ![m.id] = None])
<1> DEFINE q == m.role
           i == m.inst
           r == m.id
           A == allocated[q][i]
           S == staged[q][i]
           R == receives[q][i]
<1>1. /\ r \in Requests /\ q \in Roles /\ ComputeOK(m)
      /\ A \subseteq Slots /\ S \in Register /\ R \in Register /\ Apart(Fixed(q), A, S, R)
  BY Zenon, MessageKnown DEF TokenOK
<1>2. Fixed(q) = Prealloc
  BY Zenon, <1>1 DEF ComputeOK, Fixed, Receivers
<1>3. \/ ReleasedPool(m) = A
      \/ ReleasedPool(m) = A \ {R[r]} /\ R[r] \notin Fixed(q)
  BY Zenon, <1>1, <1>2 DEF ReleasedPool, ComputeOK
<1>4. QED  BY Zenon, <1>1, <1>3, BlockLoaded

(* _disagg_denoiser_compute releases its input and stages its output, both *)
(* in blocks of the request.                                               *)
LEMMA DenoiserComputeOwnership ==
  ASSUME SlotInvariant, OwnershipInvariant, UNCHANGED serverVars,
         NEW m \in net, DenoiserCompute(m)
  PROVE  OwnershipInvariant'
<1> DEFINE q == m.role
           i == m.inst
           r == m.id
           A == allocated[q][i]
           S == staged[q][i]
           R == receives[q][i]
           P == ReleasedPool(m)
           R2 == [R EXCEPT ![r] = None]
<1>1. /\ m.type = "COMPUTE" /\ q = "denoiser" /\ SetReceive(q, i, r, None)
      /\ \/ \E s \in Slots \ P, size \in DataSizes :
              /\ SetPool(q, i, P \cup {s}) /\ SetStaged(q, i, r, s)
              /\ DOMAIN mem' = DOMAIN mem
              /\ net' = (net \ {m}) \cup {DONE(i, r, FALSE, size)}
         \/ /\ SetPool(q, i, P) /\ UNCHANGED <<staged, mem>>
            /\ net' = (net \ {m}) \cup {DONE(i, r, TRUE, 0)}
  BY Zenon DEF DenoiserCompute, Reply1
<1>2. /\ m \in Tokens(net) /\ r \in Requests /\ q \in Roles /\ i \in Inst(q) /\ TokenOK(m)
      /\ A \subseteq Slots /\ S \in Register /\ R \in Register /\ Apart(Fixed(q), A, S, R)
  BY Zenon, <1>1, MessageKnown
<1>3. tracker' = tracker /\ transfer' = transfer
  BY Zenon DEF serverVars
<1>4. ComputeOK(m) /\ WorksAt(r, q, i)
  BY Zenon, <1>1, <1>2 DEF TokenOK
<1>5. /\ P \subseteq Slots /\ Apart(Fixed(q), P, S, R2) /\ R2 \in Register
      /\ Stored(receives, receives', q, i, r, R2) /\ DOMAIN mem = AllAddr /\ RolesTypeOK
  BY Zenon, <1>1, <1>2, ComputeReleases, PoolsTyped DEF Register, Stored, SetReceive, OwnershipInvariant
<1>6. ASSUME NEW err \in BOOLEAN, NEW size, NEW k, k = DONE(i, r, err, size),
             ~err => staged'[q][i][r] # None
      PROVE  k.id = r /\ k.type # "REGISTER" /\ k.inst \in Inst(k.role) /\ TokenOK(k)'
  <2>1. k.type = "DONE" /\ k.role = q /\ k.inst = i /\ k.id = r /\ k.error = err
    BY Zenon, <1>1, <1>6 DEF DONE
  <2>2. WorksAt(r, q, i)'
    BY Zenon, <1>3, <1>4 DEF WorksAt
  <2>3. DoneOK(k)'
    BY Zenon, <1>1, <1>3, <1>4, <1>6, <2>1 DEF DoneOK, HasStaged, ComputeOK, Claims
  <2>4. QED  BY Zenon, <1>2, <2>1, <2>2, <2>3 DEF TokenOK
<1> HIDE DEF P, R2
<1>7. ASSUME NEW s \in Slots \ P, NEW size \in DataSizes,
             SetPool(q, i, P \cup {s}), SetStaged(q, i, r, s), DOMAIN mem' = DOMAIN mem,
             net' = (net \ {m}) \cup {DONE(i, r, FALSE, size)}
      PROVE  OwnershipInvariant'
  <2> DEFINE S2 == [S EXCEPT ![r] = s]
  <2>1. Apart(Fixed(q), P \cup {s}, S2, R2)
    BY Zenon, <1>2, <1>5, BlockStaged
  <2>2. S2[r] = s /\ s # None
    BY Zenon, <1>2, SlotsAreSlots DEF Register
  <2>3. Stored(staged, staged', q, i, r, S2)
    BY Zenon, <1>7 DEF Stored, SetStaged
  <2>4. P \cup {s} \in SUBSET Slots /\ allocated' = [allocated EXCEPT ![q][i] = P \cup {s}]
    BY Zenon, <1>5, <1>7 DEF SetPool
  <2> HIDE DEF S2, S, R, A
  <2>5. OnePool(q, i, r, P \cup {s}, S2, R2)
    BY Zenon, <1>2, <1>5, <2>3, <2>4, PoolSet
  <2>6. /\ RolesTypeOK' /\ PoolsApart' /\ \A x \in Requests \ {r} : EntriesKept(x)
        /\ staged'[q][i][r] # None
    BY <1>2, <1>5, <1>7, <2>1, <2>2, <2>5, PoolStep DEF OwnershipInvariant
  <2>7. QED  BY Zenon, <1>2, <1>6, <1>7, <2>6, RoleAnswered
<1>8. ASSUME SetPool(q, i, P), UNCHANGED <<staged, mem>>,
             net' = (net \ {m}) \cup {DONE(i, r, TRUE, 0)}
      PROVE  OwnershipInvariant'
  <2>1. Stored(staged, staged', q, i, r, S)
    BY Zenon, <1>8 DEF Stored
  <2>2. P \in SUBSET Slots /\ allocated' = [allocated EXCEPT ![q][i] = P]
    BY Zenon, <1>5, <1>8 DEF SetPool
  <2> HIDE DEF S, R, A
  <2>3. OnePool(q, i, r, P, S, R2)
    BY Zenon, <1>2, <1>5, <2>1, <2>2, PoolSet
  <2>4. RolesTypeOK' /\ PoolsApart' /\ \A x \in Requests \ {r} : EntriesKept(x)
    BY Zenon, <1>2, <1>5, <1>8, <2>3, PoolStep DEF OwnershipInvariant
  <2>5. QED  BY Zenon, <1>2, <1>6, <1>8, <2>4, RoleAnswered
<1>9. QED  BY Zenon, <1>1, <1>7, <1>8

(* _disagg_decoder_compute releases its input.                             *)
LEMMA DecoderComputeOwnership ==
  ASSUME SlotInvariant, OwnershipInvariant, UNCHANGED serverVars,
         NEW m \in net, DecoderCompute(m)
  PROVE  OwnershipInvariant'
<1> DEFINE q == m.role
           i == m.inst
           r == m.id
           A == allocated[q][i]
           S == staged[q][i]
           R == receives[q][i]
           P == ReleasedPool(m)
           R2 == [R EXCEPT ![r] = None]
<1>1. /\ m.type = "COMPUTE" /\ q = "decoder" /\ SetReceive(q, i, r, None)
      /\ SetPool(q, i, P) /\ UNCHANGED <<staged, mem>>
      /\ \E err, d : net' = (net \ {m}) \cup {OUTPUT(i, r, err, d)}
  BY Zenon DEF DecoderCompute, Reply1
<1>2. /\ m \in Tokens(net) /\ r \in Requests /\ q \in Roles /\ i \in Inst(q) /\ TokenOK(m)
      /\ A \subseteq Slots /\ S \in Register /\ R \in Register /\ Apart(Fixed(q), A, S, R)
  BY Zenon, <1>1, MessageKnown
<1>3. /\ P \subseteq Slots /\ Apart(Fixed(q), P, S, R2)
      /\ Stored(receives, receives', q, i, r, R2) /\ Stored(staged, staged', q, i, r, S)
      /\ DOMAIN mem' = AllAddr /\ RolesTypeOK
  BY Zenon, <1>1, <1>2, ComputeReleases, PoolsTyped DEF Stored, SetReceive, OwnershipInvariant
<1>4. P \in SUBSET Slots /\ allocated' = [allocated EXCEPT ![q][i] = P]
  BY Zenon, <1>1, <1>3 DEF SetPool
<1>5. PICK err, d : net' = (net \ {m}) \cup {OUTPUT(i, r, err, d)}
  BY Zenon, <1>1
<1>6. ASSUME NEW k, k = OUTPUT(i, r, err, d)
      PROVE  k.id = r /\ k.type # "REGISTER" /\ k.inst \in Inst(k.role) /\ TokenOK(k)'
  <2>1. k.type = "OUTPUT" /\ k.role = q /\ k.inst = i /\ k.id = r
    BY Zenon, <1>1, <1>6 DEF OUTPUT
  <2>2. QED  BY Zenon, <1>2, <2>1 DEF TokenOK
<1> HIDE DEF P, R2, S, R, A
<1>7. OnePool(q, i, r, P, S, R2)
  BY Zenon, <1>2, <1>3, <1>4, PoolSet
<1>8. RolesTypeOK' /\ PoolsApart' /\ \A x \in Requests \ {r} : EntriesKept(x)
  BY Zenon, <1>2, <1>3, <1>7, PoolStep DEF OwnershipInvariant
<1>9. QED  BY Zenon, <1>2, <1>5, <1>6, <1>8, RoleAnswered

(* Whatever a handler that raises had done, blocks stay apart.             *)
LEMMA HandlerRaisesOwnership ==
  ASSUME SlotInvariant, OwnershipInvariant, UNCHANGED serverVars,
         NEW m \in net, HandlerRaises(m)
  PROVE  OwnershipInvariant'
<1> DEFINE q == m.role
           i == m.inst
           r == m.id
           A == allocated[q][i]
           S == staged[q][i]
           R == receives[q][i]
           P == IF m.type = "COMPUTE" THEN ReleasedPool(m) ELSE A
<1>1. /\ m.type \in {"REQUEST", "PUSH", "ALLOC", "READY", "COMPUTE"}
      /\ net' = net \ {m} /\ UNCHANGED <<staged, mem>>
      /\ SetPool(q, i, P) \/ \E s \in Slots \ P : SetPool(q, i, P \cup {s})
      /\ \/ m.type = "COMPUTE" /\ SetReceive(q, i, r, None)
         \/ m.type # "COMPUTE" /\ UNCHANGED receives
         \/ m.type = "READY" /\ m.pre # None /\ SetReceive(q, i, r, m.pre)
  BY Zenon DEF HandlerRaises
<1>2. /\ m \in Tokens(net) /\ r \in Requests /\ q \in Roles /\ i \in Inst(q) /\ TokenOK(m)
      /\ A \subseteq Slots /\ S \in Register /\ R \in Register /\ Apart(Fixed(q), A, S, R)
  BY Zenon, <1>1, MessageKnown
<1>3. RolesTypeOK /\ DOMAIN mem' = AllAddr /\ Stored(staged, staged', q, i, r, S)
  BY Zenon, <1>1, PoolsTyped DEF OwnershipInvariant, Stored
<1>4. \E R2 : /\ P \subseteq Slots /\ Apart(Fixed(q), P, S, R2)
              /\ Stored(receives, receives', q, i, r, R2)
  <2>1. CASE m.type = "COMPUTE" /\ SetReceive(q, i, r, None)
    <3>1. P = ReleasedPool(m)
      BY Zenon, <2>1
    <3>2. /\ P \subseteq Slots /\ Apart(Fixed(q), P, S, [R EXCEPT ![r] = None])
          /\ Stored(receives, receives', q, i, r, [R EXCEPT ![r] = None])
      BY Zenon, <2>1, <3>1, ComputeReleases DEF Stored, SetReceive
    <3>3. QED  BY Zenon, <3>2
  <2>2. CASE m.type # "COMPUTE" /\ UNCHANGED receives
    BY Zenon, <1>2, <2>2 DEF Stored
  <2>3. CASE m.type = "READY" /\ m.pre # None /\ SetReceive(q, i, r, m.pre)
    <3>1. m.pre \in Prealloc /\ Fixed(q) = Prealloc
      BY Zenon, <1>2, <2>3, ReadySlot DEF TokenOK, ReadyOK, Fixed, Receivers
    <3>2. Apart(Fixed(q), P, S, [R EXCEPT ![r] = m.pre])
      BY Zenon, <1>2, <2>3, <3>1, BlockRegistered
    <3>3. Stored(receives, receives', q, i, r, [R EXCEPT ![r] = m.pre])
      BY Zenon, <2>3, <3>1, SlotsAreSlots DEF Stored, SetReceive
    <3>4. QED  BY Zenon, <1>2, <2>3, <3>2, <3>3
  <2>4. QED  BY Zenon, <1>1, <2>1, <2>2, <2>3
<1>5. PICK R2 : /\ P \subseteq Slots /\ Apart(Fixed(q), P, S, R2)
                /\ Stored(receives, receives', q, i, r, R2)
  BY Zenon, <1>4
<1> HIDE DEF P
<1>6. PICK A2 : A2 \in SUBSET Slots /\ allocated' = [allocated EXCEPT ![q][i] = A2]
                /\ Apart(Fixed(q), A2, S, R2)
  <2>1. CASE SetPool(q, i, P)
    BY Zenon, <1>5, <2>1 DEF SetPool
  <2>2. ASSUME NEW s \in Slots \ P, SetPool(q, i, P \cup {s})
        PROVE  \E A2 : /\ A2 \in SUBSET Slots /\ allocated' = [allocated EXCEPT ![q][i] = A2]
                       /\ Apart(Fixed(q), A2, S, R2)
    <3>1. Apart(Fixed(q), P \cup {s}, S, R2) /\ P \cup {s} \in SUBSET Slots
      BY Zenon, <1>5, BlockLost
    <3>2. QED  BY Zenon, <2>2, <3>1 DEF SetPool
  <2>3. QED  BY Zenon, <1>1, <2>1, <2>2
<1> HIDE DEF S, R, A
<1>7. OnePool(q, i, r, A2, S, R2)
  BY Zenon, <1>2, <1>3, <1>5, <1>6, PoolSet
<1>8. RolesTypeOK' /\ PoolsApart' /\ \A x \in Requests \ {r} : EntriesKept(x)
  BY Zenon, <1>2, <1>3, <1>6, <1>7, PoolStep DEF OwnershipInvariant
<1>9. QED  BY Zenon, <1>1, <1>2, <1>8, RoleSilent

(* So every step of a role instance keeps the invariant.                   *)
LEMMA RolesOwnership ==
  ASSUME SlotInvariant, OwnershipInvariant, RolesNext, UNCHANGED serverVars
  PROVE  OwnershipInvariant'
BY Zenon, EncoderStepOwnership, RdmaPushOwnership, HandleAllocOwnership, PrefetchOwnership,
   DenoiserComputeOwnership, DecoderComputeOwnership, HandlerRaisesOwnership
   DEF RolesNext
===============================================================================
