---------------------------- MODULE MCDisaggSystem ----------------------------
(***************************************************************************)
(* Small deployments: up to three clients, of which one may send a        *)
(* control message (id None) or repeat the id of another.                  *)
(***************************************************************************)
EXTENDS DisaggOwnership, TLC

CONSTANTS
  c1, c2, c3, id1, id2, id3,  \* the clients and the ids they send
  Enc, Den, Dec,              \* instances of each role
  EncCap, DenCap, DecCap      \* slots of each instance

MCIdOf == [c \in Clients |-> CASE c = c1 -> id1 [] c = c2 -> id2 [] c = c3 -> id3]
MCNumInstances == "encoder" :> Enc @@ "denoiser" :> Den @@ "decoder" :> Dec
MCCapacity == "encoder" :> EncCap @@ "denoiser" :> DenCap @@ "decoder" :> DecCap

(* Clients trade places together with their ids.  No definition tells them *)
(* apart and none uses CHOOSE, so runs of safety properties may identify   *)
(* states that differ by it.                                               *)
Swaps == {p \in Permutations(Clients \cup Requests) :
            \A c \in Clients : p[c] \in Clients /\ IdOf[p[c]] = p[IdOf[c]]}
===============================================================================
