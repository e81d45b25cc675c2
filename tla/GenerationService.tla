--------------------------- MODULE GenerationService ---------------------------
(***************************************************************************)
(* What the frontend promises a client of disaggregated diffusion: a REQ   *)
(* socket that sends a request gets one reply, and always gets it.  How    *)
(* the request moves through encoder, denoiser and decoder is not visible. *)
(***************************************************************************)
EXTENDS Sequences, Naturals

CONSTANT Clients

VARIABLES
  asked,   \* the clients that have sent their request
  answers  \* per client: <<>>, or the one reply it got

vars == <<asked, answers>>

Init == asked = {} /\ answers = [c \in Clients |-> <<>>]

Ask(c) ==
  /\ c \notin asked
  /\ asked' = asked \cup {c}
  /\ UNCHANGED answers

(* Several clients may be answered at once (a timeout sweep); a client     *)
(* that has its reply keeps it.                                            *)
Answer ==
  /\ \A c \in Clients :
       \/ answers'[c] = answers[c]
       \/ /\ c \in asked /\ answers[c] = <<>>
          /\ Len(answers'[c]) = 1
  /\ DOMAIN answers' = Clients
  /\ UNCHANGED asked

Next == (\E c \in Clients : Ask(c)) \/ Answer

SafeSpec == Init /\ [][Next]_vars

(* Nobody who asked is left without an answer.                             *)
Spec == SafeSpec /\ \A c \in Clients : c \in asked ~> answers[c] # <<>>
===============================================================================
