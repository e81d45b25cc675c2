---------------------------- MODULE RequestTracker ----------------------------
(***************************************************************************)
(* The request state machine of disaggregation/request_state.py.           *)
(*                                                                         *)
(* A tracker maps every request id to its record, or to None when the      *)
(* id is not tracked.  The operators below return the tracker after one    *)
(* call.  The code raises ValueError on an unknown id or an illegal        *)
(* transition; every caller in orchestrator.py swallows that error, so     *)
(* here an illegal call returns the tracker unchanged.                     *)
(***************************************************************************)
EXTENDS Integers

CONSTANTS
  Requests,   \* request ids
  None        \* Python's None

Roles == {"encoder", "denoiser", "decoder"}

-------------------------------------------------------------------------------

TerminalStates == {"DONE", "FAILED", "TIMED_OUT"}

ActiveStates ==
  {"PENDING", "ENCODER_WAITING", "ENCODER_RUNNING", "ENCODER_DONE",
   "DENOISING_WAITING", "DENOISING_RUNNING", "DENOISING_DONE",
   "DECODER_WAITING", "DECODER_RUNNING"}

(* The normal transitions, as pairs <<old, new>>.                          *)
ValidTransitions ==
  {<<"PENDING", "ENCODER_WAITING">>, <<"PENDING", "ENCODER_RUNNING">>,
   <<"ENCODER_WAITING", "ENCODER_RUNNING">>,
   <<"ENCODER_RUNNING", "ENCODER_DONE">>,
   <<"ENCODER_DONE", "DENOISING_WAITING">>,
   <<"ENCODER_DONE", "DENOISING_RUNNING">>,
   <<"DENOISING_WAITING", "DENOISING_RUNNING">>,
   <<"DENOISING_RUNNING", "DENOISING_DONE">>,
   <<"DENOISING_DONE", "DECODER_WAITING">>,
   <<"DENOISING_DONE", "DECODER_RUNNING">>,
   <<"DECODER_WAITING", "DECODER_RUNNING">>,
   <<"DECODER_RUNNING", "DONE">>}

Legal(old, new) ==
  IF new \in TerminalStates \ {"DONE"}
  THEN old \in ActiveStates
  ELSE <<old, new>> \in ValidTransitions

-------------------------------------------------------------------------------

Record(Instance) ==
  [state : ActiveStates \cup TerminalStates,
   submit_time : Nat,
   instance : [Roles -> Instance \cup {None}]]

Tracked(t, r) == t[r] # None

InState(t, r, S) == Tracked(t, r) /\ t[r].state \in S

(* submit: a fresh record in PENDING.  The caller has checked that r is    *)
(* not tracked (the ValueError of a duplicate id is its early return).     *)
Submit(t, r, now) ==
  [t EXCEPT ![r] = [state |-> "PENDING",
                    submit_time |-> now,
                    instance |-> [q \in Roles |-> None]]]

Transition(t, r, new) ==
  IF Tracked(t, r) /\ Legal(t[r].state, new)
  THEN [t EXCEPT ![r] = [@ EXCEPT !.state = new]]
  ELSE t

(* transition(..., <role>_instance = i)                                    *)
TransitionAt(t, r, new, role, i) ==
  IF Tracked(t, r) /\ Legal(t[r].state, new)
  THEN [t EXCEPT ![r] = [@ EXCEPT !.state = new, !.instance[role] = i]]
  ELSE t

Remove(t, r) == [t EXCEPT ![r] = None]

(* find_timed_out: the active requests submitted no later than `horizon`,  *)
(* the time `timeout_s` before now.                                        *)
FindTimedOut(t, horizon) ==
  {r \in Requests : InState(t, r, ActiveStates) /\ t[r].submit_time <= horizon}
===============================================================================
