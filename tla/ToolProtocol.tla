---------------------------- MODULE ToolProtocol ----------------------------
(***************************************************************************)
(* What the tool feature promises about one request, whoever asks, decides *)
(* or executes (specs/022-ai-tool-calling: FR-008, FR-011, FR-013, FR-014, *)
(* FR-016): a request is granted or declined once, a declined one never    *)
(* runs, a granted one takes effect at most once, and its outcome is       *)
(* recorded only after the effect. That the start is recorded before the   *)
(* effect is not promised: the code runs a tool whose start it could not   *)
(* record.                                                                 *)
(***************************************************************************)
EXTENDS Naturals

CONSTANT Requests

VARIABLES
  phase,    \* new, asked, granted, running, done or declined
  effects   \* how often the tool's side effect happened

vars == <<phase, effects>>

Init ==
  /\ phase = [r \in Requests |-> "new"]
  /\ effects = [r \in Requests |-> 0]

\* Every request of S, all of them in phase from, moves to phase to.
Move(S, from, to) ==
  /\ \A r \in S : phase[r] \in from
  /\ phase' = [r \in Requests |-> IF r \in S THEN to ELSE phase[r]]

\* A member has to be asked.
Ask(r) == Move({r}, {"new"}, "asked") /\ UNCHANGED effects

\* By policy at once, or by a member.
Grant(r) == Move({r}, {"new", "asked"}, "granted") /\ UNCHANGED effects

\* Refused, denied, expired or cancelled; several at a time.
Decline(S) == Move(S, {"new", "asked"}, "declined") /\ UNCHANGED effects

Start(r) ==
  /\ effects[r] = 0
  /\ Move({r}, {"granted"}, "running")
  /\ UNCHANGED effects

TakeEffect(r) ==
  /\ phase[r] \in {"granted", "running"}
  /\ effects[r] = 0
  /\ effects' = [effects EXCEPT ![r] = 1]
  /\ UNCHANGED phase

Finish(r) ==
  /\ effects[r] = 1
  /\ Move({r}, {"running"}, "done")
  /\ UNCHANGED effects

Next ==
  \/ \E r \in Requests : Ask(r) \/ Grant(r) \/ Start(r) \/ TakeEffect(r) \/ Finish(r)
  \/ \E S \in SUBSET Requests : Decline(S)

Spec == Init /\ [][Next]_vars

=============================================================================
