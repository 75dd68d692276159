------------------------------ MODULE Presence ------------------------------
(***************************************************************************)
(* Who is connected to a server process, and how a member who no longer is *)
(* goes away (escalations/src/presence.rs, with the handlers of            *)
(* escalations/src/events.rs and routes.rs that use it).                   *)
(*                                                                         *)
(* Each event stream of a dashboard holds a guard that counts its member   *)
(* in the registry.  Dropping the guard spawns a task that takes the count *)
(* back; whoever finds it at zero schedules a revert, a task that sleeps   *)
(* for the grace period, reads the registry, and then updates the          *)
(* member's row.  Registry, guards and tasks die with the process; the     *)
(* rows do not, and a process begins by scheduling a revert for every      *)
(* available one.                                                          *)
(*                                                                         *)
(* The grace period is any time; what becoming available or connecting     *)
(* assigns is in EscalationRouting; one process serves everybody.          *)
(***************************************************************************)
EXTENDS Naturals, FiniteSets

CONSTANTS
  Members,
  Streams,      \* event streams, at most one after another of each
  NoMember,
  MaxToggles,   \* bound: requests of members
  MaxConnects,  \* bound
  MaxRestarts   \* bound

\* What the constants are; the instance assumes it.
PresenceAssumption ==
  NoMember \notin Members /\ {MaxToggles, MaxConnects, MaxRestarts} \subseteq Nat

VARIABLES
  available,  \* the members whose row of agent_availability says so
  present,    \* the registry: how many streams it counts of each member
  stream,     \* the member and the state of each stream
  sleeping,   \* how many reverts of each member sleep
  reverting,  \* how many found him absent and have not updated the row
  unwatched,  \* the members who became available while absent, or whose revert failed
  budget      \* what is left of each bound

presenceVars == <<available, present, stream, sleeping, reverting, unwatched, budget>>

Closed == [of |-> NoMember, state |-> "closed"]
Held(m) == {s \in Streams : stream[s].of = m}
Pending(m) == sleeping[m] + reverting[m]
None == [m \in Members |-> 0]

Init ==
  /\ available = {}
  /\ present = None /\ sleeping = None /\ reverting = None
  /\ stream = [s \in Streams |-> Closed]
  /\ unwatched = {}
  /\ budget = [toggles |-> MaxToggles, connects |-> MaxConnects, restarts |-> MaxRestarts]

-----------------------------------------------------------------------------

\* set_my_availability: the row is written whether the member is connected or not.
SetAvailability(m, state) ==
  /\ budget.toggles > 0 /\ budget' = [budget EXCEPT !.toggles = @ - 1]
  /\ available' = IF state = "available" THEN available \cup {m} ELSE available \ {m}
  /\ unwatched' = CASE state = "away" -> unwatched \ {m}
                    [] Held(m) = {} /\ Pending(m) = 0 -> unwatched \cup {m}
                    [] OTHER -> unwatched
  /\ UNCHANGED <<present, stream, sleeping, reverting>>

\* stream_events: connect counts the member and hands out a guard.
Connect(s, m) ==
  /\ stream[s] = Closed
  /\ budget.connects > 0 /\ budget' = [budget EXCEPT !.connects = @ - 1]
  /\ present' = [present EXCEPT ![m] = @ + 1]
  /\ stream' = [stream EXCEPT ![s] = [of |-> m, state |-> "open"]]
  /\ unwatched' = unwatched \ {m}
  /\ UNCHANGED <<available, sleeping, reverting>>

\* The client leaves: the guard is dropped, its task spawned.
Leave(s) ==
  /\ stream[s].state = "open"
  /\ stream' = [stream EXCEPT ![s].state = "dropping"]
  /\ UNCHANGED <<available, present, sleeping, reverting, unwatched, budget>>

\* Mutant: the task's test before it counts down.
TakeBackEarly(s) ==
  LET m == stream[s].of
  IN /\ stream[s].state = "dropping"
     /\ stream' = [stream EXCEPT ![s] = Closed]
     /\ present' = [present EXCEPT ![m] = @ - 1]
     /\ sleeping' = IF present[m] = 0 THEN [sleeping EXCEPT ![m] = @ + 1] ELSE sleeping
     /\ UNCHANGED <<available, reverting, unwatched, budget>>

\* PresenceGuard::drop's task: the last stream schedules a revert.
TakeBack(s) ==
  LET m == stream[s].of
  IN /\ stream[s].state = "dropping"
     /\ stream' = [stream EXCEPT ![s] = Closed]
     /\ present' = [present EXCEPT ![m] = @ - 1]
     /\ sleeping' = IF present[m] = 1 THEN [sleeping EXCEPT ![m] = @ + 1] ELSE sleeping
     /\ UNCHANGED <<available, reverting, unwatched, budget>>

\* A revert has slept: still_absent is read, and the registry unlocked.
Wake(m) ==
  /\ sleeping[m] > 0
  /\ sleeping' = [sleeping EXCEPT ![m] = @ - 1]
  /\ reverting' = IF present[m] = 0 THEN [reverting EXCEPT ![m] = @ + 1] ELSE reverting
  /\ UNCHANGED <<available, present, stream, unwatched, budget>>

\* The row is updated, although the member may have come back; or the database fails, and
\* nobody tries again.
Revert(m, fails) ==
  /\ reverting[m] > 0
  /\ reverting' = [reverting EXCEPT ![m] = @ - 1]
  /\ available' = IF fails THEN available ELSE available \ {m}
  /\ unwatched' = IF fails THEN unwatched \cup {m} ELSE unwatched \ {m}
  /\ UNCHANGED <<present, stream, sleeping, budget>>

\* The process ends, and another begins with startup_sweep; if that fails it goes on.
Restart(swept) ==
  /\ budget.restarts > 0 /\ budget' = [budget EXCEPT !.restarts = @ - 1]
  /\ present' = None /\ reverting' = None
  /\ stream' = [s \in Streams |-> Closed]
  /\ sleeping' = [m \in Members |-> IF swept /\ m \in available THEN 1 ELSE 0]
  /\ unwatched' = IF swept THEN {} ELSE available
  /\ UNCHANGED available

-----------------------------------------------------------------------------

Next ==
  \/ \E m \in Members :
       \/ \E state \in {"available", "away"} : SetAvailability(m, state)
       \/ \E s \in Streams : Connect(s, m)
       \/ Wake(m)
       \/ \E fails \in BOOLEAN : Revert(m, fails)
  \/ \E s \in Streams : Leave(s) \/ TakeBack(s)
  \/ \E swept \in BOOLEAN : Restart(swept)

TypeOK ==
  /\ available \subseteq Members /\ unwatched \subseteq Members
  /\ present \in [Members -> Nat] /\ sleeping \in [Members -> Nat] /\ reverting \in [Members -> Nat]
  /\ \A s \in Streams : stream[s] = Closed \/
       (stream[s].of \in Members /\ stream[s].state \in {"open", "dropping"})

\* However streams come and go and processes restart, an absent member does not stay available
\* for routing: a revert is on its way, unless he became available while he was absent or an
\* earlier revert failed (specs/014-human-handoff-routing/spec.md:159, FR-017a); and nobody
\* counts as present without a stream.
AbsentAreReverted ==
  \A m \in Members :
    /\ present[m] = Cardinality(Held(m))
    /\ m \in available /\ Held(m) = {} /\ m \notin unwatched => Pending(m) > 0

=============================================================================
