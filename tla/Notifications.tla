---------------------------- MODULE Notifications ----------------------------
(***************************************************************************)
(* In-app notifications (notifications/src) of one tenant: the rows that   *)
(* escalations, tool approvals and assignments leave in outbox_events, the *)
(* workers that fan them out to members, and the inbox.                    *)
(*                                                                         *)
(* A claim has no lease: a worker that dies leaves its row claimed.  Rows  *)
(* are claimed in the order of created_at, the start of the transaction    *)
(* that wrote them; a tool approval is requested after its row is there to *)
(* be decided.  Drains of the escalation queue follow one another, and     *)
(* assign what they read as queued whoever claimed it meanwhile.  Closing  *)
(* an escalation tells nobody and is left out.                             *)
(***************************************************************************)
EXTENDS Naturals, FiniteSets

CONSTANTS
  Members,        \* memberships
  Escalations, Tools, Conversations,  \* subjects
  Workers,        \* one per server
  MaxEvents,      \* bound: transactions that tell the workers something
  MaxMishaps,     \* bound: statements that fail, workers that die, members disabled
  Nobody

\* What the constants are; the instance assumes it.
NotificationAssumption ==
  /\ Nobody \notin Members /\ MaxEvents \in Nat /\ MaxMishaps \in Nat
  /\ Conversations \cap (Escalations \cup Tools) = {} /\ Escalations \cap Tools = {}

Subjects == Escalations \cup Tools \cup Conversations

VARIABLES
  eligible,  \* active members whose role holds conversations.manage
  stage,     \* how far a subject's story is
  handlers,  \* who took or decided it; of a conversation, whom it is assigned to
  drain,     \* the drain under way, and the escalation it read as queued
  queue,     \* rows nobody has claimed
  clock,     \* created_at of the next transaction
  worker,    \* each worker's claimed row, and how far it is
  inbox,     \* state of the notification of a member about a subject
  cleared,   \* history: subjects one of whose resolutions was applied
  late,      \* history: who was first told of a subject after that
  failures, deaths, removals

story == <<eligible, stage, handlers, drain, clock, removals>>
vars == <<story, queue, worker, inbox, cleared, late, failures, deaths>>

Row == [type : {"requested", "resolved"}, subject : Subjects, target : Members \cup {Nobody},
        actor : Members \cup {Nobody}, by : Members \cup {Nobody}, at : Nat]

\* A role-based request, one for a single member, and a resolution.
Ask(s, actor) == [type |-> "requested", subject |-> s, target |-> Nobody, actor |-> actor,
                  by |-> Nobody, at |-> clock]
Tell(s, target, actor, at) == [type |-> "requested", subject |-> s, target |-> target,
                               actor |-> actor, by |-> Nobody, at |-> at]
Resolved(s, by, at) == [type |-> "resolved", subject |-> s, target |-> Nobody, actor |-> Nobody,
                        by |-> by, at |-> at]

Idle == [step |-> "idle"]
NoDrain == [step |-> "none", of |-> Nobody, at |-> 0]

Init ==
  /\ eligible = Members
  /\ stage = [s \in Subjects |-> "new"]
  /\ handlers = [s \in Subjects |-> {}]
  /\ drain = NoDrain
  /\ queue = {} /\ clock = 0
  /\ worker = [w \in Workers |-> Idle]
  /\ inbox = [m \in Members |-> [s \in Subjects |-> "none"]]
  /\ cleared = {} /\ late = {}
  /\ failures = 0 /\ deaths = 0 /\ removals = 0

Mishap == failures + deaths + removals < MaxMishaps

-----------------------------------------------------------------------------
(* Producers.                                                              *)

Emit(rows) ==
  /\ clock < MaxEvents
  /\ queue' = queue \cup rows
  /\ clock' = clock + 1
  /\ UNCHANGED <<eligible, worker, inbox, cleared, late, failures, deaths, removals>>

\* notify_escalation_queued: every member who may take it, but the one who asked.
QueueEscalation(e, actor) ==
  /\ stage[e] = "new" /\ drain.step # "read"
  /\ stage' = [stage EXCEPT ![e] = "open"]
  /\ Emit({Ask(e, actor)})
  /\ UNCHANGED <<handlers, drain>>

\* Mutant: the resolution does not say who took it.
TakenAnonymously(e, m, actor, at) ==
  /\ stage' = [stage EXCEPT ![e] = "handled"]
  /\ handlers' = [handlers EXCEPT ![e] = @ \cup {m}]
  /\ queue' = queue \cup {Tell(e, m, actor, at), Resolved(e, Nobody, at)}

\* An escalation is assigned; notify_escalation_assigned writes two rows.
Taken(e, m, actor, at) ==
  /\ stage' = [stage EXCEPT ![e] = "handled"]
  /\ handlers' = [handlers EXCEPT ![e] = @ \cup {m}]
  /\ queue' = queue \cup {Tell(e, m, actor, at), Resolved(e, m, at)}

\* route_new_escalation_in_tx, under the routing lock: an actor who gets it himself is told.
RouteEscalation(e, m, actor) ==
  /\ stage[e] = "new" /\ drain.step # "read"
  /\ m \in eligible /\ clock < MaxEvents
  /\ Taken(e, m, IF actor = m THEN Nobody ELSE actor, clock)
  /\ clock' = clock + 1
  /\ UNCHANGED <<eligible, drain, worker, inbox, cleared, late, failures, deaths, removals>>

\* claim_in_tx, without that lock, of what is queued: who claims is not told.
ClaimEscalation(e, m) ==
  /\ stage[e] = "open"
  /\ m \in eligible /\ clock < MaxEvents
  /\ Taken(e, m, m, clock)
  /\ clock' = clock + 1
  /\ UNCHANGED <<eligible, drain, worker, inbox, cleared, late, failures, deaths, removals>>

\* The transaction of a drain begins, long before it has the routing lock perhaps.
BeginDrain ==
  /\ drain = NoDrain /\ clock < MaxEvents
  /\ drain' = [NoDrain EXCEPT !.step = "begun", !.at = clock]
  /\ clock' = clock + 1
  /\ UNCHANGED <<eligible, stage, handlers, queue, worker, inbox, cleared, late, failures,
                 deaths, removals>>

\* Under the lock it reads a queued escalation.
ReadQueued(e) ==
  /\ drain.step = "begun" /\ stage[e] = "open"
  /\ drain' = [drain EXCEPT !.step = "read", !.of = e]
  /\ UNCHANGED <<eligible, stage, handlers, clock, queue, worker, inbox, cleared, late,
                 failures, deaths, removals>>

\* And assigns it by its id, whatever became of it: an actor who gets it himself is not told.
DrainEscalation(m, actor) ==
  /\ drain.step = "read"
  /\ m \in eligible
  /\ Taken(drain.of, m, actor, drain.at)
  /\ drain' = NoDrain
  /\ UNCHANGED <<eligible, clock, worker, inbox, cleared, late, failures, deaths, removals>>

\* Nothing is queued, or nobody can take it.
EndDrain ==
  /\ drain # NoDrain
  /\ drain' = NoDrain
  /\ UNCHANGED <<eligible, stage, handlers, clock, queue, worker, inbox, cleared, late,
                 failures, deaths, removals>>

\* The engine inserts the request; what asks for the notification follows on its own.
AwaitApproval(t) ==
  /\ stage[t] = "new"
  /\ stage' = [stage EXCEPT ![t] = "awaiting"]
  /\ UNCHANGED <<eligible, handlers, drain, clock, removals, queue, worker, inbox, cleared,
                 late, failures, deaths>>

AskForApproval(t) ==
  /\ stage[t] \in {"awaiting", "decided early"}
  /\ stage' = [stage EXCEPT ![t] = IF @ = "awaiting" THEN "open" ELSE "handled"]
  /\ Emit({Ask(t, Nobody)})
  /\ UNCHANGED <<handlers, drain>>

Decide(t, m) ==
  /\ t \in Tools /\ stage[t] \in {"awaiting", "open"}
  /\ m \in eligible
  /\ stage' = [stage EXCEPT ![t] = IF @ = "awaiting" THEN "decided early" ELSE "handled"]
  /\ handlers' = [handlers EXCEPT ![t] = @ \cup {m}]
  /\ Emit({Resolved(t, m, clock)})
  /\ UNCHANGED drain

\* assign_in_tx: only the new assignee, unless he did it.
Assign(c, m, actor) ==
  /\ handlers[c] # {m}
  /\ m \in eligible
  /\ handlers' = [handlers EXCEPT ![c] = {m}]
  /\ IF actor = m THEN Emit({}) ELSE Emit({Tell(c, m, actor, clock)})
  /\ UNCHANGED <<stage, drain>>

\* update_member disables a membership.
Disable(m) ==
  /\ m \in eligible
  /\ Mishap
  /\ removals' = removals + 1
  /\ eligible' = eligible \ {m}
  /\ UNCHANGED <<stage, handlers, drain, clock, queue, worker, inbox, cleared, late,
                 failures, deaths>>

-----------------------------------------------------------------------------
(* The worker.                                                             *)

\* process_notification_outbox_once: the oldest unclaimed row.
Claim(w) ==
  /\ worker[w] = Idle
  /\ \E r \in queue :
       /\ \A q \in queue : r.at <= q.at
       /\ queue' = queue \ {r}
       /\ worker' = [worker EXCEPT ![w] = [step |-> "claimed", row |-> r]]
  /\ UNCHANGED <<story, inbox, cleared, late, failures, deaths>>

\* recipients::resolve: the target or all of the role, without the actor.
Recipients(r) == (IF r.target = Nobody THEN eligible ELSE {r.target} \cap eligible) \ {r.actor}

ResolveRecipients(w) ==
  /\ worker[w].step = "claimed" /\ worker[w].row.type = "requested"
  /\ worker' = [worker EXCEPT ![w] =
       [step |-> "fan out", row |-> worker[w].row, to |-> Recipients(worker[w].row)]]
  /\ UNCHANGED <<story, queue, inbox, cleared, late, failures, deaths>>

\* Mutant: a conflict makes the notification unread again.
FanOutAgain(m, s) == "unread"

\* ON CONFLICT (recipient, dedupe_key) DO NOTHING.
Inserted(m, s) == IF inbox[m][s] = "none" THEN "unread" ELSE inbox[m][s]

\* fan_out, one statement.  The key names the subject, and the member for an
\* assignment.
FanOut(w) ==
  /\ worker[w].step = "fan out"
  /\ LET s == worker[w].row.subject
         to == worker[w].to IN
       /\ inbox' = [m \in Members |->
            IF m \in to THEN [inbox[m] EXCEPT ![s] = Inserted(m, s)] ELSE inbox[m]]
       /\ late' = IF s \in cleared
                    THEN late \cup {<<m, s>> : m \in {n \in Members : n \in to /\ inbox[n][s] = "none"}}
                       ELSE late
  /\ worker' = [worker EXCEPT ![w] = [step |-> "delete", row |-> worker[w].row]]
  /\ UNCHANGED <<story, queue, cleared, failures, deaths>>

\* resolve_subject: what is unread, but not the handler's own.
Resolves(m, r) == inbox[m][r.subject] = "unread" /\ m # r.by

Resolve(w) ==
  /\ worker[w].step = "claimed" /\ worker[w].row.type = "resolved"
  /\ LET r == worker[w].row IN
       /\ inbox' = [m \in Members |->
            IF Resolves(m, r) THEN [inbox[m] EXCEPT ![r.subject] = "resolved"] ELSE inbox[m]]
       /\ cleared' = cleared \cup {r.subject}
  /\ worker' = [worker EXCEPT ![w] = [step |-> "delete", row |-> worker[w].row]]
  /\ UNCHANGED <<story, queue, late, failures, deaths>>

Delete(w) ==
  /\ worker[w].step = "delete"
  /\ worker' = [worker EXCEPT ![w] = Idle]
  /\ UNCHANGED <<story, queue, inbox, cleared, late, failures, deaths>>

\* Mutant: the row stays claimed.
FailAndKeep(w) ==
  /\ worker[w] # Idle
  /\ Mishap
  /\ failures' = failures + 1
  /\ worker' = [worker EXCEPT ![w] = Idle]
  /\ UNCHANGED <<story, queue, inbox, cleared, late, deaths>>

\* A statement fails, the ones that count the unread for the badge included: the row
\* is given back.
Fail(w) ==
  /\ worker[w] # Idle
  /\ Mishap
  /\ failures' = failures + 1
  /\ queue' = queue \cup {worker[w].row}
  /\ worker' = [worker EXCEPT ![w] = Idle]
  /\ UNCHANGED <<story, inbox, cleared, late, deaths>>

\* The process dies: the row stays claimed and nobody sees it again.
Die(w) ==
  /\ worker[w] # Idle
  /\ Mishap
  /\ deaths' = deaths + 1
  /\ worker' = [worker EXCEPT ![w] = Idle]
  /\ UNCHANGED <<story, queue, inbox, cleared, late, failures>>

-----------------------------------------------------------------------------
(* The inbox.                                                              *)

MarkRead(m, s) ==
  /\ inbox[m][s] \in {"unread", "resolved"}
  /\ inbox' = [inbox EXCEPT ![m][s] = "read"]
  /\ UNCHANGED <<story, queue, worker, cleared, late, failures, deaths>>

MarkAllRead(m) ==
  /\ \E s \in Subjects : inbox[m][s] = "unread"
  /\ inbox' = [inbox EXCEPT ![m] =
       [s \in Subjects |-> IF inbox[m][s] = "unread" THEN "read" ELSE inbox[m][s]]]
  /\ UNCHANGED <<story, queue, worker, cleared, late, failures, deaths>>

Work(w) == Claim(w) \/ ResolveRecipients(w) \/ FanOut(w) \/ Resolve(w) \/ Delete(w)

Produce ==
  \/ \E e \in Escalations, a \in Members \cup {Nobody} :
       \/ QueueEscalation(e, a)
       \/ \E m \in Members : RouteEscalation(e, m, a) \/ ClaimEscalation(e, m)
  \/ BeginDrain \/ EndDrain \/ \E e \in Escalations : ReadQueued(e)
  \/ \E m \in Members, a \in Members \cup {Nobody} : DrainEscalation(m, a)
  \/ \E t \in Tools : AwaitApproval(t) \/ AskForApproval(t) \/ \E m \in Members : Decide(t, m)
  \/ \E c \in Conversations, m \in Members, a \in Members \cup {Nobody} : Assign(c, m, a)
  \/ \E m \in Members : Disable(m)

Next ==
  \/ Produce
  \/ \E w \in Workers : Work(w) \/ Fail(w) \/ Die(w)
  \/ \E m \in Members : MarkAllRead(m) \/ \E s \in Subjects : MarkRead(m, s)

Spec == Init /\ [][Next]_vars

\* run_notification_outbox_worker polls for ever.
Fairness == \A w \in Workers : WF_vars(Work(w))

FairSpec == Spec /\ Fairness

-----------------------------------------------------------------------------
States == {"none", "unread", "read", "resolved"}

\* Types.
TypeOK ==
  /\ eligible \subseteq Members
  /\ stage \in [Subjects -> {"new", "awaiting", "open", "decided early", "handled"}]
  /\ handlers \in [Subjects -> SUBSET Members]
  /\ drain \in [step : {"none", "begun", "read"}, of : Escalations \cup {Nobody}, at : Nat]
  /\ drain.step = "read" => drain.of \in Escalations
  /\ queue \subseteq Row
  /\ \A w \in Workers :
       \/ worker[w] = Idle
       \/ worker[w].step \in {"claimed", "fan out", "delete"} /\ worker[w].row \in Row
  /\ inbox \in [Members -> [Subjects -> States]]
  /\ late \subseteq Members \X cleared /\ cleared \subseteq Subjects

\* Once a resolution was applied, only who took the subject has it unread, or who was first
\* told of it even later; and a notification is never resolved behind the back of its owner
\* unless somebody else took the subject: the only one who did keeps his own, however the
\* rows are ordered (specs/027-notifications/spec.md:187).
ResolutionClears ==
  \A m \in Members, s \in Subjects :
    /\ inbox[m][s] = "unread" /\ s \in cleared => m \in handlers[s] \/ <<m, s>> \in late
    /\ inbox[m][s] = "resolved" => handlers[s] \ {m} # {}

\* However often a row is processed, every step leaves the resolutions clear, and what a
\* member has read or others have handled never counts as unread again.
InboxSettles ==
  [][ /\ ResolutionClears'
      /\ \A m \in Members, s \in Subjects : inbox[m][s] \in {"read", "resolved"} =>
           inbox'[m][s] \in {"read", inbox[m][s]} ]_vars

\* Everybody who may decide about a tool request is told of it, unless the worker that
\* claimed its row died: a row that failed is tried again.
EverybodyIsTold ==
  \A m \in Members, t \in Tools :
    stage[t] = "open" ~> inbox[m][t] # "none" \/ m \notin eligible \/ deaths > 0

=============================================================================
