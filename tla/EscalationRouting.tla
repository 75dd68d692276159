------------------------- MODULE EscalationRouting -------------------------
(***************************************************************************)
(* Hand-off of conversations to members: crates/modules/escalations        *)
(* (routing, claim, queue drain, outbox worker) with the status and the    *)
(* assignment of conversations (crates/modules/conversations) it reacts to.*)
(*                                                                         *)
(* Routing decisions take the tenant's advisory lock; claims, staff edits, *)
(* closing and relabelling take row locks only. A transaction is one       *)
(* action where it holds its rows from its first write to its commit, and  *)
(* several where it waits for a lock or acts on what it read unlocked.     *)
(***************************************************************************)
EXTENDS Naturals, FiniteSets

CONSTANTS
  Escalations,    \* ids, in the order of escalated_at (transaction start)
  Conversations,
  Members,        \* active members of the tenant with a routable role
  Handlers,       \* requests and AI responders in flight
  Workers,        \* outbox worker tasks, one per server process
  Match,          \* Match[e][m]: how many required skills of e member m has
  MaxPatches,     \* bound: edits of conversations by staff
  MaxAborts,      \* bound: tasks lost to a crash or a database error
  NoOne, NoConv, NoEsc, NoEvent, NoTask

ASSUME EscalationsAssumption == Escalations \subseteq Nat
ASSUME MatchAssumption == Match \in [Escalations -> [Members -> Nat]]
ASSUME BoundsAssumption == MaxPatches \in Nat /\ MaxAborts \in Nat
ASSUME TasksAssumption == Handlers \cap Workers = {}
ASSUME NullAssumption ==
  /\ NoOne \notin Members
  /\ NoConv \notin Conversations
  /\ NoEsc \notin Escalations
  /\ NoTask \notin Handlers \cup Workers

VARIABLES
  esc,        \* escalations: status, conversation, assignee, routing reason
  stat,       \* conversations.status; "open" stands for open and pending
  assignee,   \* conversations.assigned_membership_id
  flagged,    \* conversations with escalated_at set
  available,  \* members whose availability is "available"
  present,    \* members with an event stream to the server
  outbox,     \* status_changed and assignment_changed rows
  claimed,    \* those with claimed_at set
  task,       \* what each handler and worker is doing
  lock,       \* who holds the tenant's routing lock
  ended,      \* history: escalations whose conversation ended since
  patches,
  aborts

vars == <<esc, stat, assignee, flagged, available, present, outbox, claimed,
          task, lock, ended, patches, aborts>>

-----------------------------------------------------------------------------
Tasks  == Handlers \cup Workers
Active == {"queued", "assigned"}
Ended  == {"resolved", "closed"}

\* "opening": the transaction that inserts the row has started; "refused": it
\* ended without a row.
Statuses == Active \cup {"none", "opening", "refused", "closed"}
Reasons  == {"none", "routed", "claim", "drain", "manual"}

Row == [status : Statuses, conv : Conversations \cup {NoConv},
        owner : Members \cup {NoOne}, reason : Reasons]

NoRow == [status |-> "none", conv |-> NoConv, owner |-> NoOne, reason |-> "none"]

\* A row of the outbox; id tells equal edits apart. Rows without an effect are
\* left out: status_changed to open or pending, and the assignment_changed rows
\* of routing itself (origin "escalations"), which the worker deletes unread.
Events == [id : 1..MaxPatches, kind : {"ended", "assigned"}, conv : Conversations,
           old : Members \cup {NoOne}, new : Members \cup {NoOne}]

ASSUME NoEventAssumption == NoEvent \notin Events

Steps == {"idle", "escalate", "route", "drain", "picked", "handle", "drain any",
          "delete"}

\* rel: escalations whose relabelling is not committed, their rows locked;
\* holds: the conversation's row is locked; seen: the snapshot of present.
TaskState == [step : Steps, esc : Escalations \cup {NoEsc},
              member : Members \cup {NoOne}, seen : SUBSET Members,
              rel : SUBSET Escalations, event : Events \cup {NoEvent},
              holds : BOOLEAN]

Idle == [step |-> "idle", esc |-> NoEsc, member |-> NoOne, seen |-> {},
         rel |-> {}, event |-> NoEvent, holds |-> FALSE]

TypeOK ==
  /\ esc \in [Escalations -> Row]
  /\ stat \in [Conversations -> {"open"} \cup Ended]
  /\ assignee \in [Conversations -> Members \cup {NoOne}]
  /\ flagged \in SUBSET Conversations
  /\ available \in SUBSET Members
  /\ present \in SUBSET Members
  /\ outbox \in SUBSET Events
  /\ claimed \in SUBSET Events
  /\ task \in [Tasks -> TaskState]
  /\ lock \in {t \in Tasks : task[t].step \in {"route", "picked"}} \cup {NoTask}
  /\ ended \in SUBSET Escalations
  /\ patches \in 0..MaxPatches
  /\ aborts \in 0..MaxAborts

Init ==
  /\ esc = [e \in Escalations |-> NoRow]
  /\ stat = [c \in Conversations |-> "open"]
  /\ assignee = [c \in Conversations |-> NoOne]
  /\ flagged = {}
  /\ available = {}
  /\ present = {}
  /\ outbox = {}
  /\ claimed = {}
  /\ task = [t \in Tasks |-> Idle]
  /\ lock = NoTask
  /\ ended = {}
  /\ patches = 0
  /\ aborts = 0

-----------------------------------------------------------------------------
(* Helpers.                                                                *)

ActiveOf(c) == {e \in Escalations : esc[e].conv = c /\ esc[e].status \in Active}
Queue == {e \in Escalations : esc[e].status = "queued"}
Oldest(S) == {e \in S : \A f \in S : e <= f}

\* select_candidate_in_tx: most matched skills, then the lowest load.
Load(m) == Cardinality({c \in Conversations : assignee[c] = m /\ stat[c] = "open"})

Better(e, m, n) ==
  \/ Match[e][m] > Match[e][n]
  \/ Match[e][m] = Match[e][n] /\ Load(m) < Load(n)

Best(e, seen) ==
  LET eligible == available \cap seen
  IN  {m \in eligible : \A n \in eligible : ~Better(e, n, m)}

\* Row locks held across a wait for the routing lock, and those that the
\* lock's holder needs next.
HeldEsc(t)  == task[t].rel
HeldConv(t) == IF task[t].holds THEN {esc[task[t].esc].conv} ELSE {}

LockedEsc  == UNION {HeldEsc(t) : t \in Tasks}
LockedConv == UNION {HeldConv(t) : t \in Tasks}

NeedEsc(t) ==
  CASE task[t].step = "route"  -> ActiveOf(esc[task[t].esc].conv)
    [] task[t].step = "picked" -> {task[t].esc}
    [] OTHER                   -> {}

NeedConv(t) ==
  IF \/ task[t].step = "route" /\ NeedEsc(t) = {}
     \/ task[t].step = "picked"
    THEN {esc[task[t].esc].conv} ELSE {}

Blocks(t, u) ==
  /\ t # u
  /\ \/ HeldEsc(t) \cap NeedEsc(u) # {}
     \/ HeldConv(t) \cap NeedConv(u) # {}

Free(u) == \A t \in Tasks : ~Blocks(t, u)

\* The advisory lock goes with its holder's transaction.
Unlocked(t) == IF lock = t THEN NoTask ELSE lock

\* assign_in_tx on behalf of routing.
Assign(c, m) == assignee' = [assignee EXCEPT ![c] = m]

members == <<available, present>>
bounds  == <<patches, aborts>>

-----------------------------------------------------------------------------
(* Opening an escalation.                                                  *)

\* A transaction that will escalate c starts. The staff route and the AI's
\* rules have read an open status without a lock; the AI's fallback and a
\* take-over write the conversation first and keep its row locked.
BeginEscalate(h, c, e, holds) ==
  /\ task[h] = Idle
  /\ IF holds THEN c \notin LockedConv ELSE stat[c] = "open"
  /\ \A f \in Escalations : f < e <=> esc[f].status # "none"
  /\ esc' = [esc EXCEPT ![e] = [NoRow EXCEPT !.status = "opening", !.conv = c]]
  /\ task' = [task EXCEPT ![h] = [Idle EXCEPT !.step = "escalate", !.esc = e,
                                              !.seen = present, !.holds = holds]]
  /\ UNCHANGED <<stat, assignee, flagged, members, outbox, claimed, lock,
                 ended, bounds>>

\* Mutant: routing without the tenant's lock.
TakeNoLock(h) ==
  /\ task[h].step = "escalate"
  /\ task' = [task EXCEPT ![h].step = "route"]
  /\ UNCHANGED <<esc, stat, assignee, flagged, members, outbox, claimed, lock,
                 ended, bounds>>

TakeLock(h) ==
  /\ task[h].step = "escalate"
  /\ lock = NoTask
  /\ lock' = h
  /\ task' = [task EXCEPT ![h].step = "route"]
  /\ UNCHANGED <<esc, stat, assignee, flagged, members, outbox, claimed,
                 ended, bounds>>

\* The unique index refuses a second active escalation of c.
Refuse(h, after) ==
  LET e == task[h].esc IN
  /\ task[h].step = "route"
  /\ Free(h)
  /\ ActiveOf(esc[e].conv) # {}
  /\ esc' = [esc EXCEPT ![e].status = "refused"]
  /\ task' = [task EXCEPT ![h] = Idle]
  /\ lock' = after
  /\ UNCHANGED <<stat, assignee, flagged, members, outbox, claimed, ended, bounds>>

\* Mutant: the refusal returns early and the lock is not released.
RefuseHoldingLock(h) == Refuse(h, lock)

RefuseDuplicate(h) == Refuse(h, Unlocked(h))

\* route_new_escalation_in_tx, from the insertion to the commit.
RouteNew(h, flags) ==
  LET e == task[h].esc
      c == esc[e].conv
      best == Best(e, task[h].seen)
  IN
  /\ task[h].step = "route"
  /\ Free(h)
  /\ ActiveOf(c) = {}
  /\ IF best = {}
       THEN /\ esc' = [esc EXCEPT ![e].status = "queued"]
            /\ UNCHANGED assignee
       ELSE \E m \in best :
              /\ esc' = [esc EXCEPT ![e] = [@ EXCEPT !.status = "assigned",
                                                     !.owner = m, !.reason = "routed"]]
              /\ Assign(c, m)
  /\ flagged' = IF flags THEN flagged \cup {c} ELSE flagged
  /\ ended' = IF stat[c] \in Ended THEN ended \cup {e} ELSE ended
  /\ task' = [task EXCEPT ![h] = Idle]
  /\ lock' = Unlocked(h)
  /\ UNCHANGED <<stat, members, outbox, claimed, bounds>>

\* Mutant: a queued conversation is not marked as escalated.
RouteUnmarked(h) == RouteNew(h, FALSE)

Route(h) == RouteNew(h, TRUE)

-----------------------------------------------------------------------------
(* Claims and the queue.                                                   *)

\* claim: the guarded UPDATE, without the routing lock.
Claim(m, e) ==
  LET c == esc[e].conv IN
  /\ esc[e].status = "queued"
  /\ e \notin LockedEsc
  /\ c \notin LockedConv
  /\ esc' = [esc EXCEPT ![e] = [@ EXCEPT !.status = "assigned", !.owner = m,
                                         !.reason = "claim"]]
  /\ Assign(c, m)
  /\ UNCHANGED <<stat, flagged, members, outbox, claimed, task, lock, ended, bounds>>

\* drain_one_for_membership: under the lock, the oldest queued escalation that
\* needs a skill of the member, or else the oldest of all, is read.
PickFor(h, free) ==
  LET m == task[h].member
      matching == {e \in Queue : Match[e][m] > 0}
  IN
  /\ task[h].step = "drain"
  /\ free
  /\ IF Queue = {}
       THEN /\ task' = [task EXCEPT ![h] = Idle]
            /\ UNCHANGED lock
       ELSE /\ \E e \in Oldest(IF matching # {} THEN matching ELSE Queue) :
                 task' = [task EXCEPT ![h] = [@ EXCEPT !.step = "picked", !.esc = e]]
            /\ lock' = h
  /\ UNCHANGED <<esc, stat, assignee, flagged, members, outbox, claimed,
                 ended, bounds>>

\* Mutant: the lock is not taken.
PickUnlocked(h) == PickFor(h, TRUE)

PickForMember(h) == PickFor(h, lock = NoTask)

\* The escalations once those of rows follow a manual assignment to m.
Relabelled(rows, m) ==
  [e \in Escalations |->
     IF e \notin rows THEN esc[e]
     ELSE [esc[e] EXCEPT !.status = "assigned", !.reason = "manual",
                         !.owner = IF m = NoOne THEN @ ELSE m]]

\* The uncommitted relabelling of t; a handler has none.
Pending(t) ==
  IF task[t].rel = {} THEN esc ELSE Relabelled(task[t].rel, task[t].event.new)

\* drain_any, in the transaction that relabelled: the oldest queued escalation
\* and its best candidate. Without one the relabelling commits alone.
PickAny(w) ==
  LET choices == {x \in Oldest(Queue \ task[w].rel) \X Members :
                    x[2] \in Best(x[1], task[w].seen)}
  IN
  /\ task[w].step = "drain any"
  /\ lock = NoTask
  /\ IF choices = {}
       THEN /\ esc' = Pending(w)
            /\ task' = [task EXCEPT ![w] = [@ EXCEPT !.step = "delete", !.rel = {}]]
            /\ UNCHANGED lock
       ELSE /\ \E x \in choices :
                 task' = [task EXCEPT ![w] = [@ EXCEPT !.step = "picked",
                                              !.esc = x[1], !.member = x[2]]]
            /\ lock' = w
            /\ UNCHANGED esc
  /\ UNCHANGED <<stat, assignee, flagged, members, outbox, claimed, ended, bounds>>

\* The UPDATE of the escalation that was read, by its id alone, and the commit.
\* The unique index would refuse a second active one: OneActive says it need not.
CommitDrain(t) ==
  LET e == task[t].esc
      m == task[t].member
      c == esc[e].conv
  IN
  /\ task[t].step = "picked"
  /\ Free(t)
  /\ esc' = [Pending(t) EXCEPT ![e] = [@ EXCEPT !.status = "assigned",
                                          !.owner = m, !.reason = "drain"]]
  /\ Assign(c, m)
  /\ IF t \in Handlers
       THEN /\ flagged' = flagged \cup {c}
            /\ task' = [task EXCEPT ![t] = Idle]
       ELSE /\ task' = [task EXCEPT ![t] = [@ EXCEPT !.step = "delete", !.rel = {}]]
            /\ UNCHANGED flagged
  /\ lock' = Unlocked(t)
  /\ UNCHANGED <<stat, members, outbox, claimed, ended, bounds>>

-----------------------------------------------------------------------------
(* Availability and presence.                                              *)

\* set_my_availability commits the new state, then drains.
GoAvailable(h, m) ==
  /\ task[h] = Idle
  /\ m \notin available
  /\ available' = available \cup {m}
  /\ task' = [task EXCEPT ![h] = [Idle EXCEPT !.step = "drain", !.member = m]]
  /\ UNCHANGED <<esc, stat, assignee, flagged, present, outbox, claimed, lock,
                 ended, bounds>>

\* By the member's toggle, or by the revert of an absent member.
GoAway(m) ==
  /\ m \in available
  /\ available' = available \ {m}
  /\ UNCHANGED <<esc, stat, assignee, flagged, present, outbox, claimed, task,
                 lock, ended, bounds>>

\* stream_events: a member who is still available gets a drain.
Connect(h, m) ==
  /\ task[h] = Idle
  /\ m \notin present
  /\ present' = present \cup {m}
  /\ task' = IF m \in available
               THEN [task EXCEPT ![h] = [Idle EXCEPT !.step = "drain", !.member = m]]
               ELSE task
  /\ UNCHANGED <<esc, stat, assignee, flagged, available, outbox, claimed, lock,
                 ended, bounds>>

Disconnect(m) ==
  /\ m \in present
  /\ present' = present \ {m}
  /\ UNCHANGED <<esc, stat, assignee, flagged, available, outbox, claimed, task,
                 lock, ended, bounds>>

-----------------------------------------------------------------------------
(* Conversations.                                                          *)

\* patch_conversation_in_tx with a status, an assignment or both.
Patch(c, st, m) ==
  LET Event(kind, old, new) ==
        [id |-> patches + 1, kind |-> kind, conv |-> c, old |-> old, new |-> new]
  IN
  /\ patches < MaxPatches
  /\ c \notin LockedConv
  /\ st # stat[c] \/ m # assignee[c]
  /\ stat' = [stat EXCEPT ![c] = st]
  /\ assignee' = [assignee EXCEPT ![c] = m]
  /\ outbox' = outbox \cup
       {ev \in {Event("ended", NoOne, NoOne), Event("assigned", assignee[c], m)} :
          CASE ev.kind = "ended"    -> st \in Ended /\ st # stat[c]
            [] ev.kind = "assigned" -> m # assignee[c]}
  /\ ended' = IF st \in Ended THEN ended \cup ActiveOf(c) ELSE ended
  /\ patches' = patches + 1
  /\ UNCHANGED <<esc, flagged, members, claimed, task, lock, aborts>>

\* add_message_in_tx reopens an ended conversation and emits no event.
Reopen(c) ==
  /\ stat[c] \in Ended
  /\ c \notin LockedConv
  /\ stat' = [stat EXCEPT ![c] = "open"]
  /\ UNCHANGED <<esc, assignee, flagged, members, outbox, claimed, task, lock,
                 ended, bounds>>

-----------------------------------------------------------------------------
(* The outbox worker.                                                      *)

\* created_at is the start of the producing transaction, so a row can become
\* visible after younger ones: any row may be the oldest one seen.
ClaimEvent(w) ==
  /\ task[w] = Idle
  /\ \E ev \in outbox \ claimed :
       /\ claimed' = claimed \cup {ev}
       /\ task' = [task EXCEPT ![w] = [Idle EXCEPT !.step = "handle", !.event = ev]]
  /\ UNCHANGED <<esc, stat, assignee, flagged, members, outbox, lock, ended, bounds>>

\* The conversation ended: its escalation, if its row is one of rows, is closed.
CloseRows(w, rows) ==
  LET c == task[w].event.conv IN
  /\ task[w].step = "handle"
  /\ task[w].event.kind = "ended"
  /\ rows \cap LockedEsc = {}
  /\ rows # {} => c \notin LockedConv
  /\ esc' = [e \in Escalations |->
               IF e \in rows THEN [esc[e] EXCEPT !.status = "closed"] ELSE esc[e]]
  /\ flagged' = IF rows # {} THEN flagged \ {c} ELSE flagged
  /\ task' = [task EXCEPT ![w].step = "delete"]
  /\ UNCHANGED <<stat, assignee, members, outbox, claimed, lock, ended, bounds>>

\* Mutant: queued escalations stay.
CloseAssigned(w) ==
  CloseRows(w, {e \in ActiveOf(task[w].event.conv) : esc[e].status = "assigned"})

\* The drain that should follow tests payload.prevStatus, which no producer
\* writes, and never runs.
CloseActive(w) == CloseRows(w, ActiveOf(task[w].event.conv))

\* The assignment changed: a queued escalation becomes the new assignee's, an
\* assigned one is relabelled unless it was before. If the old assignee lost
\* the conversation the same transaction goes on to drain, its rows locked.
Relabel(w) ==
  LET ev == task[w].event
      rows == {e \in ActiveOf(ev.conv) :
                 \/ esc[e].status = "queued" /\ ev.new # NoOne
                 \/ esc[e].status = "assigned" /\ esc[e].reason # "manual"}
  IN
  /\ task[w].step = "handle"
  /\ ev.kind = "assigned"
  /\ rows \cap LockedEsc = {}
  /\ IF ev.old # NoOne /\ ev.old # ev.new
       THEN /\ task' = [task EXCEPT ![w] = [@ EXCEPT !.step = "drain any",
                                             !.rel = rows, !.seen = present]]
            /\ UNCHANGED esc
       ELSE /\ task' = [task EXCEPT ![w].step = "delete"]
            /\ esc' = Relabelled(rows, ev.new)
  /\ UNCHANGED <<stat, assignee, flagged, members, outbox, claimed, lock,
                 ended, bounds>>

DeleteEvent(w) ==
  /\ task[w].step = "delete"
  /\ outbox' = outbox \ {task[w].event}
  /\ claimed' = claimed \ {task[w].event}
  /\ task' = [task EXCEPT ![w] = Idle]
  /\ UNCHANGED <<esc, stat, assignee, flagged, members, lock, ended, bounds>>

-----------------------------------------------------------------------------
(* Deadlocks and crashes.                                                  *)

Opens(t) == task[t].step \in {"escalate", "route"}

Waiting(t) == task[t].step \in {"escalate", "drain any"}

\* The transaction of t is rolled back; a worker whose statement failed, rather
\* than its process, gives its row back.
RollBack(t, giveBack) ==
  /\ esc' = [e \in Escalations |->
               IF Opens(t) /\ e = task[t].esc
                 THEN [esc[e] EXCEPT !.status = "refused"] ELSE esc[e]]
  /\ task' = [task EXCEPT ![t] = Idle]
  /\ lock' = Unlocked(t)
  /\ claimed' = IF giveBack THEN claimed \ {task[t].event} ELSE claimed
  /\ UNCHANGED <<stat, assignee, flagged, members, outbox, ended, patches>>

\* t waits for the routing lock with a row locked that its holder u needs:
\* PostgreSQL ends one of the two.
BreakDeadlock(t, u) ==
  /\ Waiting(t)
  /\ lock = u
  /\ Blocks(t, u)
  /\ RollBack(t, TRUE) \/ RollBack(u, TRUE)
  /\ UNCHANGED aborts

Crash(t) ==
  /\ task[t].step # "idle"
  /\ aborts < MaxAborts
  /\ aborts' = aborts + 1
  /\ RollBack(t, FALSE)

-----------------------------------------------------------------------------
Opening(h) == TakeLock(h) \/ RefuseDuplicate(h) \/ Route(h)

Handling(w) ==
  CloseActive(w) \/ Relabel(w) \/ PickAny(w) \/ DeleteEvent(w)

Handler(h) ==
  \/ \E c \in Conversations, e \in Escalations, holds \in BOOLEAN :
       BeginEscalate(h, c, e, holds)
  \/ Opening(h)
  \/ PickForMember(h)
  \/ \E m \in Members : GoAvailable(h, m) \/ Connect(h, m)

Staff ==
  \/ \E m \in Members, e \in Escalations : Claim(m, e)
  \/ \E m \in Members : GoAway(m) \/ Disconnect(m)
  \/ \E c \in Conversations, st \in {"open"} \cup Ended, m \in Members \cup {NoOne} :
       Patch(c, st, m)
  \/ \E c \in Conversations : Reopen(c)

Next ==
  \/ \E h \in Handlers : Handler(h)
  \/ \E w \in Workers : ClaimEvent(w) \/ Handling(w)
  \/ Staff
  \/ \E t \in Tasks : CommitDrain(t) \/ Crash(t)
  \/ \E t, u \in Tasks : BreakDeadlock(t, u)

Spec == Init /\ [][Next]_vars

(***************************************************************************)
(* Tasks go on, the worker polls, PostgreSQL grants a lock in the order of *)
(* the requests (strong fairness) and breaks deadlocks. What staff and     *)
(* customers do is up to them.                                             *)
(***************************************************************************)
Fairness ==
  /\ \A h \in Handlers : SF_vars(Opening(h)) /\ SF_vars(PickForMember(h))
  /\ \A w \in Workers : WF_vars(ClaimEvent(w)) /\ SF_vars(Handling(w))
  /\ \A t \in Tasks : SF_vars(CommitDrain(t))
  /\ \A t, u \in Tasks : WF_vars(BreakDeadlock(t, u))

FairSpec == Spec /\ Fairness

-----------------------------------------------------------------------------
(* Properties.                                                             *)

\* No conversation has two active escalations, and the drain, whose UPDATE by id
\* may bring back an escalation that was closed after it was read, never makes
\* the unique index refuse one: meanwhile the routing lock kept a new one out.
OneActive ==
  \A e, f \in Escalations :
    e # f /\ esc[e].status \in Active /\ esc[f].status \in Active
      => esc[e].conv # esc[f].conv

\* FR-011: two drains, one for each of two members or by two servers, never
\* hand the same escalation to one member after the other.
DrainedOnce ==
  [][\A e \in Escalations :
       esc[e].reason = "drain" /\ esc'[e].reason = "drain"
         => esc'[e].owner = esc[e].owner]_vars

\* A queued escalation's conversation is in the "escalated" inbox, which reads
\* conversations.escalated_at: opening, closing and relabelling keep the two
\* tables in step.
QueuedIsFlagged ==
  \A e \in Escalations : esc[e].status = "queued" => esc[e].conv \in flagged

\* FR-015: unless a process dies (its claimed rows are never handled again), an
\* ended conversation's escalation is closed, whatever deadlocks, claims and
\* drains its closing meets.
EndedIsClosed ==
  \A e \in Escalations :
    (/\ esc[e].status \in Active
     /\ \E ev \in outbox \ claimed : ev.kind = "ended" /\ ev.conv = esc[e].conv)
      ~> (esc[e].status = "closed" \/ aborts > 0)

-----------------------------------------------------------------------------
(* Why OneActive, QueuedIsFlagged and DrainedOnce hold: an inductive       *)
(* invariant.                                                              *)

Alone(e) ==
  \A f \in Escalations : f # e /\ esc[f].conv = esc[e].conv => esc[f].status \notin Active

\* The holder of the lock is the task that decides; the row of an opening
\* transaction is its own; an escalation that was read for a drain may have been
\* claimed, relabelled or closed since, but not drained, and its conversation
\* got no other; rows locked by a relabelling stay active.
TaskInv(t) ==
  /\ task[t].step \in {"route", "picked"} <=> lock = t
  /\ Opens(t) => task[t].esc \in Escalations /\ esc[task[t].esc].status = "opening"
  /\ task[t].step = "picked" =>
       /\ task[t].esc \in Escalations
       /\ esc[task[t].esc].status \in {"queued", "assigned", "closed"}
       /\ esc[task[t].esc].reason # "drain"
       /\ Alone(task[t].esc)
  /\ task[t].step \in {"drain", "picked"} => task[t].member \in Members
  /\ task[t].step = "handle" \/ task[t].rel # {} => task[t].event \in Events
  /\ \A e \in task[t].rel : esc[e].status \in Active

RowInv(e) ==
  /\ esc[e].status # "none" => esc[e].conv \in Conversations
  /\ esc[e].status \in {"none", "opening", "queued"} => esc[e].reason # "drain"

IndInv ==
  /\ TypeOK
  /\ OneActive
  /\ QueuedIsFlagged
  /\ \A e \in Escalations : RowInv(e)
  /\ \A t \in Tasks : TaskInv(t)
  /\ \A t, u \in Tasks : t # u /\ Opens(t) /\ Opens(u) => task[t].esc # task[u].esc

-----------------------------------------------------------------------------
(* What the feature's specification says and the code does not do.         *)

\* specs/014 data-model.md: "No transition out of `closed`".
ClosedForEver ==
  [][\A e \in Escalations : esc[e].status = "closed" => esc'[e].status = "closed"]_vars

\* FR-003: "An escalation MUST never be silently dropped": one is closed only
\* if its conversation ended after it was opened.
NeverDropped ==
  \A e \in Escalations : esc[e].status = "closed" => e \in ended

\* FR-014: when a conversation ends and its assignee's load decreases, the head
\* of the queue goes to an eligible member.
LoadDecreaseDrains ==
  \A e \in Escalations :
    (/\ esc[e].status = "queued"
     /\ \A f \in Escalations : f < e => esc[f].status \notin {"opening", "queued"}
     /\ \E ev \in outbox \ claimed :
          ev.kind = "ended" /\ stat[ev.conv] \in Ended /\ assignee[ev.conv] # NoOne
     /\ available \cap present # {})
      ~> (esc[e].status # "queued" \/ available \cap present = {})

=============================================================================
