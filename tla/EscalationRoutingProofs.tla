---------------------- MODULE EscalationRoutingProofs ----------------------
(***************************************************************************)
(* Proofs about EscalationRouting, for every number of escalations,        *)
(* conversations, members, requests and server processes, and any matching *)
(* of skills: IndInv is inductive and the safety properties follow.        *)
(***************************************************************************)
EXTENDS EscalationRouting, TLAPS

-----------------------------------------------------------------------------
(* Helpers.                                                                *)

\* Routing and draining choose available members.
LEMMA BestEligible ==
  ASSUME NEW e, NEW seen
  PROVE  Best(e, seen) \subseteq available
BY DEF Best

\* A relabelling touches the rows it names and keeps the types.
LEMMA RelabelledTyped ==
  ASSUME TypeOK, NEW rows \in SUBSET Escalations, NEW m \in Members \cup {NoOne}
  PROVE  Relabelled(rows, m) \in [Escalations -> Row]
  <1> USE DEF TypeOK, Row, Statuses, Active, Reasons
  <1> SUFFICES ASSUME NEW e \in Escalations
               PROVE  (IF e \notin rows THEN esc[e]
                       ELSE [esc[e] EXCEPT !.status = "assigned", !.reason = "manual",
                                           !.owner = IF m = NoOne THEN @ ELSE m]) \in Row
    BY DEF Relabelled
  <1>1. esc[e] \in Row
    OBVIOUS
  <1> QED
    BY <1>1

LEMMA RelabelledRow ==
  ASSUME TypeOK, NEW rows \in SUBSET Escalations, NEW m, NEW e \in Escalations
  PROVE  /\ e \notin rows => Relabelled(rows, m)[e] = esc[e]
         /\ e \in rows => /\ Relabelled(rows, m)[e].status = "assigned"
                          /\ Relabelled(rows, m)[e].reason = "manual"
                          /\ Relabelled(rows, m)[e].conv = esc[e].conv
BY DEF Relabelled, TypeOK, Row

\* So does the relabelling that a task has not committed.
LEMMA PendingTyped ==
  ASSUME IndInv, NEW t \in Tasks
  PROVE  Pending(t) \in [Escalations -> Row]
  <1>1. TypeOK /\ TaskInv(t) /\ task[t] \in TaskState
    BY DEF IndInv, TypeOK
  <1>2. CASE task[t].rel = {}
    BY <1>1, <1>2 DEF Pending, TypeOK
  <1>3. CASE task[t].rel # {}
    <2>1. task[t].event.new \in Members \cup {NoOne} /\ task[t].rel \in SUBSET Escalations
      BY <1>1, <1>3 DEF TaskInv, TaskState, Events
    <2> QED
      BY <1>1, <1>3, <2>1, RelabelledTyped DEF Pending
  <1> QED
    BY <1>2, <1>3

LEMMA PendingRow ==
  ASSUME IndInv, NEW t \in Tasks, NEW e \in Escalations
  PROVE  /\ Pending(t)[e].conv = esc[e].conv
         /\ \/ Pending(t)[e] = esc[e]
            \/ /\ e \in task[t].rel
               /\ esc[e].status \in Active
               /\ Pending(t)[e].status = "assigned"
               /\ Pending(t)[e].reason = "manual"
  <1>1. TypeOK /\ TaskInv(t) /\ task[t].rel \in SUBSET Escalations
    BY DEF IndInv, TypeOK, TaskState
  <1>2. CASE task[t].rel = {}
    BY <1>2 DEF Pending
  <1>3. CASE task[t].rel # {}
    BY <1>1, <1>3, RelabelledRow DEF Pending, TaskInv
  <1> QED
    BY <1>2, <1>3

-----------------------------------------------------------------------------
LEMMA InitIndInv == Init => IndInv
  <1> SUFFICES ASSUME Init PROVE IndInv
    OBVIOUS
  <1> USE BoundsAssumption, NullAssumption DEF Init, NoRow, Idle
  <1>1. TypeOK
    BY DEF TypeOK, Row, Statuses, Reasons, Active, Ended, TaskState, Steps
  <1>2. \A e \in Escalations : esc[e].status = "none" /\ esc[e].reason = "none"
    OBVIOUS
  <1>3. \A t \in Tasks : task[t].step = "idle" /\ task[t].rel = {} /\ lock # t
    BY DEF Tasks
  <1>4. OneActive /\ QueuedIsFlagged /\ \A e \in Escalations : RowInv(e)
    BY <1>2 DEF OneActive, QueuedIsFlagged, RowInv, Active
  <1>5. \A t \in Tasks : TaskInv(t) /\ ~Opens(t)
    BY <1>3 DEF TaskInv, Opens
  <1> QED
    BY <1>1, <1>4, <1>5 DEF IndInv

-----------------------------------------------------------------------------
\* The types of everything but the tasks and the lock.
DataOK ==
  /\ esc \in [Escalations -> Row]
  /\ stat \in [Conversations -> {"open"} \cup Ended]
  /\ assignee \in [Conversations -> Members \cup {NoOne}]
  /\ flagged \in SUBSET Conversations
  /\ available \in SUBSET Members
  /\ present \in SUBSET Members
  /\ outbox \in SUBSET Events
  /\ claimed \in SUBSET Events
  /\ ended \in SUBSET Escalations
  /\ patches \in 0..MaxPatches
  /\ aborts \in 0..MaxAborts

\* One task moves: it takes the lock with a decision to make, or lets go of it.
LEMMA TaskMoves ==
  ASSUME IndInv, DataOK', NEW t \in Tasks, NEW r \in TaskState,
         task' = [task EXCEPT ![t] = r],
         \/ lock' = Unlocked(t)
         \/ lock' = t /\ r.step \in {"route", "picked"}
  PROVE  TypeOK'
  <1>1. TypeOK /\ \A u \in Tasks : lock = u => task[u].step \in {"route", "picked"}
    BY DEF IndInv, TaskInv
  <1>2. task' \in [Tasks -> TaskState]
    BY <1>1 DEF TypeOK
  <1>3. /\ task'[t] = r
        /\ \A u \in Tasks : u # t => task'[u] = task[u]
    BY <1>1 DEF TypeOK
  <1>4. lock \in Tasks \cup {NoTask}
    BY <1>1 DEF TypeOK
  <1>5. lock' \in {u \in Tasks : task'[u].step \in {"route", "picked"}} \cup {NoTask}
    BY <1>1, <1>3, <1>4 DEF Unlocked
  <1> QED
    BY <1>2, <1>5 DEF DataOK, TypeOK

LEMMA IdleTyped == Idle \in TaskState
BY DEF Idle, TaskState, Steps

\* A step of the outbox or of the members keeps every type.
LEMMA TypeOfStaff ==
  ASSUME IndInv, Staff
  PROVE  TypeOK'
  <1> USE DEF members, bounds, Row, Statuses, Active, Ended, Reasons
  <1>0. TypeOK
    BY DEF IndInv
  <1>1. ASSUME NEW m \in Members, NEW e \in Escalations, Claim(m, e) PROVE TypeOK'
    <2>1. esc[e] \in Row /\ esc[e].conv \in Conversations \cup {NoConv}
      BY <1>0 DEF TypeOK
    <2>2. [esc[e] EXCEPT !.status = "assigned", !.owner = m, !.reason = "claim"] \in Row
      BY <2>1
    <2>3. esc' \in [Escalations -> Row]
      BY <1>0, <1>1, <2>2 DEF Claim, TypeOK
    <2>4. assignee' \in [Conversations -> Members \cup {NoOne}]
      BY <1>0, <1>1 DEF Claim, Assign, TypeOK
    <2> QED
      BY <1>0, <1>1, <2>3, <2>4 DEF Claim, TypeOK
  <1>2. ASSUME NEW m \in Members, GoAway(m) PROVE TypeOK'
    BY <1>0, <1>2 DEF GoAway, TypeOK
  <1>3. ASSUME NEW m \in Members, Disconnect(m) PROVE TypeOK'
    BY <1>0, <1>3 DEF Disconnect, TypeOK
  <1>4. ASSUME NEW c \in Conversations, NEW st \in {"open"} \cup Ended,
               NEW m \in Members \cup {NoOne}, Patch(c, st, m)
        PROVE  TypeOK'
    <2>1. patches + 1 \in 1..MaxPatches /\ patches' = patches + 1
      BY <1>0, <1>4, BoundsAssumption DEF Patch, TypeOK
    <2>2. assignee[c] \in Members \cup {NoOne}
      BY <1>0 DEF TypeOK
    <2>3. outbox' \in SUBSET Events
      <3> DEFINE Event(kind, old, new) == [id |-> patches + 1, kind |-> kind,
                                           conv |-> c, old |-> old, new |-> new]
      <3>1. /\ Event("ended", NoOne, NoOne) \in Events
            /\ Event("assigned", assignee[c], m) \in Events
        BY <2>1, <2>2 DEF Events
      <3>2. outbox' \subseteq outbox \cup {Event("ended", NoOne, NoOne),
                                         Event("assigned", assignee[c], m)}
        BY <1>4 DEF Patch
      <3> QED
        BY <1>0, <3>1, <3>2 DEF TypeOK
    <2>4. ended' \in SUBSET Escalations
      BY <1>0, <1>4 DEF Patch, TypeOK, ActiveOf
    <2>5. patches' \in 0..MaxPatches
      BY <1>0, <2>1, BoundsAssumption DEF TypeOK
    <2>6. /\ stat' \in [Conversations -> {"open"} \cup Ended]
          /\ assignee' \in [Conversations -> Members \cup {NoOne}]
      BY <1>0, <1>4 DEF Patch, TypeOK
    <2> QED
      BY <1>0, <1>4, <2>3, <2>4, <2>5, <2>6 DEF Patch, TypeOK
  <1>5. ASSUME NEW c \in Conversations, Reopen(c) PROVE TypeOK'
    BY <1>0, <1>5 DEF Reopen, TypeOK
  <1> QED
    BY <1>1, <1>2, <1>3, <1>4, <1>5 DEF Staff

\* An opening, a member's drain and their requests keep the types.
LEMMA TypeOfHandler ==
  ASSUME IndInv, NEW h \in Handlers, Handler(h)
  PROVE  TypeOK'
  <1> USE DEF members, bounds
  <1>0. /\ TypeOK
        /\ h \in Tasks
        /\ task[h] \in TaskState
        /\ DataOK
        /\ TaskInv(h)
    BY DEF IndInv, TypeOK, DataOK, Tasks
  <1>1. ASSUME NEW c \in Conversations, NEW e \in Escalations, NEW holds \in BOOLEAN,
               BeginEscalate(h, c, e, holds)
        PROVE  TypeOK'
    <2> DEFINE r == [Idle EXCEPT !.step = "escalate", !.esc = e, !.seen = present,
                                 !.holds = holds]
               row == [NoRow EXCEPT !.status = "opening", !.conv = c]
    <2>1. r \in TaskState
      BY <1>0 DEF Idle, TaskState, Steps, TypeOK
    <2>2. row \in Row
      BY DEF NoRow, Row, Statuses, Active, Reasons
    <2>3. esc' \in [Escalations -> Row]
      BY <1>0, <1>1, <2>2 DEF BeginEscalate, TypeOK
    <2>4. DataOK'
      BY <1>0, <1>1, <2>3 DEF BeginEscalate, DataOK
    <2>5. lock' = Unlocked(h)
      BY <1>0, <1>1 DEF BeginEscalate, TaskInv, Idle, Unlocked
    <2> QED
      BY <1>0, <1>1, <2>1, <2>4, <2>5, TaskMoves DEF BeginEscalate
  <1>2. ASSUME TakeLock(h) PROVE TypeOK'
    <2> DEFINE r == [task[h] EXCEPT !.step = "route"]
    <2>1. r \in TaskState /\ r.step = "route"
      BY <1>0 DEF TaskState, Steps
    <2>2. task' = [task EXCEPT ![h] = r] /\ lock' = h
      BY <1>2 DEF TakeLock
    <2>3. DataOK'
      BY <1>0, <1>2 DEF TakeLock, DataOK
    <2> QED
      BY <1>0, <2>1, <2>2, <2>3, TaskMoves
  <1>3. ASSUME RefuseDuplicate(h) PROVE TypeOK'
    <2>1. [esc[task[h].esc] EXCEPT !.status = "refused"] \in Row
      BY <1>0, <1>3 DEF RefuseDuplicate, Refuse, TaskInv, Opens, TypeOK, Row, Statuses
    <2>2. esc' = [esc EXCEPT ![task[h].esc] = [esc[task[h].esc] EXCEPT !.status = "refused"]]
      BY <1>3 DEF RefuseDuplicate, Refuse
    <2>3. DataOK'
      BY <1>0, <1>3, <2>1, <2>2 DEF RefuseDuplicate, Refuse, DataOK
    <2> QED
      BY <1>0, <1>3, <2>3, IdleTyped, TaskMoves DEF RefuseDuplicate, Refuse
  <1>4. ASSUME Route(h) PROVE TypeOK'
    <2> DEFINE e == task[h].esc
               c == esc[e].conv
    <2>1. e \in Escalations /\ esc[e] \in Row /\ c \in Conversations
      BY <1>0, <1>4 DEF Route, RouteNew, TaskInv, Opens, TypeOK, IndInv, RowInv
    <2>2. /\ esc' \in [Escalations -> Row]
          /\ assignee' \in [Conversations -> Members \cup {NoOne}]
      <3>1. CASE Best(e, task[h].seen) = {}
        <4>1. esc' = [esc EXCEPT ![e] = [esc[e] EXCEPT !.status = "queued"]]
              /\ assignee' = assignee
          BY <1>4, <3>1 DEF Route, RouteNew
        <4>2. [esc[e] EXCEPT !.status = "queued"] \in Row
          BY <2>1 DEF Row, Statuses, Active
        <4> QED
          BY <1>0, <4>1, <4>2 DEF TypeOK
      <3>2. CASE Best(e, task[h].seen) # {}
        <4>1. PICK m \in Best(e, task[h].seen) :
                /\ esc' = [esc EXCEPT ![e] = [esc[e] EXCEPT !.status = "assigned",
                                                !.owner = m, !.reason = "routed"]]
                /\ assignee' = [assignee EXCEPT ![c] = m]
          BY <1>4, <3>2 DEF Route, RouteNew, Assign
        <4>2. m \in Members
          BY <1>0, BestEligible DEF TypeOK
        <4>3. [esc[e] EXCEPT !.status = "assigned", !.owner = m, !.reason = "routed"] \in Row
          BY <2>1, <4>2 DEF Row, Statuses, Active, Reasons
        <4> QED
          BY <1>0, <4>1, <4>2, <4>3 DEF TypeOK
      <3> QED
        BY <3>1, <3>2
    <2>3. flagged' \in SUBSET Conversations /\ ended' \in SUBSET Escalations
      BY <1>0, <1>4, <2>1 DEF Route, RouteNew, DataOK
    <2>4. DataOK'
      BY <1>0, <1>4, <2>2, <2>3 DEF Route, RouteNew, DataOK
    <2> QED
      BY <1>0, <1>4, <2>4, IdleTyped, TaskMoves DEF Route, RouteNew
  <1>5. ASSUME PickForMember(h) PROVE TypeOK'
    <2>1. DataOK' /\ lock # h
      BY <1>0, <1>5 DEF PickForMember, PickFor, DataOK, TaskInv
    <2>2. CASE Queue = {}
      BY <1>0, <1>5, <2>1, <2>2, IdleTyped, TaskMoves DEF PickForMember, PickFor, Unlocked
    <2>3. CASE Queue # {}
      <3>1. PICK e \in Queue : task' = [task EXCEPT ![h] =
                                          [task[h] EXCEPT !.step = "picked", !.esc = e]]
        BY <1>5, <2>3 DEF PickForMember, PickFor, Oldest
      <3> DEFINE r == [task[h] EXCEPT !.step = "picked", !.esc = e]
      <3>2. r \in TaskState /\ r.step = "picked"
        BY <1>0 DEF TaskState, Steps, Queue
      <3>3. lock' = h
        BY <1>5, <2>3 DEF PickForMember, PickFor
      <3> QED
        BY <1>0, <2>1, <3>1, <3>2, <3>3, TaskMoves
    <2> QED
      BY <2>2, <2>3
  <1>6. ASSUME NEW m \in Members, GoAvailable(h, m) \/ Connect(h, m) PROVE TypeOK'
    <2> DEFINE r == [Idle EXCEPT !.step = "drain", !.member = m]
    <2>1. r \in TaskState
      BY DEF Idle, TaskState, Steps
    <2>2. DataOK'
      BY <1>0, <1>6 DEF GoAvailable, Connect, DataOK
    <2>3. lock' = Unlocked(h)
      BY <1>0, <1>6 DEF GoAvailable, Connect, TaskInv, Idle, Unlocked
    <2>4. \E q \in TaskState : task' = [task EXCEPT ![h] = q]
      <3>1. task = [task EXCEPT ![h] = task[h]]
        BY <1>0 DEF TypeOK
      <3> QED
        BY <1>0, <1>6, <2>1, <3>1 DEF GoAvailable, Connect
    <2> QED
      BY <1>0, <2>2, <2>3, <2>4, TaskMoves
  <1> QED
    BY <1>1, <1>2, <1>3, <1>4, <1>5, <1>6 DEF Handler, Opening

\* So do the worker's claim and everything it does with the row.
LEMMA TypeOfWorker ==
  ASSUME IndInv, NEW w \in Workers, ClaimEvent(w) \/ Handling(w)
  PROVE  TypeOK'
  <1> USE DEF members, bounds
  <1>0. /\ TypeOK
        /\ w \in Tasks
        /\ task[w] \in TaskState
        /\ DataOK
        /\ TaskInv(w)
    BY DEF IndInv, TypeOK, DataOK, Tasks
  <1>a. task[w].step \notin {"route", "picked"} => lock = Unlocked(w)
    BY <1>0 DEF TaskInv, Unlocked
  <1>1. ASSUME ClaimEvent(w) PROVE TypeOK'
    <2>1. PICK ev \in outbox :
            /\ claimed' = claimed \cup {ev}
            /\ task' = [task EXCEPT ![w] = [Idle EXCEPT !.step = "handle", !.event = ev]]
      BY <1>1 DEF ClaimEvent
    <2>2. [Idle EXCEPT !.step = "handle", !.event = ev] \in TaskState
      BY <1>0 DEF DataOK, Idle, TaskState, Steps
    <2>3. DataOK'
      BY <1>0, <1>1, <2>1 DEF ClaimEvent, DataOK
    <2>4. lock' = Unlocked(w)
      <3>1. task[w] = Idle /\ lock' = lock
        BY <1>1 DEF ClaimEvent
      <3> QED
        BY <1>a, <3>1 DEF Idle
    <2> QED
      BY <1>0, <2>1, <2>2, <2>3, <2>4, TaskMoves
  <1>2. ASSUME CloseActive(w) PROVE TypeOK'
    <2> DEFINE r == [task[w] EXCEPT !.step = "delete"]
               rows == ActiveOf(task[w].event.conv)
    <2>1. r \in TaskState
      BY <1>0 DEF TaskState, Steps
    <2>2. \A e \in Escalations : [esc[e] EXCEPT !.status = "closed"] \in Row
      BY <1>0 DEF DataOK, Row, Statuses
    <2>3. esc' = [e \in Escalations |->
                    IF e \in rows THEN [esc[e] EXCEPT !.status = "closed"] ELSE esc[e]]
      BY <1>2 DEF CloseActive, CloseRows
    <2>4. esc' \in [Escalations -> Row]
      BY <1>0, <2>2, <2>3 DEF DataOK
    <2>5. DataOK'
      BY <1>0, <1>2, <2>4 DEF CloseActive, CloseRows, DataOK
    <2>6. task' = [task EXCEPT ![w] = r] /\ lock' = Unlocked(w)
      BY <1>a, <1>2 DEF CloseActive, CloseRows
    <2> QED
      BY <1>0, <2>1, <2>5, <2>6, TaskMoves
  <1>3. ASSUME Relabel(w) PROVE TypeOK'
    <2>1. PICK rows \in SUBSET Escalations :
            \/ /\ task' = [task EXCEPT ![w] = [task[w] EXCEPT !.step = "drain any",
                                                 !.rel = rows, !.seen = present]]
               /\ esc' = esc
            \/ /\ task' = [task EXCEPT ![w] = [task[w] EXCEPT !.step = "delete"]]
               /\ esc' = Relabelled(rows, task[w].event.new)
      <3> DEFINE ev == task[w].event
                 rows == {e \in ActiveOf(ev.conv) :
                            \/ esc[e].status = "queued" /\ ev.new # NoOne
                            \/ esc[e].status = "assigned" /\ esc[e].reason # "manual"}
      <3>1. rows \in SUBSET Escalations
        BY DEF ActiveOf
      <3> QED
        BY <1>3, <3>1 DEF Relabel
    <2>2. task[w].event.new \in Members \cup {NoOne}
      BY <1>0, <1>3 DEF Relabel, TaskInv, Events
    <2>3. DataOK'
      <3>1. Relabelled(rows, task[w].event.new) \in [Escalations -> Row]
        BY <1>0, <2>2, RelabelledTyped
      <3>2. esc' \in [Escalations -> Row]
        BY <1>0, <2>1, <3>1 DEF DataOK
      <3> QED
        BY <1>0, <1>3, <3>2 DEF Relabel, DataOK
    <2>4. \E r \in TaskState : task' = [task EXCEPT ![w] = r]
      <3>1. /\ [task[w] EXCEPT !.step = "delete"] \in TaskState
            /\ [task[w] EXCEPT !.step = "drain any", !.rel = rows, !.seen = present]
                 \in TaskState
        BY <1>0 DEF DataOK, TaskState, Steps
      <3> QED
        BY <2>1, <3>1
    <2>5. lock' = Unlocked(w)
      BY <1>a, <1>3 DEF Relabel
    <2> QED
      BY <1>0, <2>3, <2>4, <2>5, TaskMoves
  <1>4. ASSUME PickAny(w) PROVE TypeOK'
    <2>1. CASE esc' = Pending(w) /\ UNCHANGED lock
               /\ task' = [task EXCEPT ![w] = [task[w] EXCEPT !.step = "delete", !.rel = {}]]
      <3>1. [task[w] EXCEPT !.step = "delete", !.rel = {}] \in TaskState
        BY <1>0 DEF TaskState, Steps
      <3>2. DataOK'
        BY <1>0, <1>4, <2>1, PendingTyped DEF PickAny, DataOK
      <3>3. lock' = Unlocked(w)
        BY <1>a, <1>4, <2>1 DEF PickAny
      <3> QED
        BY <1>0, <2>1, <3>1, <3>2, <3>3, TaskMoves
    <2>2. CASE \E e \in Escalations, m \in Members :
                 /\ task' = [task EXCEPT ![w] = [task[w] EXCEPT !.step = "picked",
                                                   !.esc = e, !.member = m]]
                 /\ lock' = w
                 /\ UNCHANGED esc
      <3>1. PICK e \in Escalations, m \in Members :
              /\ task' = [task EXCEPT ![w] = [task[w] EXCEPT !.step = "picked",
                                                !.esc = e, !.member = m]]
              /\ lock' = w
              /\ UNCHANGED esc
        BY <2>2
      <3> DEFINE r == [task[w] EXCEPT !.step = "picked", !.esc = e, !.member = m]
      <3>2. r \in TaskState /\ r.step = "picked"
        BY <1>0 DEF TaskState, Steps
      <3>3. DataOK'
        BY <1>0, <1>4, <3>1 DEF PickAny, DataOK
      <3> QED
        BY <1>0, <3>1, <3>2, <3>3, TaskMoves
    <2> QED
      BY <1>4, <2>1, <2>2 DEF PickAny, Oldest, Queue
  <1>5. ASSUME DeleteEvent(w) PROVE TypeOK'
    <2>1. DataOK' /\ lock' = Unlocked(w)
      BY <1>0, <1>a, <1>5 DEF DeleteEvent, DataOK
    <2> QED
      BY <1>0, <1>5, <2>1, IdleTyped, TaskMoves DEF DeleteEvent
  <1> QED
    BY <1>1, <1>2, <1>3, <1>4, <1>5 DEF Handling

\* The end of a drain and of a lost transaction.
LEMMA TypeOfEnd ==
  ASSUME IndInv, NEW t \in Tasks, CommitDrain(t) \/ (\E b \in BOOLEAN : RollBack(t, b)),
         aborts' \in 0..MaxAborts
  PROVE  TypeOK'
  <1> USE DEF members, bounds
  <1>0. /\ TypeOK
        /\ task[t] \in TaskState
        /\ DataOK
        /\ TaskInv(t)
    BY DEF IndInv, TypeOK, DataOK, Tasks
  <1>1. ASSUME CommitDrain(t) PROVE TypeOK'
    <2> DEFINE e == task[t].esc
               m == task[t].member
               c == esc[e].conv
               P == Pending(t)
    <2>1. /\ e \in Escalations
          /\ m \in Members
          /\ c \in Conversations
      BY <1>0, <1>1 DEF CommitDrain, TaskInv, IndInv, RowInv
    <2>2. P \in [Escalations -> Row] /\ P[e] \in Row
      BY <2>1, PendingTyped
    <2>3. [P[e] EXCEPT !.status = "assigned", !.owner = m, !.reason = "drain"] \in Row
      BY <2>1, <2>2 DEF Row, Statuses, Active, Reasons
    <2>4. esc' = [P EXCEPT ![e] = [P[e] EXCEPT !.status = "assigned", !.owner = m,
                                                !.reason = "drain"]]
      BY <1>1 DEF CommitDrain
    <2>5. esc' \in [Escalations -> Row]
      BY <2>2, <2>3, <2>4
    <2>6. assignee' \in [Conversations -> Members \cup {NoOne}]
      BY <1>0, <1>1, <2>1 DEF CommitDrain, Assign, DataOK
    <2>7. flagged' \in SUBSET Conversations
      BY <1>0, <1>1, <2>1 DEF CommitDrain, DataOK
    <2>8. DataOK'
      BY <1>0, <1>1, <2>5, <2>6, <2>7 DEF CommitDrain, DataOK
    <2>9. [task[t] EXCEPT !.step = "delete", !.rel = {}] \in TaskState
      BY <1>0 DEF TaskState, Steps
    <2> QED
      BY <1>1, <2>8, <2>9, IdleTyped, TaskMoves DEF CommitDrain
  <1>2. ASSUME NEW b \in BOOLEAN, RollBack(t, b) PROVE TypeOK'
    <2>1. \A e \in Escalations : [esc[e] EXCEPT !.status = "refused"] \in Row
      BY <1>0 DEF DataOK, Row, Statuses
    <2>2. esc' \in [Escalations -> Row]
      BY <1>0, <1>2, <2>1 DEF RollBack, DataOK
    <2>3. DataOK'
      BY <1>0, <1>2, <2>2 DEF RollBack, DataOK
    <2> QED
      BY <1>2, <2>3, IdleTyped, TaskMoves DEF RollBack
  <1> QED
    BY <1>1, <1>2

\* Every step keeps the types.
LEMMA TypeStep == IndInv /\ [Next]_vars => TypeOK'
  <1> SUFFICES ASSUME IndInv, [Next]_vars PROVE TypeOK'
    OBVIOUS
  <1>0. TypeOK
    BY DEF IndInv
  <1>1. CASE UNCHANGED vars
    BY <1>0, <1>1 DEF vars, TypeOK
  <1>2. CASE \E h \in Handlers : Handler(h)
    BY <1>2, TypeOfHandler
  <1>3. CASE \E w \in Workers : ClaimEvent(w) \/ Handling(w)
    BY <1>3, TypeOfWorker
  <1>4. CASE Staff
    BY <1>4, TypeOfStaff
  <1>5. ASSUME NEW t \in Tasks, CommitDrain(t) PROVE TypeOK'
    <2>1. aborts' \in 0..MaxAborts
      BY <1>0, <1>5 DEF CommitDrain, TypeOK, bounds
    <2> QED
      BY <1>5, <2>1, TypeOfEnd
  <1>6. ASSUME NEW t \in Tasks, Crash(t) PROVE TypeOK'
    <2>1. aborts' \in 0..MaxAborts
      BY <1>0, <1>6, BoundsAssumption DEF Crash, TypeOK
    <2> QED
      BY <1>6, <2>1, TypeOfEnd DEF Crash
  <1>7. ASSUME NEW t \in Tasks, NEW u \in Tasks, BreakDeadlock(t, u) PROVE TypeOK'
    <2>1. aborts' \in 0..MaxAborts
      BY <1>0, <1>7 DEF BreakDeadlock, TypeOK
    <2> QED
      BY <1>7, <2>1, TypeOfEnd DEF BreakDeadlock
  <1> QED
    BY <1>1, <1>2, <1>3, <1>4, <1>5, <1>6, <1>7 DEF Next

-----------------------------------------------------------------------------
(* Steps that make no escalation active.                                   *)

ReadStatuses == {"queued", "assigned", "closed"}
EarlyStatuses == {"none", "opening", "queued"}

Rest ==
  /\ OneActive
  /\ QueuedIsFlagged
  /\ \A e \in Escalations : RowInv(e)
  /\ \A t \in Tasks : TaskInv(t)
  /\ \A t, u \in Tasks : t # u /\ Opens(t) /\ Opens(u) => task[t].esc # task[u].esc

\* The row e is not activated, moved, drained or sent back.
Kept(e) ==
  /\ esc'[e].status \in Active => esc[e].status \in Active
  /\ esc[e].status # "none" => esc'[e].conv = esc[e].conv
  /\ esc'[e].status # "none" => esc'[e].conv \in Conversations
  /\ esc[e].status \in ReadStatuses => esc'[e].status \in ReadStatuses
  /\ esc'[e].status \in EarlyStatuses => esc[e].status \in EarlyStatuses
  /\ esc'[e].reason = "drain" => esc[e].reason = "drain"

\* The task u does nothing and the rows it depends on are left to it.
Still(u) ==
  /\ task'[u] = task[u]
  /\ lock' = u <=> lock = u
  /\ Opens(u) => esc'[task[u].esc].status = "opening"
  /\ \A e \in task[u].rel : esc'[e].status \in Active

\* The task u moves on; it opens an escalation of its own, if any.
Moved(u) ==
  /\ TaskInv(u)'
  /\ Opens(u)' => \A v \in Tasks : v # u /\ Opens(v)' => task'[v].esc # task'[u].esc

LEMMA KeptRows ==
  ASSUME IndInv, \A e \in Escalations : Kept(e)
  PROVE  /\ OneActive'
         /\ \A e \in Escalations : RowInv(e)'
         /\ \A e \in Escalations : esc[e].status # "none" /\ Alone(e) => Alone(e)'
  <1>1. OneActive /\ \A e \in Escalations : RowInv(e)
    BY DEF IndInv
  <1>2. \A e \in Escalations : esc'[e].status \in Active =>
                                 esc[e].status \in Active /\ esc'[e].conv = esc[e].conv
    BY DEF Kept, Active
  <1>3. OneActive'
    BY <1>1, <1>2 DEF OneActive
  <1>4. \A e \in Escalations : RowInv(e)'
    BY <1>1 DEF RowInv, Kept, EarlyStatuses
  <1>5. ASSUME NEW e \in Escalations, esc[e].status # "none", Alone(e) PROVE Alone(e)'
    BY <1>2, <1>5 DEF Alone, Kept
  <1> QED
    BY <1>3, <1>4, <1>5

\* A task that is left alone, by a step that activates no escalation or by the
\* holder of the lock, which it does not hold.
LEMMA Bystander ==
  ASSUME IndInv, NEW u \in Tasks, Still(u),
         task[u].step # "picked" \/ \A e \in Escalations : Kept(e)
  PROVE  TaskInv(u)'
  <1>1. TaskInv(u)
    BY DEF IndInv
  <1>2. ASSUME NEW e \in Escalations, e = task[u].esc, task[u].step = "picked"
        PROVE  /\ esc'[e].status \in {"queued", "assigned", "closed"}
               /\ esc'[e].reason # "drain"
               /\ Alone(e)'
    <2>1. /\ esc[e].status \in ReadStatuses
          /\ esc[e].reason # "drain"
          /\ Alone(e)
      BY <1>1, <1>2 DEF TaskInv, ReadStatuses
    <2>2. esc[e].status # "none" /\ Kept(e)
      BY <1>2, <2>1 DEF ReadStatuses
    <2>3. Alone(e)'
      BY <1>2, <2>1, <2>2, KeptRows
    <2> QED
      BY <2>1, <2>2, <2>3 DEF Kept, ReadStatuses
  <1>3. task'[u] = task[u]
    BY DEF Still
  <1>4. task'[u].step = "picked" =>
          /\ task'[u].esc \in Escalations
          /\ esc'[task'[u].esc].status \in {"queued", "assigned", "closed"}
          /\ esc'[task'[u].esc].reason # "drain"
          /\ Alone(task[u].esc)'
    BY <1>1, <1>2, <1>3 DEF TaskInv
  <1> QED
    BY <1>1, <1>3, <1>4 DEF TaskInv, Still, Opens

LEMMA QuietStep ==
  ASSUME IndInv, QueuedIsFlagged', \A e \in Escalations : Kept(e),
         \A u \in Tasks : Still(u) \/ Moved(u)
  PROVE  Rest'
  <1>1. OneActive' /\ \A e \in Escalations : RowInv(e)'
    BY KeptRows
  <1>2. \A u \in Tasks : TaskInv(u)'
    BY Bystander DEF Moved
  <1>3. \A t, u \in Tasks : t # u /\ Opens(t)' /\ Opens(u)' => task'[t].esc # task'[u].esc
    <2>1. ASSUME NEW t \in Tasks, NEW u \in Tasks, t # u, Opens(t)', Opens(u)',
                 Still(t), Still(u)
          PROVE  task'[t].esc # task'[u].esc
      BY <2>1 DEF IndInv, Still, Opens
    <2> QED
      BY <2>1 DEF Moved
  <1> QED
    BY <1>1, <1>2, <1>3 DEF Rest

\* Nothing happens to the escalations: their flags and rows are kept.
LEMMA SameRows ==
  ASSUME IndInv, UNCHANGED <<esc, flagged>>
  PROVE  QueuedIsFlagged' /\ \A e \in Escalations : Kept(e)
BY DEF IndInv, QueuedIsFlagged, RowInv, Kept

LEMMA QuietStaff == ASSUME IndInv, Staff PROVE Rest'
  <1>0. TypeOK
    BY DEF IndInv
  <1>1. ASSUME NEW m \in Members, NEW e \in Escalations, Claim(m, e) PROVE Rest'
    <2>1. \A f \in Escalations :
            IF f = e
              THEN /\ esc[e].status = "queued" /\ esc'[e].status = "assigned"
                   /\ esc'[e].reason = "claim" /\ esc'[e].conv = esc[e].conv
              ELSE esc'[f] = esc[f]
      BY <1>0, <1>1 DEF Claim, TypeOK, Row
    <2>2. UNCHANGED <<flagged, task, lock>>
      BY <1>1 DEF Claim
    <2>3. \A f \in Escalations : Kept(f)
      BY <2>1 DEF IndInv, RowInv, Kept, Active, ReadStatuses, EarlyStatuses
    <2>4. QueuedIsFlagged'
      BY <2>1, <2>2 DEF IndInv, QueuedIsFlagged
    <2>5. ASSUME NEW u \in Tasks PROVE Still(u)
      <3>1. TaskInv(u) /\ task[u].rel \in SUBSET Escalations
        BY <1>0 DEF IndInv, TypeOK, TaskState
      <3> QED
        BY <2>1, <2>2, <3>1 DEF Still, TaskInv, Active
    <2> QED
      BY <2>3, <2>4, <2>5, QuietStep
  <1>2. ASSUME UNCHANGED <<esc, flagged, task, lock>> PROVE Rest'
    <2>1. \A u \in Tasks : Still(u)
      BY <1>2 DEF IndInv, TaskInv, Still
    <2> QED
      BY <1>2, <2>1, SameRows, QuietStep
  <1> QED
    BY <1>1, <1>2 DEF Staff, GoAway, Disconnect, Patch, Reopen

\* The other tasks, when one moves and no row changes.
LEMMA OthersStill ==
  ASSUME IndInv, UNCHANGED esc, NEW t \in Tasks, NEW r, task' = [task EXCEPT ![t] = r],
         \/ lock' = Unlocked(t)
         \/ lock = NoTask /\ lock' = t
  PROVE  \A u \in Tasks : u # t => Still(u)
  <1>1. \A u \in Tasks : TaskInv(u) /\ u # NoTask
    BY NullAssumption DEF IndInv, Tasks
  <1>2. \A u \in Tasks : u # t => task'[u] = task[u]
    BY DEF IndInv, TypeOK
  <1> QED
    BY <1>1, <1>2 DEF TaskInv, Still, Unlocked

LEMMA QuietHandler ==
  ASSUME IndInv, NEW h \in Handlers, Handler(h), ~Route(h)
  PROVE  Rest'
  <1>0. /\ TypeOK
        /\ h \in Tasks
        /\ h # NoTask
        /\ task[h] \in TaskState
        /\ TaskInv(h)
    BY NullAssumption DEF IndInv, TypeOK, Tasks
  <1>1. ASSUME NEW c \in Conversations, NEW e \in Escalations, NEW holds \in BOOLEAN,
               BeginEscalate(h, c, e, holds)
        PROVE  Rest'
    <2>1. \A f \in Escalations :
            IF f = e
              THEN /\ esc[e].status = "none" /\ esc'[e].status = "opening"
                   /\ esc'[e].reason = "none" /\ esc'[e].conv = c
              ELSE esc'[f] = esc[f]
      <3>1. esc[e].status = "none"
        BY <1>1, EscalationsAssumption DEF BeginEscalate
      <3> QED
        BY <1>0, <1>1, <3>1 DEF BeginEscalate, TypeOK, NoRow
    <2>2. /\ task'[h].step = "escalate" /\ task'[h].esc = e /\ task'[h].rel = {}
          /\ \A u \in Tasks : u # h => task'[u] = task[u]
          /\ lock' = lock /\ lock # h /\ flagged' = flagged
      BY <1>0, <1>1 DEF BeginEscalate, TypeOK, Idle, TaskInv
    <2>3. \A f \in Escalations : Kept(f)
      BY <2>1 DEF IndInv, RowInv, Kept, Active, ReadStatuses, EarlyStatuses
    <2>4. QueuedIsFlagged'
      BY <2>1, <2>2 DEF IndInv, QueuedIsFlagged
    <2>5. ASSUME NEW u \in Tasks, u # h PROVE Still(u) /\ (Opens(u) => task[u].esc # e)
      <3>1. TaskInv(u) /\ task[u].rel \in SUBSET Escalations
        BY <1>0 DEF IndInv, TypeOK, TaskState
      <3> QED
        BY <2>1, <2>2, <2>5, <3>1 DEF Still, TaskInv, Active
    <2>6. Moved(h)
      <3>1. TaskInv(h)'
        BY <2>1, <2>2 DEF TaskInv, Opens
      <3>2. \A v \in Tasks : v # h /\ Opens(v)' => task'[v].esc # task'[h].esc
        BY <2>2, <2>5 DEF Opens
      <3> QED
        BY <3>1, <3>2 DEF Moved
    <2> QED
      BY <2>3, <2>4, <2>5, <2>6, QuietStep
  <1>2. ASSUME TakeLock(h) PROVE Rest'
    <2>1. /\ UNCHANGED <<esc, flagged>>
          /\ lock = NoTask /\ lock' = h
          /\ task' = [task EXCEPT ![h] = [task[h] EXCEPT !.step = "route"]]
      BY <1>2 DEF TakeLock
    <2>2. \A u \in Tasks : u # h => Still(u)
      BY <1>0, <2>1, OthersStill
    <2>3. /\ task'[h].step = "route" /\ task'[h].esc = task[h].esc
          /\ task'[h].rel = task[h].rel /\ task'[h].event = task[h].event
          /\ Opens(h)
      BY <1>0, <1>2, <2>1 DEF TypeOK, TaskState, TakeLock, Opens
    <2>4. TaskInv(h)'
      BY <1>0, <2>1, <2>3 DEF TaskInv, Opens
    <2>5. \A v \in Tasks : v # h /\ Opens(v)' => task'[v].esc # task'[h].esc
      BY <1>0, <2>2, <2>3 DEF IndInv, Still, Opens
    <2> QED
      BY <2>1, <2>2, <2>4, <2>5, SameRows, QuietStep DEF Moved
  <1>3. ASSUME RefuseDuplicate(h) PROVE Rest'
    <2>1. \A f \in Escalations :
            IF f = task[h].esc
              THEN /\ esc[f].status = "opening" /\ esc'[f].status = "refused"
                   /\ esc'[f].reason = esc[f].reason /\ esc'[f].conv = esc[f].conv
              ELSE esc'[f] = esc[f]
      BY <1>0, <1>3 DEF RefuseDuplicate, Refuse, TypeOK, Row, TaskInv, Opens
    <2>2. /\ task'[h] = Idle
          /\ \A u \in Tasks : u # h => task'[u] = task[u]
          /\ lock' = Unlocked(h) /\ flagged' = flagged
      BY <1>0, <1>3 DEF RefuseDuplicate, Refuse, TypeOK
    <2>3. \A f \in Escalations : Kept(f)
      BY <2>1 DEF IndInv, RowInv, Kept, Active, ReadStatuses, EarlyStatuses
    <2>4. QueuedIsFlagged'
      BY <2>1, <2>2 DEF IndInv, QueuedIsFlagged
    <2>5. ASSUME NEW u \in Tasks, u # h PROVE Still(u)
      <3>1. TaskInv(u) /\ task[u].rel \in SUBSET Escalations /\ u # NoTask
        BY <1>0, NullAssumption DEF IndInv, TypeOK, TaskState, Tasks
      <3>2. Opens(u) => task[u].esc # task[h].esc
        BY <1>0, <1>3, <2>5 DEF IndInv, RefuseDuplicate, Refuse, Opens
      <3> QED
        BY <2>1, <2>2, <2>5, <3>1, <3>2 DEF Still, TaskInv, Active, Unlocked
    <2>6. Moved(h)
      BY <1>0, <2>2 DEF Moved, TaskInv, Opens, Idle, Unlocked
    <2> QED
      BY <2>3, <2>4, <2>5, <2>6, QuietStep
  <1>4. ASSUME PickForMember(h) PROVE Rest'
    <2>1. UNCHANGED <<esc, flagged>> /\ lock = NoTask /\ task[h].step = "drain"
      BY <1>4 DEF PickForMember, PickFor
    <2>2. CASE Queue = {}
      <3>1. task' = [task EXCEPT ![h] = Idle] /\ lock' = Unlocked(h)
        BY <1>0, <1>4, <2>1, <2>2 DEF PickForMember, PickFor, Unlocked
      <3>2. Moved(h)
        BY <1>0, <2>1, <3>1 DEF TypeOK, Moved, TaskInv, Opens, Idle, Unlocked
      <3> QED
        BY <1>0, <2>1, <3>1, <3>2, SameRows, OthersStill, QuietStep
    <2>3. CASE Queue # {}
      <3>1. PICK e \in Queue : task' = [task EXCEPT ![h] =
                                          [task[h] EXCEPT !.step = "picked", !.esc = e]]
        BY <1>4, <2>3 DEF PickForMember, PickFor, Oldest
      <3>2. lock' = h
        BY <1>4, <2>3 DEF PickForMember, PickFor
      <3>3. /\ task'[h].step = "picked" /\ task'[h].esc = e
            /\ task'[h].member = task[h].member /\ task'[h].rel = task[h].rel
            /\ task'[h].event = task[h].event
        BY <1>0, <3>1 DEF TypeOK, TaskState
      <3>4. /\ e \in Escalations /\ esc'[e].status = "queued" /\ esc'[e].reason # "drain"
            /\ Alone(e)'
        BY <2>1 DEF Queue, IndInv, RowInv, OneActive, Alone, Active
      <3>5. Moved(h)
        BY <1>0, <2>1, <3>2, <3>3, <3>4 DEF Moved, TaskInv, Opens
      <3>6. \A u \in Tasks : u # h => Still(u)
        BY <1>0, <2>1, <3>1, <3>2, OthersStill
      <3> QED
        BY <2>1, <3>5, <3>6, SameRows, QuietStep
    <2> QED
      BY <2>2, <2>3
  <1>5. ASSUME NEW m \in Members, GoAvailable(h, m) \/ Connect(h, m) PROVE Rest'
    <2>1. UNCHANGED <<esc, flagged>> /\ task[h] = Idle /\ lock' = Unlocked(h) /\ lock # h
      BY <1>0, <1>5 DEF GoAvailable, Connect, TaskInv, Idle, Unlocked
    <2>2. \/ task' = [task EXCEPT ![h] = [Idle EXCEPT !.step = "drain", !.member = m]]
          \/ task' = [task EXCEPT ![h] = Idle]
      <3>1. task = [task EXCEPT ![h] = task[h]]
        BY <1>0 DEF TypeOK
      <3> QED
        BY <1>5, <2>1, <3>1 DEF GoAvailable, Connect
    <2>3. /\ task'[h].rel = {}
          /\ lock' # h
          /\ \/ (task'[h].step = "drain" /\ task'[h].member = m)
             \/ task'[h].step = "idle"
      <3>1. lock' # h
        BY <1>0, <2>1 DEF Unlocked
      <3>2. \/ task'[h] = [Idle EXCEPT !.step = "drain", !.member = m]
            \/ task'[h] = Idle
        BY <1>0, <2>2 DEF TypeOK
      <3>3. Idle.rel = {} /\ Idle.step = "idle"
        BY DEF Idle
      <3>4. LET r == [Idle EXCEPT !.step = "drain", !.member = m]
            IN  r.rel = {} /\ r.step = "drain" /\ r.member = m
        BY DEF Idle
      <3> QED
        BY <3>1, <3>2, <3>3, <3>4
    <2>4. Moved(h)
      BY <2>3 DEF Moved, TaskInv, Opens
    <2> QED
      BY <1>0, <2>1, <2>2, <2>4, SameRows, OthersStill, QuietStep
  <1> QED
    BY <1>1, <1>2, <1>3, <1>4, <1>5 DEF Handler, Opening

\* Rows that become assigned by relabelling, the flags untouched.
LEMMA RelabelQuiet ==
  ASSUME IndInv, UNCHANGED flagged,
         \A e \in Escalations :
           /\ esc'[e].conv = esc[e].conv
           /\ \/ esc'[e] = esc[e]
              \/ /\ esc[e].status \in Active
                 /\ esc'[e].status = "assigned"
                 /\ esc'[e].reason = "manual"
  PROVE  /\ QueuedIsFlagged'
         /\ \A e \in Escalations : Kept(e)
         /\ \A u \in Tasks : task'[u] = task[u] /\ (lock' = u <=> lock = u) => Still(u)
  <1>1. \A e \in Escalations : Kept(e)
    BY DEF IndInv, RowInv, Kept, Active, ReadStatuses, EarlyStatuses
  <1>2. QueuedIsFlagged'
    BY DEF IndInv, QueuedIsFlagged
  <1>3. ASSUME NEW u \in Tasks, task'[u] = task[u], lock' = u <=> lock = u PROVE Still(u)
    <2>1. TaskInv(u) /\ task[u].rel \in SUBSET Escalations
      BY DEF IndInv, TypeOK, TaskState
    <2> QED
      BY <1>3, <2>1 DEF Still, TaskInv, Active
  <1> QED
    BY <1>1, <1>2, <1>3

LEMMA QuietWorker ==
  ASSUME IndInv, NEW w \in Workers, ClaimEvent(w) \/ Handling(w)
  PROVE  Rest'
  <1>0. /\ TypeOK
        /\ w \in Tasks
        /\ w # NoTask
        /\ task[w] \in TaskState
        /\ TaskInv(w)
    BY NullAssumption DEF IndInv, TypeOK, Tasks
  <1>a. task[w].step \notin {"route", "picked"} => lock # w /\ lock = Unlocked(w)
    BY <1>0 DEF TaskInv, Unlocked
  <1>b. Idle.step = "idle" /\ Idle.rel = {}
    BY DEF Idle
  <1>1. ASSUME ClaimEvent(w) PROVE Rest'
    <2>1. PICK ev \in outbox :
            task' = [task EXCEPT ![w] = [Idle EXCEPT !.step = "handle", !.event = ev]]
      BY <1>1 DEF ClaimEvent
    <2>2. UNCHANGED <<esc, flagged, lock>> /\ task[w] = Idle
      BY <1>1 DEF ClaimEvent
    <2>3. task'[w].step = "handle" /\ task'[w].event = ev /\ task'[w].rel = {}
      BY <1>0, <2>1 DEF TypeOK, Idle
    <2>4. lock # w /\ lock' = Unlocked(w)
      BY <1>a, <1>b, <2>2
    <2>5. Moved(w)
      BY <1>0, <2>2, <2>3, <2>4 DEF Moved, TaskInv, Opens, TypeOK
    <2> QED
      BY <1>0, <2>1, <2>2, <2>4, <2>5, SameRows, OthersStill, QuietStep
  <1>2. ASSUME CloseActive(w) PROVE Rest'
    <2> DEFINE rows == ActiveOf(task[w].event.conv)
    <2>1. \A e \in Escalations :
            IF e \in rows
              THEN /\ esc[e].status \in Active /\ esc'[e].status = "closed"
                   /\ esc'[e].reason = esc[e].reason /\ esc'[e].conv = esc[e].conv
              ELSE esc'[e] = esc[e]
      BY <1>0, <1>2 DEF CloseActive, CloseRows, ActiveOf, TypeOK, Row
    <2>2. /\ task' = [task EXCEPT ![w] = [task[w] EXCEPT !.step = "delete"]]
          /\ lock' = lock /\ lock # w
          /\ \A e \in rows : \A u \in Tasks : e \notin task[u].rel
          /\ flagged' = IF rows # {} THEN flagged \ {task[w].event.conv} ELSE flagged
      BY <1>a, <1>2 DEF CloseActive, CloseRows, LockedEsc, HeldEsc
    <2>3. \A f \in Escalations : Kept(f)
      BY <2>1 DEF IndInv, RowInv, Kept, Active, ReadStatuses, EarlyStatuses
    <2>4. QueuedIsFlagged'
      <3>1. ASSUME NEW e \in Escalations, esc'[e].status = "queued"
            PROVE  esc'[e].conv = esc[e].conv /\ esc[e].conv \in flagged
                   /\ esc[e].conv # task[w].event.conv
        BY <2>1, <3>1 DEF IndInv, QueuedIsFlagged, ActiveOf, Active
      <3> QED
        BY <2>2, <3>1 DEF QueuedIsFlagged
    <2>5. ASSUME NEW u \in Tasks
          PROVE  /\ Opens(u) => esc'[task[u].esc].status = "opening"
                 /\ \A e \in task[u].rel : esc'[e].status \in Active
      <3>1. TaskInv(u) /\ task[u].rel \in SUBSET Escalations
        BY <1>0 DEF IndInv, TypeOK, TaskState
      <3> QED
        BY <2>1, <2>2, <3>1 DEF TaskInv, Active
    <2>6. \A u \in Tasks : u # w => Still(u)
      BY <1>0, <2>2, <2>5 DEF Still, TypeOK
    <2>7. /\ task'[w].step = "delete" /\ task'[w].rel = task[w].rel
          /\ task'[w].event = task[w].event
      BY <1>0, <2>2 DEF TypeOK, TaskState
    <2>8. Moved(w)
      BY <1>0, <2>2, <2>5, <2>7 DEF Moved, TaskInv, Opens
    <2> QED
      BY <2>3, <2>4, <2>6, <2>8, QuietStep
  <1>3. ASSUME Relabel(w) PROVE Rest'
    <2> DEFINE ev == task[w].event
               rows == {e \in ActiveOf(ev.conv) :
                          \/ esc[e].status = "queued" /\ ev.new # NoOne
                          \/ esc[e].status = "assigned" /\ esc[e].reason # "manual"}
    <2>1. \A e \in rows : e \in Escalations /\ esc[e].status \in Active
      BY DEF ActiveOf
    <2>2. UNCHANGED <<flagged, lock>> /\ lock # w /\ ev \in Events
      BY <1>0, <1>a, <1>3 DEF Relabel, TaskInv
    <2>3. CASE /\ task' = [task EXCEPT ![w] = [task[w] EXCEPT !.step = "drain any",
                                                 !.rel = rows, !.seen = present]]
               /\ esc' = esc
      <3>1. task'[w].step = "drain any" /\ task'[w].rel = rows /\ task'[w].event = ev
        BY <1>0, <2>3 DEF TypeOK, TaskState
      <3>2. Moved(w)
        BY <1>0, <2>1, <2>2, <2>3, <3>1 DEF Moved, TaskInv, Opens
      <3>3. \A u \in Tasks : u # w => Still(u)
        BY <1>0, <1>a, <2>2, <2>3, OthersStill DEF Unlocked
      <3> QED
        BY <2>2, <2>3, <3>2, <3>3, SameRows, QuietStep
    <2>4. CASE /\ task' = [task EXCEPT ![w] = [task[w] EXCEPT !.step = "delete"]]
               /\ esc' = Relabelled(rows, ev.new)
      <3>1. /\ task'[w].step = "delete" /\ task'[w].rel = task[w].rel
            /\ task'[w].event = ev
            /\ \A u \in Tasks : u # w => task'[u] = task[u]
        BY <1>0, <2>4 DEF TypeOK, TaskState
      <3>2. rows \in SUBSET Escalations
        BY <2>1
      <3>3. \A e \in Escalations :
              /\ esc'[e].conv = esc[e].conv
              /\ \/ esc'[e] = esc[e]
                 \/ /\ esc[e].status \in Active
                    /\ esc'[e].status = "assigned"
                    /\ esc'[e].reason = "manual"
        <4> HIDE DEF rows
        <4> QED
          BY <1>0, <2>1, <2>4, <3>2, RelabelledRow
      <3>4. /\ QueuedIsFlagged'
            /\ \A e \in Escalations : Kept(e)
            /\ \A u \in Tasks : task'[u] = task[u] /\ (lock' = u <=> lock = u) => Still(u)
        BY <2>2, <3>3, RelabelQuiet
      <3>5. \A e \in task[w].rel : esc'[e].status \in Active
        BY <1>0, <3>3 DEF TaskInv, TaskState, Active
      <3>6. Moved(w)
        BY <1>0, <2>2, <3>1, <3>5 DEF Moved, TaskInv, Opens
      <3> QED
        BY <2>2, <3>1, <3>4, <3>6, QuietStep
    <2> QED
      BY <1>3, <2>3, <2>4 DEF Relabel
  <1>4. ASSUME PickAny(w) PROVE Rest'
    <2>1. task[w].step = "drain any" /\ lock = NoTask /\ flagged' = flagged
      BY <1>4 DEF PickAny
    <2>2. CASE /\ esc' = Pending(w) /\ UNCHANGED lock
               /\ task' = [task EXCEPT ![w] = [task[w] EXCEPT !.step = "delete", !.rel = {}]]
      <3>1. /\ task'[w].step = "delete" /\ task'[w].rel = {}
            /\ \A u \in Tasks : u # w => task'[u] = task[u]
        BY <1>0, <2>2 DEF TypeOK, TaskState
      <3>2. /\ QueuedIsFlagged'
            /\ \A e \in Escalations : Kept(e)
            /\ \A u \in Tasks : task'[u] = task[u] /\ (lock' = u <=> lock = u) => Still(u)
        BY <1>0, <2>1, <2>2, PendingRow, RelabelQuiet
      <3>3. Moved(w)
        BY <1>0, <2>1, <2>2, <3>1 DEF Moved, TaskInv, Opens
      <3> QED
        BY <2>2, <3>1, <3>2, <3>3, QuietStep
    <2>3. CASE \E e \in Queue, m \in Members :
                 /\ task' = [task EXCEPT ![w] = [task[w] EXCEPT !.step = "picked",
                                                   !.esc = e, !.member = m]]
                 /\ lock' = w
                 /\ UNCHANGED esc
      <3>1. PICK e \in Queue, m \in Members :
              /\ task' = [task EXCEPT ![w] = [task[w] EXCEPT !.step = "picked",
                                                !.esc = e, !.member = m]]
              /\ lock' = w
              /\ UNCHANGED esc
        BY <2>3
      <3>2. /\ task'[w].step = "picked" /\ task'[w].esc = e /\ task'[w].member = m
            /\ task'[w].rel = task[w].rel /\ task'[w].event = task[w].event
        BY <1>0, <3>1 DEF TypeOK, TaskState
      <3>3. /\ e \in Escalations /\ esc'[e].status = "queued" /\ esc'[e].reason # "drain"
            /\ Alone(e)'
        BY <3>1 DEF Queue, IndInv, RowInv, OneActive, Alone, Active
      <3>4. Moved(w)
        BY <1>0, <3>1, <3>2, <3>3 DEF Moved, TaskInv, Opens
      <3>5. \A u \in Tasks : u # w => Still(u)
        BY <1>0, <2>1, <3>1, OthersStill
      <3> QED
        BY <2>1, <3>1, <3>4, <3>5, SameRows, QuietStep
    <2> QED
      BY <1>4, <2>2, <2>3 DEF PickAny, Oldest
  <1>5. ASSUME DeleteEvent(w) PROVE Rest'
    <2>1. /\ UNCHANGED <<esc, flagged, lock>>
          /\ task' = [task EXCEPT ![w] = Idle]
          /\ lock # w /\ lock' = Unlocked(w)
      BY <1>a, <1>5 DEF DeleteEvent
    <2>2. Moved(w)
      BY <1>0, <1>b, <2>1 DEF TypeOK, Moved, TaskInv, Opens
    <2> QED
      BY <1>0, <2>1, <2>2, SameRows, OthersStill, QuietStep
  <1> QED
    BY <1>1, <1>2, <1>3, <1>4, <1>5 DEF Handling

LEMMA QuietRollBack ==
  ASSUME IndInv, NEW t \in Tasks, NEW b \in BOOLEAN, RollBack(t, b)
  PROVE  Rest'
  <1>0. /\ TypeOK
        /\ t # NoTask
        /\ TaskInv(t)
    BY NullAssumption DEF IndInv, TypeOK, Tasks
  <1>1. \A f \in Escalations :
          IF Opens(t) /\ f = task[t].esc
            THEN /\ esc[f].status = "opening" /\ esc'[f].status = "refused"
                 /\ esc'[f].reason = esc[f].reason /\ esc'[f].conv = esc[f].conv
            ELSE esc'[f] = esc[f]
    BY <1>0 DEF RollBack, TypeOK, Row, TaskInv
  <1>2. /\ task'[t] = Idle
        /\ \A u \in Tasks : u # t => task'[u] = task[u]
        /\ lock' = Unlocked(t) /\ flagged' = flagged
    BY <1>0 DEF RollBack, TypeOK
  <1>3. \A f \in Escalations : Kept(f)
    BY <1>1 DEF IndInv, RowInv, Kept, Active, ReadStatuses, EarlyStatuses
  <1>4. QueuedIsFlagged'
    BY <1>1, <1>2 DEF IndInv, QueuedIsFlagged
  <1>5. ASSUME NEW u \in Tasks, u # t PROVE Still(u)
    <2>1. TaskInv(u) /\ task[u].rel \in SUBSET Escalations /\ u # NoTask
      BY <1>0, NullAssumption DEF IndInv, TypeOK, TaskState, Tasks
    <2>2. Opens(u) /\ Opens(t) => task[u].esc # task[t].esc
      BY <1>5 DEF IndInv
    <2> QED
      BY <1>1, <1>2, <1>5, <2>1, <2>2 DEF Still, TaskInv, Active, Unlocked
  <1>6. Moved(t)
    BY <1>0, <1>2 DEF Moved, TaskInv, Opens, Idle, Unlocked
  <1> QED
    BY <1>3, <1>4, <1>5, <1>6, QuietStep

-----------------------------------------------------------------------------
(* Routing and draining, the steps that make an escalation active.         *)

\* The holder of the lock ends its transaction. No other task decides, so each
\* keeps its invariant if its own rows are left to it.
LEMMA HolderEnds ==
  ASSUME IndInv, NEW t \in Tasks, lock = t, lock' = Unlocked(t),
         NEW r, task' = [task EXCEPT ![t] = r],
         r.step \in {"idle", "delete"}, r.rel = {},
         \A u \in Tasks : u # t =>
           /\ Opens(u) => esc'[task[u].esc].status = "opening"
           /\ \A e \in task[u].rel : esc'[e].status \in Active
  PROVE  /\ \A u \in Tasks : TaskInv(u)'
         /\ \A u, v \in Tasks : u # v /\ Opens(u)' /\ Opens(v)'
              => task'[u].esc # task'[v].esc
  <1>1. /\ task'[t] = r
        /\ \A u \in Tasks : u # t => task'[u] = task[u] /\ TaskInv(u)
    BY DEF IndInv, TypeOK
  <1>2. lock' = NoTask /\ \A u \in Tasks : u # NoTask
    BY NullAssumption DEF Unlocked, Tasks
  <1>3. TaskInv(t)' /\ ~Opens(t)'
    BY <1>1, <1>2 DEF TaskInv, Opens
  <1>4. ASSUME NEW u \in Tasks, u # t PROVE TaskInv(u)' /\ (Opens(u)' => Opens(u))
    <2>1. Still(u) /\ task[u].step # "picked"
      BY <1>1, <1>2, <1>4 DEF Still, TaskInv
    <2> QED
      BY <1>1, <1>4, <2>1, Bystander DEF Opens
  <1>5. ASSUME NEW u \in Tasks, NEW v \in Tasks, u # v, Opens(u)', Opens(v)'
        PROVE  task'[u].esc # task'[v].esc
    BY <1>1, <1>3, <1>4, <1>5 DEF IndInv
  <1> QED
    BY <1>3, <1>4, <1>5

LEMMA RouteStep ==
  ASSUME IndInv, NEW h \in Handlers, Route(h)
  PROVE  Rest'
  <1>0. /\ TypeOK
        /\ h \in Tasks
        /\ TaskInv(h)
        /\ lock = h
    BY DEF IndInv, TypeOK, Tasks, TaskInv, Route, RouteNew
  <1>1. PICK e \in Escalations : e = task[h].esc /\ esc[e].status = "opening"
    BY <1>0 DEF Route, RouteNew, TaskInv, Opens
  <1>2. /\ esc'[e].status \in Active
        /\ esc'[e].conv = esc[e].conv /\ esc[e].conv \in Conversations
        /\ \A f \in Escalations : f # e => esc'[f] = esc[f]
        /\ esc'[e].reason # "drain"
    <2>1. esc[e].conv \in Conversations /\ esc[e].reason # "drain" /\ esc[e] \in Row
      BY <1>0, <1>1 DEF IndInv, RowInv, TypeOK
    <2>2. CASE esc' = [esc EXCEPT ![e] = [esc[e] EXCEPT !.status = "queued"]]
      BY <1>0, <2>1, <2>2 DEF TypeOK, Row, Active
    <2>3. CASE \E m : esc' = [esc EXCEPT ![e] = [esc[e] EXCEPT !.status = "assigned",
                                                   !.owner = m, !.reason = "routed"]]
      BY <1>0, <2>1, <2>3 DEF TypeOK, Row, Active
    <2> QED
      BY <1>1, <2>2, <2>3 DEF Route, RouteNew
  <1>3. /\ \A f \in Escalations : esc[f].conv = esc[e].conv => esc[f].status \notin Active
        /\ flagged' = flagged \cup {esc[e].conv}
    BY <1>1 DEF Route, RouteNew, ActiveOf
  <1>4. OneActive'
    BY <1>2, <1>3 DEF IndInv, OneActive
  <1>5. QueuedIsFlagged'
    BY <1>2, <1>3 DEF IndInv, QueuedIsFlagged
  <1>6. \A f \in Escalations : RowInv(f)'
    BY <1>2 DEF IndInv, RowInv
  <1>7. ASSUME NEW u \in Tasks, u # h
        PROVE  /\ Opens(u) => esc'[task[u].esc].status = "opening"
               /\ \A f \in task[u].rel : esc'[f].status \in Active
    <2>1. TaskInv(u) /\ task[u].rel \in SUBSET Escalations
      BY <1>0 DEF IndInv, TypeOK, TaskState
    <2>2. Opens(u) => task[u].esc # e
      BY <1>0, <1>1, <1>7 DEF IndInv, Route, RouteNew, Opens
    <2> QED
      BY <1>1, <1>2, <2>1, <2>2 DEF TaskInv
  <1>8. /\ \A u \in Tasks : TaskInv(u)'
        /\ \A u, v \in Tasks : u # v /\ Opens(u)' /\ Opens(v)'
             => task'[u].esc # task'[v].esc
    <2>1. task' = [task EXCEPT ![h] = Idle] /\ lock' = Unlocked(h)
      BY DEF Route, RouteNew
    <2>2. Idle.step = "idle" /\ Idle.rel = {}
      BY DEF Idle
    <2> QED
      BY <1>0, <1>7, <2>1, <2>2, HolderEnds
  <1> QED
    BY <1>4, <1>5, <1>6, <1>8 DEF Rest

\* What a drain commits: the escalation that was read, whatever became of it,
\* and a relabelling of active rows.
LEMMA DrainEffect ==
  ASSUME IndInv, NEW t \in Tasks, CommitDrain(t)
  PROVE  \E e \in Escalations :
           /\ e = task[t].esc
           /\ Alone(e)
           /\ esc[e].reason # "drain"
           /\ esc[e].status \in ReadStatuses
           /\ esc'[e].status = "assigned" /\ esc'[e].conv = esc[e].conv
           /\ \A f \in Escalations : f # e =>
                /\ esc'[f].conv = esc[f].conv
                /\ \/ esc'[f] = esc[f]
                   \/ /\ esc[f].status \in Active
                      /\ esc'[f].status = "assigned"
                      /\ esc'[f].reason = "manual"
  <1>1. TaskInv(t)
    BY DEF IndInv
  <1>2. PICK e \in Escalations : e = task[t].esc
    BY <1>1 DEF CommitDrain, TaskInv
  <1> DEFINE P == Pending(t)
  <1>3. P \in [Escalations -> Row] /\ P[e].conv = esc[e].conv
    BY PendingTyped, PendingRow
  <1>4. esc' = [P EXCEPT ![e] = [P[e] EXCEPT !.status = "assigned",
                                               !.owner = task[t].member, !.reason = "drain"]]
    BY <1>2 DEF CommitDrain
  <1>5. /\ esc'[e].status = "assigned" /\ esc'[e].conv = esc[e].conv
        /\ \A f \in Escalations : f # e => esc'[f] = P[f]
    <2> HIDE DEF P
    <2> QED
      BY <1>3, <1>4 DEF Row
  <1>6. \A f \in Escalations :
          /\ P[f].conv = esc[f].conv
          /\ \/ P[f] = esc[f]
             \/ /\ esc[f].status \in Active
                /\ P[f].status = "assigned"
                /\ P[f].reason = "manual"
    BY PendingRow
  <1>7. Alone(e) /\ esc[e].reason # "drain" /\ esc[e].status \in ReadStatuses
    BY <1>1, <1>2 DEF CommitDrain, TaskInv, ReadStatuses
  <1> QED
    BY <1>2, <1>5, <1>6, <1>7

LEMMA DrainStep ==
  ASSUME IndInv, NEW t \in Tasks, CommitDrain(t)
  PROVE  Rest'
  <1>0. /\ TypeOK
        /\ TaskInv(t)
        /\ lock = t
        /\ task[t] \in TaskState
    BY DEF IndInv, TypeOK, TaskInv, CommitDrain
  <1>1. PICK e \in Escalations :
          /\ e = task[t].esc
          /\ Alone(e)
          /\ esc[e].status \in ReadStatuses
          /\ esc'[e].status = "assigned" /\ esc'[e].conv = esc[e].conv
          /\ \A f \in Escalations : f # e =>
               /\ esc'[f].conv = esc[f].conv
               /\ \/ esc'[f] = esc[f]
                  \/ /\ esc[f].status \in Active
                     /\ esc'[f].status = "assigned"
                     /\ esc'[f].reason = "manual"
    BY DrainEffect
  <1>2. flagged \subseteq flagged'
    BY DEF CommitDrain
  <1>3. OneActive'
    BY <1>1 DEF IndInv, OneActive, Alone, Active
  <1>4. QueuedIsFlagged'
    BY <1>1, <1>2 DEF IndInv, QueuedIsFlagged
  <1>5. \A f \in Escalations : RowInv(f)'
    BY <1>1 DEF IndInv, RowInv, ReadStatuses, Active
  <1>6. ASSUME NEW u \in Tasks
        PROVE  /\ Opens(u) => esc'[task[u].esc].status = "opening"
               /\ \A f \in task[u].rel : esc'[f].status \in Active
    <2>1. TaskInv(u) /\ task[u].rel \in SUBSET Escalations
      BY <1>0 DEF IndInv, TypeOK, TaskState
    <2> QED
      BY <1>1, <2>1 DEF TaskInv, ReadStatuses, Active
  <1>7. PICK r : /\ task' = [task EXCEPT ![t] = r]
                 /\ r.step \in {"idle", "delete"} /\ r.rel = {}
    <2>1. Idle.step = "idle" /\ Idle.rel = {}
      BY DEF Idle
    <2>2. LET r == [task[t] EXCEPT !.step = "delete", !.rel = {}]
          IN  r.step = "delete" /\ r.rel = {}
      BY <1>0 DEF TaskState
    <2> QED
      BY <2>1, <2>2 DEF CommitDrain
  <1>8. lock' = Unlocked(t)
    BY DEF CommitDrain
  <1>9. /\ \A u \in Tasks : TaskInv(u)'
        /\ \A u, v \in Tasks : u # v /\ Opens(u)' /\ Opens(v)'
             => task'[u].esc # task'[v].esc
    BY <1>0, <1>6, <1>7, <1>8, HolderEnds
  <1> QED
    BY <1>3, <1>4, <1>5, <1>9 DEF Rest

-----------------------------------------------------------------------------
(* The inductive invariant and what follows from it.                       *)

LEMMA IndStep == IndInv /\ [Next]_vars => IndInv'
  <1> SUFFICES ASSUME IndInv, [Next]_vars PROVE IndInv'
    OBVIOUS
  <1>1. TypeOK'
    BY TypeStep
  <1>2. Rest'
    <2>1. CASE UNCHANGED vars
      <3>1. \A u \in Tasks : Still(u)
        BY <2>1 DEF vars, IndInv, TaskInv, Still
      <3> QED
        BY <2>1, <3>1, SameRows, QuietStep DEF vars
    <2>2. ASSUME NEW h \in Handlers, Handler(h) PROVE Rest'
      BY <2>2, QuietHandler, RouteStep
    <2>3. ASSUME NEW w \in Workers, ClaimEvent(w) \/ Handling(w) PROVE Rest'
      BY <2>3, QuietWorker
    <2>4. CASE Staff
      BY <2>4, QuietStaff
    <2>5. ASSUME NEW t \in Tasks, CommitDrain(t) PROVE Rest'
      BY <2>5, DrainStep
    <2>6. ASSUME NEW t \in Tasks, Crash(t) PROVE Rest'
      BY <2>6, QuietRollBack DEF Crash
    <2>7. ASSUME NEW t \in Tasks, NEW u \in Tasks, BreakDeadlock(t, u) PROVE Rest'
      BY <2>7, QuietRollBack DEF BreakDeadlock
    <2> QED
      BY <2>1, <2>2, <2>3, <2>4, <2>5, <2>6, <2>7 DEF Next
  <1> QED
    BY <1>1, <1>2 DEF IndInv, Rest

\* IndInv holds in every state that the hand-off of conversations reaches.
THEOREM Invariance == Spec => []IndInv
  <1>1. IndInv /\ [Next]_vars => IndInv'
    BY IndStep
  <1> QED
    BY InitIndInv, <1>1, PTL DEF Spec

\* Every variable keeps its type, and only a task that decides holds the lock.
THEOREM TypeCorrect == Spec => []TypeOK
  BY Invariance, PTL DEF IndInv

\* Routing, draining, claiming, closing and relabelling never leave two active
\* escalations of a conversation, though drains update a row they read before.
THEOREM NeverTwoActive == Spec => []OneActive
  BY Invariance, PTL DEF IndInv

\* A queued escalation's conversation is always in the escalated inbox.
THEOREM InboxComplete == Spec => []QueuedIsFlagged
  BY Invariance, PTL DEF IndInv

\* A step that leaves the escalation e drained leaves it where it was drained to.
LEMMA DrainedStays ==
  ASSUME IndInv, [Next]_vars, NEW e \in Escalations,
         esc[e].reason = "drain", esc'[e].reason = "drain"
  PROVE  esc'[e].owner = esc[e].owner
  <1>0. TypeOK /\ esc[e] \in Row
    BY DEF IndInv, TypeOK
  <1>1. CASE UNCHANGED esc
    BY <1>1
  <1>2. ASSUME NEW h \in Handlers, Handler(h) PROVE esc'[e].owner = esc[e].owner
    <2>0. h \in Tasks
      BY DEF Tasks
    <2>1. ASSUME NEW c \in Conversations, NEW f \in Escalations, NEW holds \in BOOLEAN,
                 BeginEscalate(h, c, f, holds)
          PROVE  esc'[e].owner = esc[e].owner
      BY <1>0, <2>1 DEF BeginEscalate, NoRow, TypeOK
    <2>2. CASE RefuseDuplicate(h)
      BY <1>0, <2>2 DEF RefuseDuplicate, Refuse, TypeOK, Row
    <2>3. CASE Route(h)
      <3>1. PICK f \in Escalations : f = task[h].esc /\ esc[f].status = "opening"
        BY <2>0, <2>3 DEF IndInv, Route, RouteNew, TaskInv, Opens
      <3>2. esc[f].reason # "drain"
        BY <3>1 DEF IndInv, RowInv
      <3>3. esc'[e] = esc[e]
        BY <1>0, <2>3, <3>1, <3>2 DEF Route, RouteNew, TypeOK
      <3> QED
        BY <3>3
    <2>4. CASE UNCHANGED esc
      BY <2>4
    <2> QED
      BY <1>2, <2>1, <2>2, <2>3, <2>4
      DEF Handler, Opening, TakeLock, PickForMember, PickFor, GoAvailable, Connect
  <1>3. ASSUME NEW w \in Workers, ClaimEvent(w) \/ Handling(w)
        PROVE  esc'[e].owner = esc[e].owner
    <2>0. w \in Tasks
      BY DEF Tasks
    <2>1. CASE CloseActive(w)
      BY <1>0, <2>1 DEF CloseActive, CloseRows, Row
    <2>2. CASE Relabel(w) /\ ~UNCHANGED esc
      <3>1. PICK rows \in SUBSET Escalations : esc' = Relabelled(rows, task[w].event.new)
        <4> DEFINE ev == task[w].event
                   rows == {f \in ActiveOf(ev.conv) :
                              \/ esc[f].status = "queued" /\ ev.new # NoOne
                              \/ esc[f].status = "assigned" /\ esc[f].reason # "manual"}
        <4>1. rows \in SUBSET Escalations
          BY DEF ActiveOf
        <4> QED
          BY <2>2, <4>1 DEF Relabel
      <3> QED
        BY <1>0, <3>1, RelabelledRow
    <2>3. CASE PickAny(w) /\ ~UNCHANGED esc
      <3>1. esc' = Pending(w)
        BY <2>3 DEF PickAny
      <3> QED
        BY <2>0, <3>1, PendingRow
    <2>4. CASE UNCHANGED esc
      BY <2>4
    <2> QED
      BY <1>3, <2>1, <2>2, <2>3, <2>4 DEF Handling, ClaimEvent, DeleteEvent
  <1>4. ASSUME NEW m \in Members, NEW f \in Escalations, Claim(m, f)
        PROVE  esc'[e].owner = esc[e].owner
    BY <1>0, <1>4 DEF Claim, TypeOK, Row
  <1>5. ASSUME NEW t \in Tasks, CommitDrain(t) PROVE esc'[e].owner = esc[e].owner
    BY <1>5, DrainEffect
  <1>6. ASSUME NEW t \in Tasks, NEW b \in BOOLEAN, RollBack(t, b)
        PROVE  esc'[e].owner = esc[e].owner
    BY <1>0, <1>6 DEF RollBack, Row
  <1> QED
    BY <1>1, <1>2, <1>3, <1>4, <1>5, <1>6
    DEF Next, vars, Staff, GoAway, Disconnect, Patch, Reopen, Crash, BreakDeadlock

\* FR-011 for any number of requests and servers: what one drain handed out, no
\* other drain hands to someone else.
THEOREM DrainsOnce == Spec => DrainedOnce
  <1>1. IndInv /\ [Next]_vars =>
          [\A e \in Escalations :
             esc[e].reason = "drain" /\ esc'[e].reason = "drain"
               => esc'[e].owner = esc[e].owner]_vars
    BY DrainedStays
  <1> QED
    BY Invariance, <1>1, PTL DEF Spec, DrainedOnce

=============================================================================
