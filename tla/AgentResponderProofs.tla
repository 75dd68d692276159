------------------------ MODULE AgentResponderProofs ------------------------
(***************************************************************************)
(* Proofs about AgentResponder, for every number of messages, responders,  *)
(* changes by staff and tasks that die: IndInv is inductive and the safety *)
(* properties follow.                                                      *)
(*                                                                         *)
(* What coalescing relies on is that a message is claimed once: only the   *)
(* responder that claimed m deletes rows in m's favour, it does so before  *)
(* it reads the history, and nobody else answers m.                        *)
(***************************************************************************)
EXTENDS AgentResponder, FiniteSetTheorems, TLAPS

-----------------------------------------------------------------------------
(* The inductive invariant.                                                *)

\* A responder between the claim of a message and the end of its work on it.
OnMessage(w) ==
  task[w].step \in {"coalesce", "config", "unconfigured", "gate", "escalation", "rules",
                    "assemble", "generate", "newer", "recheck", "post", "hold", "fallback",
                    "ack"}

\* One that has read the history to answer from it.
HasRead(w) == task[w].step \in {"generate", "newer", "recheck", "post"}

\* read holds m and everything that was passed over in m's favour, as far as the
\* history reaches.
Covers(read, m) ==
  \A n \in Messages : n = m \/ coalesced[n] = m => n \in read \/ BeyondHistory(n)

\* Nobody else works on the message, and nobody has answered it.
Claimed(w) ==
  /\ task[w].msg \notin queue
  /\ \A v \in Workers : OnMessage(v) /\ task[v].msg = task[w].msg => v = w
  /\ \A r \in Answers : r.to # task[w].msg

TaskInv(w) ==
  /\ task[w].step # "idle" => task[w].msg \in visible
  /\ OnMessage(w) => Claimed(w)
  /\ task[w].late \/ task[w].result = "superseded" => HasNewer(task[w].msg)
  /\ HasRead(w) => Covers(task[w].read, task[w].msg)

AnswerInv(r) ==
  /\ r.to \in visible \ queue
  /\ Covers(r.read, r.to)

\* Only rows of messages that were committed are passed over.
PassedOverSeen == \A n \in Messages : coalesced[n] # NoMsg => n \in visible

\* The second half of PassedOverRightly.
GivenUpRightly ==
  \A m \in Messages :
    record[m] = "superseded" => HasNewer(m) \/ HasReplySince(m)

IndInv ==
  /\ TypeOK
  /\ IsFiniteSet(replies)
  /\ \A w \in Workers : TaskInv(w)
  /\ \A r \in Answers : AnswerInv(r)
  /\ OneAnswerEach
  /\ PassedOverSeen
  /\ GivenUpRightly

-----------------------------------------------------------------------------
(* Lemmas.                                                                 *)

\* HasNewer and HasReplySince, once true, stay true.
LEMMA NewerStays ==
  ASSUME NEW m, visible \subseteq visible', replies \subseteq replies'
  PROVE  /\ HasNewer(m) => HasNewer(m)'
         /\ HasReplySince(m) => HasReplySince(m)'
BY DEF HasNewer, HasReplySince

LEMMA VisibleFinite ==
  ASSUME TypeOK
  PROVE  IsFiniteSet(visible) /\ Cardinality(visible) \in Nat
BY MessagesAssumption, FS_Subset, FS_CardinalityType DEF TypeOK

LEMMA RankTyped ==
  ASSUME TypeOK, IsFiniteSet(replies), NEW m
  PROVE  Rank(m) \in Nat
  <1> DEFINE V == {n \in visible : n <= m}
             R == {r \in replies : m \notin r.after}
  <1>1. Cardinality(V) \in Nat
    BY VisibleFinite, FS_Subset, FS_CardinalityType, V \subseteq visible
  <1>2. Cardinality(R) \in Nat
    BY FS_Subset, FS_CardinalityType, R \subseteq replies
  <1> QED
    BY <1>1, <1>2 DEF Rank

\* A message that the history does not reach is never reached again.
LEMMA BeyondStays ==
  ASSUME TypeOK, IsFiniteSet(replies), IsFiniteSet(visible'), IsFiniteSet(replies'),
         visible \subseteq visible', replies \subseteq replies', NEW m, BeyondHistory(m)
  PROVE  BeyondHistory(m)'
  <1> DEFINE V == {n \in visible : n <= m}
             R == {r \in replies : m \notin r.after}
  <1>1. /\ Cardinality(V) \in Nat /\ Cardinality(V') \in Nat
        /\ Cardinality(V) <= Cardinality(V')
    <2>1. IsFiniteSet(V')
      BY FS_Subset, V' \subseteq visible'
    <2>2. V \subseteq V'
      OBVIOUS
    <2> HIDE DEF V
    <2>3. IsFiniteSet(V) /\ Cardinality(V) <= Cardinality(V')
      BY <2>1, <2>2, FS_Subset
    <2> QED
      BY <2>1, <2>3, FS_CardinalityType
  <1>2. /\ Cardinality(R) \in Nat /\ Cardinality(R') \in Nat
        /\ Cardinality(R) <= Cardinality(R')
    <2>1. IsFiniteSet(R')
      BY FS_Subset, R' \subseteq replies'
    <2>2. R \subseteq R'
      OBVIOUS
    <2> HIDE DEF R
    <2>3. IsFiniteSet(R) /\ Cardinality(R) <= Cardinality(R')
      BY <2>1, <2>2, FS_Subset
    <2> QED
      BY <2>1, <2>3, FS_CardinalityType
  <1>3. Rank(m) = Cardinality(V) + Cardinality(R) /\ Rank(m)' = Cardinality(V') + Cardinality(R')
    BY DEF Rank
  <1> HIDE DEF V, R
  <1> QED
    BY <1>1, <1>2, <1>3, BoundsAssumption DEF BeyondHistory

\* What the history leaves out is beyond it.
LEMMA HistoryOrBeyond ==
  ASSUME TypeOK, IsFiniteSet(replies), NEW m \in visible
  PROVE  m \in History \/ BeyondHistory(m)
BY RankTyped, BoundsAssumption DEF History, BeyondHistory

LEMMA HistoryTyped == History \subseteq visible
BY DEF History

LEMMA IdleTyped == Idle \in Task
BY NullAssumption DEF Idle, Task, Steps, Results

-----------------------------------------------------------------------------
LEMMA InitIndInv == Init => IndInv
  <1> SUFFICES ASSUME Init PROVE IndInv
    OBVIOUS
  <1>0. /\ begun = {} /\ visible = {} /\ queue = {} /\ pending = {} /\ decisions = {}
        /\ replies = {} /\ staff = 0 /\ aborts = 0
    BY DEF Init
  <1>1. TypeOK
    <2>1. /\ task \in [Workers -> Task]
          /\ \A w \in Workers : (task[w].msg = NoMsg) <=> (task[w].step = "idle")
      BY IdleTyped DEF Idle, Init
    <2>2. staff \in 0..MaxStaff /\ aborts \in 0..MaxAborts
      BY <1>0, BoundsAssumption
    <2>3. {ended, closing, escalated, system} \subseteq BOOLEAN
      BY DEF Init
    <2>4. /\ coalesced \in [Messages -> Messages \cup {NoMsg}]
          /\ record \in [Messages -> Outcomes \cup {"none"}]
      BY DEF Init
    <2>5. /\ config \in {"agent", "other channels", "none"}
          /\ handling \in {"unset", "platform_ai", "human"}
      BY DEF Init
    <2> QED
      BY <1>0, <2>1, <2>2, <2>3, <2>4, <2>5 DEF TypeOK
  <1>2. IsFiniteSet(replies)
    BY <1>0, FS_EmptySet
  <1>3. \A w \in Workers : TaskInv(w)
    BY DEF TaskInv, OnMessage, HasRead, Idle, Init
  <1>4. GivenUpRightly
    BY DEF GivenUpRightly, Init
  <1> QED
    BY <1>0, <1>1, <1>2, <1>3, <1>4 DEF IndInv, Answers, OneAnswerEach, PassedOverSeen, Init

-----------------------------------------------------------------------------
\* The types of everything but the tasks.
DataOK ==
  /\ begun \subseteq Messages /\ visible \subseteq begun
  /\ queue \subseteq visible
  /\ coalesced \in [Messages -> Messages \cup {NoMsg}]
  /\ replies \subseteq Reply
  /\ record \in [Messages -> Outcomes \cup {"none"}]
  /\ pending \subseteq visible /\ decisions \subseteq visible
  /\ config \in {"agent", "other channels", "none"}
  /\ handling \in {"unset", "platform_ai", "human"}
  /\ {ended, closing, escalated, system} \subseteq BOOLEAN
  /\ staff \in 0..MaxStaff /\ aborts \in 0..MaxAborts

\* One responder moves to a state that is a task.
LEMMA TaskMoves ==
  ASSUME TypeOK, DataOK', NEW w \in Workers, NEW t \in Task, Go(w, t),
         (t.msg = NoMsg) <=> (t.step = "idle")
  PROVE  TypeOK'
BY DEF TypeOK, DataOK, Go

LEMMA TypeStep ==
  ASSUME IndInv, [Next]_vars
  PROVE  TypeOK'
  <1> USE DEF desk, thread
  <1>0. TypeOK /\ DataOK /\ \A w \in Workers : TaskInv(w)
    BY DEF IndInv, TypeOK, DataOK
  <1>1. ASSUME NEW m \in Messages, BeginMessage(m) \/ CommitMessage(m) \/ Decide(m)
        PROVE  TypeOK'
    <2>1. CASE BeginMessage(m)
      BY <1>0, <2>1 DEF BeginMessage, TypeOK
    <2>2. CASE CommitMessage(m)
      BY <1>0, <2>2 DEF CommitMessage, TypeOK
    <2>3. CASE Decide(m)
      BY <1>0, <2>3 DEF Decide, TypeOK
    <2> QED
      BY <1>1, <2>1, <2>2, <2>3
  <1>2. ASSUME Desk PROVE TypeOK'
    <2>1. UNCHANGED <<queue, coalesced, task, record, decisions, aborts, thread>>
      BY <1>2 DEF Desk
    <2>2. /\ pending' \subseteq pending
          /\ config' \in {"agent", "other channels", "none"}
          /\ handling' \in {"unset", "platform_ai", "human"}
      BY <1>0, <1>2
      DEF Desk, Escalate, End, CloseEscalation, Configure, UsePlatformAI, TakeOver, Handled,
          TypeOK
    <2>3. {ended, closing, escalated, system}' \subseteq BOOLEAN
      BY <1>0, <1>2
      DEF Desk, Escalate, End, CloseEscalation, Configure, UsePlatformAI, TakeOver, Handled,
          TypeOK
    <2>4. staff' \in 0..MaxStaff
      <3>1. staff \in 0..MaxStaff /\ (staff' = staff \/ (staff < MaxStaff /\ staff' = staff + 1))
        BY <1>0, <1>2
        DEF Desk, Escalate, End, CloseEscalation, Configure, UsePlatformAI, TakeOver,
            Handled, Staffed, TypeOK
      <3> QED
        BY <3>1, BoundsAssumption
    <2> QED
      BY <1>0, <2>1, <2>2, <2>3, <2>4 DEF TypeOK
  <1>3. ASSUME NEW w \in Workers, ClaimMessage(w) \/ ClaimDecision(w) \/ Abort(w)
        PROVE  TypeOK'
    <2>1. CASE ClaimMessage(w)
      <3>1. PICK m \in queue : /\ queue' = queue \ {m}
                               /\ Go(w, [Idle EXCEPT !.step = "coalesce", !.msg = m])
        BY <2>1 DEF ClaimMessage, Oldest
      <3>2. m \in Messages
        BY <1>0, <3>1 DEF TypeOK
      <3>3. [Idle EXCEPT !.step = "coalesce", !.msg = m] \in Task
        BY <3>2, IdleTyped DEF Task, Steps
      <3>4. DataOK'
        BY <1>0, <2>1, <3>1 DEF ClaimMessage, DataOK
      <3> QED
        BY <1>0, <3>1, <3>2, <3>3, <3>4, TaskMoves, NullAssumption DEF Idle
    <2>2. CASE ClaimDecision(w)
      <3>1. PICK m \in decisions : Go(w, [Idle EXCEPT !.step = "follow up", !.msg = m])
        BY <2>2 DEF ClaimDecision
      <3>2. m \in Messages
        BY <1>0, <3>1 DEF TypeOK
      <3>3. [Idle EXCEPT !.step = "follow up", !.msg = m] \in Task
        BY <3>2, IdleTyped DEF Task, Steps
      <3>4. DataOK'
        BY <1>0, <2>2 DEF ClaimDecision, DataOK
      <3> QED
        BY <1>0, <3>1, <3>2, <3>3, <3>4, TaskMoves, NullAssumption DEF Idle
    <2>3. CASE Abort(w)
      <3>0. aborts' \in 0..MaxAborts
        <4>1. aborts \in 0..MaxAborts /\ aborts < MaxAborts /\ aborts' = aborts + 1
          BY <1>0, <2>3 DEF Abort, TypeOK
        <4> QED
          BY <4>1, BoundsAssumption
      <3>1. DataOK'
        BY <1>0, <2>3, <3>0 DEF Abort, DataOK
      <3> QED
        BY <1>0, <2>3, <3>1, TaskMoves, IdleTyped DEF Abort, Idle
    <2> QED
      BY <1>3, <2>1, <2>2, <2>3
  <1>4. ASSUME NEW w \in Workers, Answering(w)
        PROVE  TypeOK'
    <2> DEFINE t == task[w]
    <2>0. /\ t \in Task
          /\ ~At(w, "idle") => t.msg \in visible /\ t.msg \in Messages
      BY <1>0 DEF TypeOK, TaskInv, At
    <2>1. DataOK'
      <3> USE <1>0, <2>0 DEF At, DataOK
      <3>1. CASE Coalesce(w)
        BY <3>1 DEF Coalesce
      <3>2. CASE LoadConfig(w) \/ Unconfigured(w) \/ Gate(w) \/ Assemble(w)
                 \/ CheckNewer(w) \/ DeleteRow(w) \/ FollowUp(w) \/ FollowUpCall(w)
        BY <3>2
        DEF LoadConfig, Unconfigured, Gate, Assemble, CheckNewer, DeleteRow, FollowUp,
            FollowUpCall
      <3>3. CASE Ack(w)
        BY <3>3 DEF Ack
      <3>4. CASE GateEscalation(w) \/ Recheck(w)
        <4>1. record' \in [Messages -> Outcomes \cup {"none"}]
          BY <3>4 DEF GateEscalation, Recheck, Recorded, Outcomes
        <4> QED
          BY <3>4, <4>1 DEF GateEscalation, Recheck
      <3>5. CASE Rules(w)
        BY <3>5 DEF Rules
      <3>6. CASE Generate(w)
        BY <3>6 DEF Generate
      <3>7. CASE Hold(w) \/ PostReply(w) \/ FollowUpPost(w)
        <4>1. replies' \subseteq Reply
          <5>1. t.read \subseteq Messages /\ begun \subseteq Messages
            BY DEF Task
          <5>2. \A kind \in {"reply", "holding", "follow-up"} :
                  [to |-> t.msg, kind |-> kind, after |-> begun, read |-> t.read] \in Reply
            BY <3>7, <5>1 DEF Reply, Hold, PostReply, FollowUpPost
          <5> QED
            BY <3>7, <5>2 DEF Hold, PostReply, FollowUpPost, Post
        <4>2. record' \in [Messages -> Outcomes \cup {"none"}]
          BY <3>7 DEF Hold, PostReply, FollowUpPost, Recorded, Outcomes
        <4> QED
          BY <3>7, <4>1, <4>2 DEF Hold, PostReply, FollowUpPost
      <3>8. CASE Fallback(w)
        <4>1. record' \in [Messages -> Outcomes \cup {"none"}]
          BY <3>8 DEF Fallback, Recorded, Outcomes
        <4> QED
          BY <3>8, <4>1 DEF Fallback
      <3> QED
        BY <1>4, <3>1, <3>2, <3>3, <3>4, <3>5, <3>6, <3>7, <3>8 DEF Answering
    <2>2. \E u \in Task : Go(w, u) /\ ((u.msg = NoMsg) <=> (u.step = "idle"))
      <3> DEFINE Moved(u) == u \in Task /\ ((u.msg = NoMsg) <=> (u.step = "idle"))
      <3>0. /\ \A step \in Steps \ {"idle"} : ~At(w, "idle") =>
                 Moved([t EXCEPT !.step = step])
            /\ \A step \in Steps \ {"idle"}, persona \in BOOLEAN : ~At(w, "idle") =>
                 Moved([t EXCEPT !.step = step, !.persona = persona])
            /\ \A step \in Steps \ {"idle"}, read \in SUBSET Messages : ~At(w, "idle") =>
                 Moved([t EXCEPT !.step = step, !.read = read])
            /\ \A step \in Steps \ {"idle"}, result \in Results : ~At(w, "idle") =>
                 Moved([t EXCEPT !.step = step, !.result = result])
            /\ \A step \in Steps \ {"idle"}, late \in BOOLEAN : ~At(w, "idle") =>
                 Moved([t EXCEPT !.step = step, !.late = late])
        BY <2>0, NullAssumption DEF At, Task
      <3>1. CASE Coalesce(w) \/ LoadConfig(w) \/ Ack(w) \/ Gate(w) \/ GateEscalation(w)
                 \/ Rules(w) \/ Hold(w) \/ Recheck(w) \/ PostReply(w) \/ Fallback(w)
                 \/ FollowUpCall(w) \/ FollowUpPost(w)
        <4>1. ~At(w, "idle") /\ \E step \in Steps \ {"idle"} : To(w, step)
          BY <3>1
          DEF Coalesce, LoadConfig, Ack, Gate, GateEscalation, Rules, Hold, Recheck,
              PostReply, Fallback, FollowUpCall, FollowUpPost, Steps, At
        <4> QED
          BY <3>0, <4>1 DEF To
      <3>2. CASE Unconfigured(w)
        <4>1. /\ ~At(w, "idle")
              /\ \/ \E step \in Steps \ {"idle"} : To(w, step)
                 \/ Go(w, [t EXCEPT !.step = "assemble", !.persona = TRUE])
          BY <3>2 DEF Unconfigured, Steps, At
        <4>2. "assemble" \in Steps \ {"idle"}
          BY DEF Steps
        <4> QED
          BY <3>0, <4>1, <4>2 DEF To
      <3>3. CASE Assemble(w) \/ FollowUp(w)
        <4>1. ~At(w, "idle") /\ \E step \in Steps \ {"idle"} :
                Go(w, [t EXCEPT !.step = step, !.read = History])
          BY <3>3 DEF Assemble, FollowUp, Steps, At
        <4>2. History \in SUBSET Messages
          BY <1>0, HistoryTyped DEF TypeOK
        <4> HIDE DEF t, Moved
        <4>3. PICK step \in Steps \ {"idle"} : Go(w, [t EXCEPT !.step = step, !.read = History])
          BY <4>1
        <4>4. Moved([t EXCEPT !.step = step, !.read = History])
          BY <3>0, <4>1, <4>2
        <4> QED
          BY <4>3, <4>4 DEF Moved
      <3>4. CASE Generate(w)
        <4>1. /\ ~At(w, "idle")
              /\ \/ \E step \in Steps \ {"idle"} : To(w, step)
                 \/ \E result \in Results :
                      Go(w, [t EXCEPT !.step = "newer", !.result = result])
          BY <3>4 DEF Generate, Steps, At, Results
        <4>2. "newer" \in Steps \ {"idle"}
          BY DEF Steps
        <4>3. ASSUME NEW step \in Steps \ {"idle"}, To(w, step)
              PROVE  \E u : Moved(u) /\ Go(w, u)
          BY <3>0, <4>1, <4>3 DEF To
        <4>4. ASSUME NEW result \in Results, Go(w, [t EXCEPT !.step = "newer", !.result = result])
              PROVE  \E u : Moved(u) /\ Go(w, u)
          <5>1. Moved([t EXCEPT !.step = "newer", !.result = result])
            BY <3>0, <4>1, <4>2
          <5> QED
            BY <4>4, <5>1
        <4> QED
          BY <4>1, <4>3, <4>4
      <3>5. CASE CheckNewer(w)
        <4>1. ~At(w, "idle") /\ HasNewer(t.msg) \in BOOLEAN /\ "recheck" \in Steps \ {"idle"}
          BY <3>5 DEF CheckNewer, HasNewer, At, Steps
        <4>2. \E late \in BOOLEAN : Go(w, [t EXCEPT !.step = "recheck", !.late = late])
          BY <3>5, <4>1 DEF CheckNewer
        <4> QED
          BY <3>0, <4>1, <4>2
      <3>6. CASE DeleteRow(w)
        BY <3>6, IdleTyped DEF DeleteRow, Idle
      <3> QED
        BY <1>4, <3>1, <3>2, <3>3, <3>4, <3>5, <3>6 DEF Answering
    <2> QED
      BY <1>0, <2>1, <2>2, TaskMoves
  <1>5. CASE UNCHANGED vars
    BY <1>0, <1>5 DEF vars, TypeOK
  <1> QED
    BY <1>1, <1>2, <1>3, <1>4, <1>5 DEF Next

-----------------------------------------------------------------------------
(* The rest of the invariant, for each kind of step.                       *)

\* Everything but the types and what is recorded.
Thread == /\ IsFiniteSet(replies)
          /\ \A w \in Workers : TaskInv(w)
          /\ \A r \in Answers : AnswerInv(r)
          /\ OneAnswerEach
          /\ PassedOverSeen

LEMMA OneMoves ==
  ASSUME TypeOK, NEW w \in Workers, NEW t, Go(w, t)
  PROVE  /\ task'[w] = t
         /\ \A v \in Workers : v # w => task'[v] = task[v]
BY DEF TypeOK, Go

\* A responder goes on without touching rows, messages or answers.
LEMMA QuietMove ==
  ASSUME IndInv, NEW w \in Workers, NEW t, Go(w, t),
         UNCHANGED <<queue, coalesced, visible, replies>>,
         OnMessage(w)' => OnMessage(w) /\ t.msg = task[w].msg,
         t.step # "idle" => t.msg \in visible,
         t.late \/ t.result = "superseded" => HasNewer(t.msg),
         HasRead(w)' => Covers(t.read, t.msg)
  PROVE  Thread'
  <1>1. /\ task'[w] = t
        /\ \A v \in Workers : v # w => task'[v] = task[v]
    BY OneMoves DEF IndInv
  <1>2. ASSUME NEW v \in Workers PROVE TaskInv(v)'
    <2>1. \A u \in Workers : OnMessage(u)' => OnMessage(u) /\ task'[u].msg = task[u].msg
      BY <1>1 DEF OnMessage
    <2>2. OnMessage(v)' => Claimed(v)'
      BY <2>1 DEF IndInv, TaskInv, Claimed, Answers
    <2>3. CASE v = w
      BY <1>1, <2>2, <2>3 DEF TaskInv, BeyondHistory, Rank, HasNewer, Covers
    <2>4. CASE v # w
      BY <1>1, <2>2, <2>4
      DEF IndInv, TaskInv, BeyondHistory, Rank, HasNewer, Covers, HasRead
    <2> QED
      BY <2>3, <2>4
  <1>3. /\ IsFiniteSet(replies)' /\ OneAnswerEach' /\ PassedOverSeen'
        /\ \A r \in Answers' : AnswerInv(r)'
    BY DEF IndInv, OneAnswerEach, Answers, AnswerInv, BeyondHistory, Rank, Covers, PassedOverSeen
  <1> QED
    BY <1>2, <1>3 DEF Thread

\* No responder moves and no answer is posted: messages come in and staff act.
LEMMA RestMoves ==
  ASSUME IndInv, TypeOK', UNCHANGED <<task, coalesced, replies>>,
         visible \subseteq visible', queue \subseteq queue',
         queue' \ queue \subseteq visible' \ visible
  PROVE  Thread'
  <1>0. TypeOK /\ IsFiniteSet(replies)
    BY DEF IndInv
  <1>1. \A n \in Messages : BeyondHistory(n) => BeyondHistory(n)'
    <2>1. IsFiniteSet(visible') /\ IsFiniteSet(replies')
      BY <1>0, MessagesAssumption, FS_Subset DEF TypeOK
    <2> QED
      BY <1>0, <2>1, BeyondStays
  <1>2. ASSUME NEW v \in Workers PROVE TaskInv(v)'
    <2>1. OnMessage(v)' => Claimed(v)'
      BY DEF IndInv, TaskInv, Claimed, Answers, OnMessage
    <2>2. HasNewer(task[v].msg) => HasNewer(task[v].msg)'
      BY NewerStays
    <2> QED
      BY <1>1, <2>1, <2>2 DEF IndInv, TaskInv, Covers, HasRead, HasNewer
  <1>3. \A r \in Answers' : AnswerInv(r)'
    BY <1>1 DEF IndInv, Answers, AnswerInv, Covers
  <1> QED
    BY <1>0, <1>2, <1>3 DEF Thread, IndInv, OneAnswerEach, Answers, PassedOverSeen

LEMMA ClaimStep ==
  ASSUME IndInv, NEW w \in Workers, ClaimMessage(w)
  PROVE  Thread'
  <1>1. PICK m \in queue : /\ queue' = queue \ {m}
                           /\ Go(w, [Idle EXCEPT !.step = "coalesce", !.msg = m])
    BY DEF ClaimMessage, Oldest
  <1>2. UNCHANGED <<coalesced, visible, replies>>
    BY DEF ClaimMessage, thread
  <1>3. /\ task'[w].step = "coalesce" /\ task'[w].msg = m
        /\ ~task'[w].late /\ task'[w].result = "none"
        /\ \A v \in Workers : v # w => task'[v] = task[v]
    <2>1. /\ task'[w] = [Idle EXCEPT !.step = "coalesce", !.msg = m]
          /\ \A v \in Workers : v # w => task'[v] = task[v]
      BY <1>1, OneMoves DEF IndInv
    <2> QED
      BY <2>1 DEF Idle
  <1>4. m \in visible
    BY DEF IndInv, TypeOK
  <1>5. \A v \in Workers : OnMessage(v) => task[v].msg # m
    BY DEF IndInv, TaskInv, Claimed
  <1>6. \A r \in Answers : r.to # m
    BY DEF IndInv, AnswerInv
  <1>7. ASSUME NEW v \in Workers PROVE TaskInv(v)'
    <2>1. OnMessage(v)' => Claimed(v)'
      BY <1>1, <1>2, <1>3, <1>5, <1>6 DEF IndInv, TaskInv, Claimed, Answers, OnMessage
    <2> QED
      BY <1>2, <1>3, <1>4, <2>1
      DEF IndInv, TaskInv, BeyondHistory, Rank, HasNewer, Covers, HasRead
  <1>8. \A r \in Answers' : AnswerInv(r)'
    BY <1>1, <1>2 DEF IndInv, Answers, AnswerInv, BeyondHistory, Rank, Covers
  <1> QED
    BY <1>2, <1>7, <1>8 DEF Thread, IndInv, OneAnswerEach, Answers, PassedOverSeen

\* The rows are passed over in favour of a message whose history is not read yet, and
\* that nobody else answers.
LEMMA CoalesceStep ==
  ASSUME IndInv, NEW w \in Workers, Coalesce(w)
  PROVE  Thread'
  <1> DEFINE m == task[w].msg
             older == {n \in queue : n < m}
  <1>1. /\ task[w].step = "coalesce" /\ To(w, "config")
        /\ queue' = queue \ older
        /\ coalesced' = [n \in Messages |-> IF n \in older THEN m ELSE coalesced[n]]
        /\ UNCHANGED <<visible, replies>>
    BY DEF Coalesce, At, thread
  <1>2. /\ task'[w] = [task[w] EXCEPT !.step = "config"]
        /\ \A v \in Workers : v # w => task'[v] = task[v]
    BY <1>1, OneMoves DEF IndInv, To
  <1>3. task'[w].step = "config" /\ task'[w].msg = m
        /\ task'[w].late = task[w].late /\ task'[w].result = task[w].result
    <2>1. task[w] \in Task
      BY DEF IndInv, TypeOK
    <2> QED
      BY <1>2, <2>1 DEF Task
  <1>4. OnMessage(w) /\ TaskInv(w)
    BY <1>1 DEF OnMessage, IndInv
  <1>5. \A n \in Messages, x \in Messages \ {m} : coalesced'[n] = x => coalesced[n] = x
    BY <1>1
  <1>6. ASSUME NEW v \in Workers PROVE TaskInv(v)'
    <2>1. \A u \in Workers : task'[u].msg = task[u].msg /\ (OnMessage(u)' => OnMessage(u))
      BY <1>2, <1>3, <1>4 DEF OnMessage
    <2>2. OnMessage(v)' => Claimed(v)'
      BY <1>1, <2>1 DEF IndInv, TaskInv, Claimed, Answers
    <2>3. CASE v = w
      BY <1>1, <1>3, <1>4, <2>2, <2>3 DEF TaskInv, HasNewer, HasRead
    <2>4. CASE v # w
      <3>1. HasRead(v) => task[v].msg \in Messages \ {m}
        BY <1>4, <2>4 DEF HasRead, OnMessage, TaskInv, Claimed, IndInv, TypeOK
      <3> QED
        BY <1>1, <1>2, <1>5, <2>2, <2>4, <3>1
        DEF IndInv, TaskInv, BeyondHistory, Rank, HasNewer, HasRead, Covers
    <2> QED
      BY <2>3, <2>4
  <1>7. ASSUME NEW r \in Answers' PROVE AnswerInv(r)'
    <2>1. r \in Answers /\ r.to \in Messages \ {m}
      BY <1>1, <1>4 DEF Answers, TaskInv, Claimed, IndInv, AnswerInv, TypeOK
    <2> QED
      BY <1>1, <1>5, <2>1 DEF IndInv, AnswerInv, BeyondHistory, Rank, Covers
  <1>8. PassedOverSeen'
    BY <1>1 DEF PassedOverSeen, IndInv, TypeOK
  <1> QED
    BY <1>1, <1>6, <1>7, <1>8 DEF Thread, IndInv, OneAnswerEach, Answers

\* Whatever is posted, what others read and answered stays.
LEMMA PostEffect ==
  ASSUME IndInv, NEW w \in Workers, NEW kind, Post(w, kind)
  PROVE  /\ replies \subseteq replies' /\ IsFiniteSet(replies')
         /\ \A r \in replies' \ replies :
              r.to = task[w].msg /\ r.kind = kind /\ r.read = task[w].read
  <1>1. IsFiniteSet(replies)
    BY DEF IndInv
  <1> QED
    BY <1>1, FS_AddElement DEF Post

LEMMA PostStep ==
  ASSUME IndInv, NEW w \in Workers, Hold(w) \/ PostReply(w) \/ FollowUpPost(w)
  PROVE  Thread'
  <1>0. TypeOK /\ IsFiniteSet(replies)
    BY DEF IndInv
  <1>1. PICK kind \in {"holding", "reply", "follow-up"} :
          /\ Post(w, kind)
          /\ kind = "reply" => task[w].step = "post"
          /\ task[w].step # "idle"
    BY DEF Hold, PostReply, FollowUpPost, At
  <1>2. To(w, "delete") /\ UNCHANGED <<queue, coalesced, visible>>
    BY DEF Hold, PostReply, FollowUpPost
  <1>3. /\ replies \subseteq replies' /\ IsFiniteSet(replies')
        /\ \A r \in replies' \ replies :
             r.to = task[w].msg /\ r.kind = kind /\ r.read = task[w].read
    BY <1>1, PostEffect
  <1>4. \A n \in Messages : BeyondHistory(n) => BeyondHistory(n)'
    BY <1>0, <1>2, <1>3, BeyondStays, VisibleFinite
  <1>5. /\ task'[w].step = "delete" /\ task'[w].msg = task[w].msg
        /\ task'[w].late = task[w].late /\ task'[w].result = task[w].result
        /\ \A v \in Workers : v # w => task'[v] = task[v]
    <2>1. /\ task[w] \in Task
          /\ task'[w] = [task[w] EXCEPT !.step = "delete"]
          /\ \A v \in Workers : v # w => task'[v] = task[v]
      BY <1>0, <1>2, OneMoves DEF To, TypeOK
    <2> QED
      BY <2>1 DEF Task
  <1>6. \A r \in Answers' \ Answers : /\ r.to = task[w].msg /\ r.read = task[w].read
                                       /\ OnMessage(w) /\ HasRead(w)
    BY <1>1, <1>3 DEF Answers, OnMessage, HasRead
  <1>7. ASSUME NEW v \in Workers PROVE TaskInv(v)'
    <2>1. OnMessage(v)' => v # w /\ OnMessage(v) /\ task'[v] = task[v]
      BY <1>5 DEF OnMessage
    <2>2. OnMessage(v)' => Claimed(v)'
      BY <1>2, <1>5, <1>6, <2>1 DEF IndInv, TaskInv, Claimed, OnMessage
    <2>3. HasNewer(task[v].msg) => HasNewer(task[v].msg)'
      BY <1>2, <1>5 DEF HasNewer
    <2> QED
      BY <1>1, <1>2, <1>4, <1>5, <2>2, <2>3 DEF IndInv, TaskInv, Covers, HasRead, HasNewer
  <1>8. ASSUME NEW r \in Answers' PROVE AnswerInv(r)'
    <2>1. CASE r \in Answers
      BY <1>2, <1>4, <2>1 DEF IndInv, AnswerInv, Covers
    <2>2. CASE r \notin Answers
      BY <1>1, <1>2, <1>4, <1>6, <2>2 DEF IndInv, TaskInv, Claimed, AnswerInv, Covers
    <2> QED
      BY <2>1, <2>2
  <1>9. OneAnswerEach'
    <2>1. \A r, q \in replies' \ replies : r = q
      BY <1>1 DEF Post
    <2> QED
      BY <1>3, <1>6, <2>1 DEF OneAnswerEach, Answers, IndInv, TaskInv, Claimed
  <1> QED
    BY <1>2, <1>3, <1>7, <1>8, <1>9 DEF Thread, IndInv, PassedOverSeen

\* A step of a responder that only changes where it stands.
LEMMA StepMove ==
  ASSUME IndInv, NEW w \in Workers, NEW step, To(w, step),
         UNCHANGED <<queue, coalesced, visible, replies>>,
         task[w].step # "idle",
         step \in {"gate", "escalation", "rules", "unconfigured", "assemble", "ack", "hold",
                   "fallback"} => OnMessage(w),
         step \in {"post"} => HasRead(w),
         step \in {"gate", "escalation", "rules", "unconfigured", "assemble", "ack", "hold",
                   "fallback", "post", "follow-up post", "delete"}
  PROVE  Thread'
  <1> DEFINE t == [task[w] EXCEPT !.step = step]
  <1>1. task[w] \in Task /\ TaskInv(w)
    BY DEF IndInv, TypeOK
  <1>2. /\ t.step = step /\ t.msg = task[w].msg /\ t.read = task[w].read
        /\ t.late = task[w].late /\ t.result = task[w].result
    BY <1>1 DEF Task
  <1>3. Go(w, t) /\ task'[w] = t
    BY OneMoves DEF To, IndInv
  <1> HIDE DEF t
  <1>4. OnMessage(w)' => OnMessage(w)
    BY <1>2, <1>3 DEF OnMessage, HasRead
  <1>5. HasRead(w)' => HasRead(w)
    BY <1>2, <1>3 DEF HasRead
  <1> QED
    BY <1>1, <1>2, <1>3, <1>4, <1>5, QuietMove DEF TaskInv

LEMMA AnsweringStep ==
  ASSUME IndInv, NEW w \in Workers, Answering(w)
  PROVE  Thread'
  <1> DEFINE t == task[w]
  <1>0. TypeOK /\ IsFiniteSet(replies) /\ t \in Task /\ TaskInv(w)
    BY DEF IndInv, TypeOK
  <1> USE DEF At, thread
  <1>1. CASE LoadConfig(w) \/ Ack(w) \/ Gate(w) \/ GateEscalation(w) \/ Rules(w)
             \/ Recheck(w) \/ Fallback(w) \/ FollowUpCall(w)
    <2>1. UNCHANGED <<queue, coalesced, visible, replies>> /\ t.step # "idle"
      BY <1>1
      DEF LoadConfig, Ack, Gate, GateEscalation, Rules, Recheck, Fallback, FollowUpCall
    <2>2. PICK step : /\ To(w, step)
                      /\ step \in {"gate", "escalation", "rules", "unconfigured", "assemble",
                                   "ack", "fallback", "post", "follow-up post", "delete"}
                      /\ step = "post" => t.step = "recheck"
                      /\ step \notin {"post", "follow-up post", "delete"} =>
                           t.step \in {"config", "gate", "escalation", "rules", "recheck"}
      BY <1>1
      DEF LoadConfig, Ack, Gate, GateEscalation, Rules, Recheck, Fallback, FollowUpCall
    <2> QED
      BY <2>1, <2>2, StepMove DEF OnMessage, HasRead
  <1>2. CASE Unconfigured(w)
    <2>1. UNCHANGED <<queue, coalesced, visible, replies>> /\ OnMessage(w) /\ t.step # "idle"
      BY <1>2 DEF Unconfigured, OnMessage
    <2>2. CASE To(w, "delete") \/ To(w, "ack")
      BY <2>1, <2>2, StepMove
    <2>3. CASE Go(w, [t EXCEPT !.step = "assemble", !.persona = TRUE])
      <3> DEFINE u == [t EXCEPT !.step = "assemble", !.persona = TRUE]
      <3>1. /\ u.step = "assemble" /\ u.msg = t.msg
            /\ u.late = t.late /\ u.result = t.result
        BY <1>0 DEF Task
      <3>2. task'[w] = u
        BY <1>0, <2>3, OneMoves
      <3>3. ~HasRead(w)'
        BY <3>1, <3>2 DEF HasRead
      <3> HIDE DEF u
      <3> QED
        BY <1>0, <2>1, <2>3, <3>1, <3>3, QuietMove DEF TaskInv, u
    <2> QED
      BY <1>2, <2>2, <2>3 DEF Unconfigured
  <1>3. CASE Assemble(w) \/ FollowUp(w)
    <2>1. PICK step \in {"generate", "follow-up call"} :
            /\ Go(w, [t EXCEPT !.step = step, !.read = History])
            /\ step = "generate" => OnMessage(w)
            /\ t.step # "idle"
      BY <1>3 DEF Assemble, FollowUp, OnMessage
    <2> DEFINE u == [t EXCEPT !.step = step, !.read = History]
    <2>2. UNCHANGED <<queue, coalesced, visible, replies>>
      BY <1>3 DEF Assemble, FollowUp
    <2>3. /\ u.step = step /\ u.msg = t.msg /\ u.read = History
          /\ u.late = t.late /\ u.result = t.result
      BY <1>0 DEF Task
    <2>4. task'[w] = u
      BY <1>0, <2>1, OneMoves
    <2>5. OnMessage(w)' => OnMessage(w)
      BY <2>1, <2>3, <2>4 DEF OnMessage
    <2>6. HasRead(w)' => Covers(History, t.msg)
      <3>1. HasRead(w)' => t.msg \in visible
        BY <1>0, <2>1, <2>3, <2>4 DEF HasRead, TaskInv
      <3>2. t.msg # NoMsg => \A n \in Messages : coalesced[n] = t.msg => n \in visible
        BY DEF IndInv, PassedOverSeen
      <3> QED
        BY <1>0, <2>1, <3>1, <3>2, HistoryOrBeyond DEF Covers, TypeOK
    <2> HIDE DEF u
    <2> QED
      BY <1>0, <2>1, <2>2, <2>3, <2>5, <2>6, QuietMove DEF TaskInv, u
  <1>4. CASE Generate(w)
    <2>1. /\ UNCHANGED <<queue, coalesced, visible, replies>>
          /\ t.step = "generate" /\ OnMessage(w) /\ HasRead(w)
      BY <1>4 DEF Generate, OnMessage, HasRead
    <2>2. CASE To(w, "hold")
      BY <2>1, <2>2, StepMove
    <2>3. ASSUME NEW result, Go(w, [t EXCEPT !.step = "newer", !.result = result]),
                 result = "superseded" => HasNewer(t.msg)
          PROVE  Thread'
      <3> DEFINE u == [t EXCEPT !.step = "newer", !.result = result]
      <3>1. /\ u.step = "newer" /\ u.msg = t.msg /\ u.read = t.read
            /\ u.late = t.late /\ u.result = result
        BY <1>0 DEF Task
      <3> HIDE DEF u
      <3> QED
        BY <1>0, <2>1, <2>3, <3>1, QuietMove DEF TaskInv, u
    <2>4. \/ To(w, "hold")
          \/ \E result \in {"text", "failed", "not configured", "internal", "superseded",
                          "escalated"} :
               /\ Go(w, [t EXCEPT !.step = "newer", !.result = result])
               /\ result = "superseded" => HasNewer(t.msg)
      BY <1>4 DEF Generate
    <2> QED
      BY <2>2, <2>3, <2>4
  <1>5. CASE CheckNewer(w)
    <2>1. /\ UNCHANGED <<queue, coalesced, visible, replies>>
          /\ t.step = "newer" /\ OnMessage(w) /\ HasRead(w)
          /\ Go(w, [t EXCEPT !.step = "recheck", !.late = HasNewer(t.msg)])
      BY <1>5 DEF CheckNewer, OnMessage, HasRead
    <2> DEFINE u == [t EXCEPT !.step = "recheck", !.late = HasNewer(t.msg)]
    <2>2. /\ u.step = "recheck" /\ u.msg = t.msg /\ u.read = t.read
          /\ u.late = HasNewer(t.msg) /\ u.result = t.result
      BY <1>0 DEF Task
    <2> HIDE DEF u
    <2> QED
      BY <1>0, <2>1, <2>2, QuietMove DEF TaskInv, u
  <1>6. CASE DeleteRow(w)
    <2>1. Go(w, Idle) /\ UNCHANGED <<queue, coalesced, visible, replies>>
      BY <1>6 DEF DeleteRow
    <2>2. task'[w] = Idle
      BY <1>0, <2>1, OneMoves
    <2> QED
      BY <2>1, <2>2, QuietMove DEF Idle, OnMessage, HasRead
  <1> QED
    BY <1>1, <1>2, <1>3, <1>4, <1>5, <1>6, CoalesceStep, PostStep DEF Answering

-----------------------------------------------------------------------------
\* Every step that gives a message up knows of a newer one or of a later AI message.
LEMMA GivenUpStep ==
  ASSUME IndInv, [Next]_vars
  PROVE  GivenUpRightly'
  <1> USE DEF thread
  <1>0. TypeOK /\ GivenUpRightly
    BY DEF IndInv
  <1>1. visible \subseteq visible' /\ replies \subseteq replies'
    BY DEF Next, vars, BeginMessage, CommitMessage, Decide, Desk, ClaimMessage, ClaimDecision,
       Abort, Answering, Coalesce, LoadConfig, Unconfigured, Ack, Gate, GateEscalation, Rules,
       Assemble, Generate, Hold, CheckNewer, Recheck, PostReply, Fallback, DeleteRow,
       FollowUp, FollowUpCall, FollowUpPost, Post
  <1>2. ASSUME NEW m \in Messages, record'[m] = "superseded", record[m] # "superseded"
        PROVE  \E w \in Workers : Recheck(w) /\ task[w].msg = m
    <2>0. record' # record
      BY <1>2
    <2>1. PICK w \in Workers : GateEscalation(w) \/ Hold(w) \/ Recheck(w) \/ PostReply(w)
                              \/ Fallback(w)
      BY <2>0
      DEF Next, vars, BeginMessage, CommitMessage, Decide, Desk, ClaimMessage, ClaimDecision,
          Abort, Answering, Coalesce, LoadConfig, Unconfigured, Ack, Gate, Rules, Assemble,
          Generate, CheckNewer, DeleteRow, FollowUp, FollowUpCall, FollowUpPost
    <2>2. \/ Recheck(w)
          \/ \E outcome \in Outcomes \ {"superseded"} : Recorded(w, outcome)
      BY <2>0, <2>1 DEF GateEscalation, Hold, PostReply, Fallback, Outcomes
    <2>3. Recheck(w) => Recorded(w, "cancelled_escalation") \/ Recorded(w, "superseded")
      BY <2>0 DEF Recheck
    <2> QED
      BY <1>0, <1>2, <2>2, <2>3 DEF Recorded, TypeOK
  <1>3. ASSUME NEW m \in Messages, record'[m] = "superseded", NEW w \in Workers, Recheck(w),
               task[w].msg = m, record[m] # "superseded"
        PROVE  HasNewer(m) \/ HasReplySince(m)
    <2>1. TaskInv(w)
      BY DEF IndInv
    <2>2. \/ UNCHANGED record
          \/ /\ \/ task[w].result \in {"superseded", "escalated"}
                \/ task[w].late \/ escalated \/ HasReplySince(m)
             /\ Recorded(w, IF escalated \/ task[w].result = "escalated"
                              THEN "cancelled_escalation" ELSE "superseded")
      BY <1>3 DEF Recheck
    <2> QED
      BY <1>0, <1>3, <2>1, <2>2 DEF TaskInv, Recorded, TypeOK
  <1>4. ASSUME NEW m \in Messages, record'[m] = "superseded"
        PROVE  (HasNewer(m) \/ HasReplySince(m))'
    BY <1>0, <1>1, <1>2, <1>3, <1>4, NewerStays DEF GivenUpRightly
  <1> QED
    BY <1>4 DEF GivenUpRightly

LEMMA StepIndInv == IndInv /\ [Next]_vars => IndInv'
  <1> SUFFICES ASSUME IndInv, [Next]_vars PROVE IndInv'
    OBVIOUS
  <1>0. TypeOK' /\ GivenUpRightly' /\ TypeOK
    BY TypeStep, GivenUpStep DEF IndInv
  <1>1. ASSUME NEW m \in Messages, BeginMessage(m) \/ CommitMessage(m) \/ Decide(m)
        PROVE  Thread'
    BY <1>0, <1>1, RestMoves DEF BeginMessage, CommitMessage, Decide, thread
  <1>2. ASSUME Desk PROVE Thread'
    BY <1>0, <1>2, RestMoves DEF Desk, thread
  <1>3. ASSUME NEW w \in Workers, ClaimDecision(w) PROVE Thread'
    <2>1. PICK m \in decisions : Go(w, [Idle EXCEPT !.step = "follow up", !.msg = m])
      BY <1>3 DEF ClaimDecision
    <2> DEFINE u == [Idle EXCEPT !.step = "follow up", !.msg = m]
    <2>2. /\ u.step = "follow up" /\ u.msg = m /\ ~u.late /\ u.result = "none"
      BY DEF Idle
    <2>3. task'[w] = u /\ m \in visible
      BY <1>0, <2>1, OneMoves DEF TypeOK
    <2>4. ~OnMessage(w)' /\ ~HasRead(w)' /\ UNCHANGED <<queue, coalesced, visible, replies>>
      BY <1>3, <2>2, <2>3 DEF OnMessage, HasRead, ClaimDecision, thread
    <2> HIDE DEF u
    <2> QED
      BY <2>1, <2>2, <2>3, <2>4, QuietMove DEF u
  <1>4. ASSUME NEW w \in Workers, Abort(w) PROVE Thread'
    <2>1. Go(w, Idle) /\ UNCHANGED <<queue, coalesced, visible, replies>>
      BY <1>4 DEF Abort, thread
    <2>2. task'[w] = Idle
      BY <1>0, <2>1, OneMoves
    <2> QED
      BY <2>1, <2>2, QuietMove DEF Idle, OnMessage, HasRead
  <1>5. ASSUME UNCHANGED vars PROVE Thread'
    BY <1>0, <1>5, RestMoves DEF vars, thread
  <1>6. Thread'
    BY <1>1, <1>2, <1>3, <1>4, <1>5, ClaimStep, AnsweringStep DEF Next
  <1> QED
    BY <1>0, <1>6 DEF Thread, IndInv

-----------------------------------------------------------------------------
(* The theorems.                                                           *)

\* IndInv holds in every reachable state, with any number of responders.
THEOREM Invariance == Spec => []IndInv
  <1> QED
    BY InitIndInv, StepIndInv, PTL DEF Spec

\* Type correctness; what waits for a decision is a committed message.
THEOREM TypeCorrect == Spec => []TypeOK
  <1>1. IndInv => TypeOK
    BY DEF IndInv
  <1> QED
    BY Invariance, <1>1, PTL

\* However many responders overtake, restart or coalesce, a message triggers at most
\* one answer: the row is claimed once (FOR UPDATE SKIP LOCKED) and never comes back.
THEOREM AnsweredOnce == Spec => []OneAnswerEach
  <1>1. IndInv => OneAnswerEach
    BY DEF IndInv
  <1> QED
    BY Invariance, <1>1, PTL

\* An answer that stands for several messages read them all, except those that
\* recent_history never loads, and what was given up has a successor.
THEOREM NoMessagePassedOver == Spec => []PassedOverRightly
  <1>1. IndInv => PassedOverRightly
    <2> SUFFICES ASSUME IndInv PROVE PassedOverRightly
      OBVIOUS
    <2>1. ASSUME NEW r \in replies, r.kind = "reply", NEW m \in Messages,
                 m = r.to \/ coalesced[m] = r.to
          PROVE  m \in r.read \/ BeyondHistory(m)
      BY <2>1 DEF IndInv, Answers, AnswerInv, Covers
    <2> QED
      BY <2>1 DEF PassedOverRightly, IndInv, GivenUpRightly, HasNewer, HasReplySince
  <1> QED
    BY Invariance, <1>1, PTL
=============================================================================
