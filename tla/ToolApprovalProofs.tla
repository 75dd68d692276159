------------------------- MODULE ToolApprovalProofs -------------------------
(***************************************************************************)
(* Proofs about ToolApproval, for every number of requests, conversations, *)
(* members, sweeps, responders, tool calls and aborted tasks: IndInv is    *)
(* inductive, the safety properties follow from it, and the specification  *)
(* implements ToolProtocol. One lemma per conjunct of IndInv, one step per *)
(* action under each.                                                      *)
(***************************************************************************)
EXTENDS ToolApproval, TLAPS

-----------------------------------------------------------------------------
\* The only statuses the end of a generation changes are those it cancels.
LEMMA EndGenerationEffect ==
  ASSUME NEW w \in Workers, EndGeneration(w)
  PROVE  /\ UNCHANGED <<gated, decidedBy, outbox, claimed, decider, executions>>
         /\ \/ Transition(Awaiting(worker[w].conv), {"awaiting_approval"}, "cancelled")
            \/ UNCHANGED status
  <1>1. UNCHANGED <<gated, decidedBy, outbox, claimed, decider, executions>>
    BY DEF EndGeneration, requestVars, queueVars, counters
  <1>2. \/ Transition(Awaiting(worker[w].conv), {"awaiting_approval"}, "cancelled")
        \/ UNCHANGED status
    BY DEF EndGeneration, Escalate
  <1> QED
    BY <1>1, <1>2

\* So does a human entering the conversation.
LEMMA HandoverEffect ==
  ASSUME NEW c \in Conversations, Handover(c)
  PROVE  /\ UNCHANGED <<gated, held, decidedBy, outbox, claimed, worker, decider, executions>>
         /\ \/ Transition(Awaiting(c), {"awaiting_approval"}, "cancelled")
            \/ UNCHANGED status
  <1>1. UNCHANGED <<gated, held, decidedBy, outbox, claimed, worker, decider, executions>>
    BY DEF Handover, TakeOver, StaffEscalate, CloseEscalation, RunCancelTask, AbortCancel,
           Abort, requestVars, queueVars, otherTasks, counters
  <1>2. \/ Transition(Awaiting(c), {"awaiting_approval"}, "cancelled")
        \/ UNCHANGED status
    BY DEF Handover, TakeOver, Escalate, StaffEscalate, CloseEscalation, RunCancelTask,
           AbortCancel, Abort
  <1> QED
    BY <1>1, <1>2

\* A task changes no other task.
LEMMA TasksApart ==
  ASSUME TypeOK, NEW w \in Workers, NEW v \in Workers, v # w,
         Generation(w) \/ Execution(w) \/ Followup(w) \/ AbortWorker(w)
  PROVE  worker'[v] = worker[v]
  <1> USE DEF TypeOK
  <1>1. CASE Generation(w)
    BY <1>1 DEF Generation, StartGeneration, RefuseRequest, AutoRequest, ApprovalRequest,
                InsertRequest, PostHolding, EndGeneration
  <1>2. CASE Execution(w)
    BY <1>2 DEF Execution, MarkExecuting, RunTool, MarkTerminal, Step
  <1>3. CASE Followup(w) \/ AbortWorker(w)
    BY <1>3 DEF Followup, ClaimDecision, ClaimFrom, LoadDecision, Answer, DeleteDecision,
                Step, AbortWorker
  <1> QED
    BY <1>1, <1>2, <1>3

\* The inductive invariant holds of empty tables and idle tasks.
LEMMA InitIndInv == Init => IndInv
  <1> SUFFICES ASSUME Init PROVE IndInv
    OBVIOUS
  <1> USE BoundsAssumption, NullAssumption, NoRowAssumption DEF Init
  <1>1. TypeOK
    BY DEF TypeOK, Statuses, Settled, Executed, Declined, WorkerStates, IdleWorker,
           Steps, DeciderStates, IdleDecider
  <1>2. \A r \in Requests : RequestInv(r)
    BY DEF RequestInv, Executed
  <1>3. \A row \in outbox : RowInv(row)
    OBVIOUS
  <1>4. \A d \in Staff : DeciderInv(d)
    BY DEF DeciderInv, IdleDecider
  <1>5. \A w \in Workers : WorkerInv(w)
    BY DEF WorkerInv, IdleWorker, Executing
  <1>6. \A w, v \in Workers : w # v => Apart(w, v)
    BY DEF Apart, IdleWorker, Executing
  <1> QED
    BY <1>1, <1>2, <1>3, <1>4, <1>5, <1>6 DEF IndInv

-----------------------------------------------------------------------------
\* Every step keeps the types.
LEMMA TypeStep == IndInv /\ [Next]_vars => TypeOK'
  <1> SUFFICES ASSUME IndInv, [Next]_vars PROVE TypeOK'
    OBVIOUS
  <1> USE ConvOfAssumption, BoundsAssumption, NullAssumption DEF TypeOK
  <1> USE DEF requestVars, queueVars, otherTasks, counters, IdleWorker, IdleDecider,
              WorkerStates, DeciderStates, Steps, Statuses, Settled, Executed, Declined
  <1>0. TypeOK
    BY DEF IndInv
  <1>a. \A S, T, st : st \in Statuses /\ Transition(S, T, st) => status' \in [Requests -> Statuses]
    BY <1>0 DEF Transition
  <1>b. ASSUME NEW w \in Workers, NEW from, NEW to \in Steps, Step(w, from, to)
        PROVE worker' \in [Workers -> WorkerStates]
    BY <1>0, <1>b DEF Step
  <1>c. \A r \in Requests : \A f \in [Requests -> Nat] :
          [f EXCEPT ![r] = @ + 1] \in [Requests -> Nat]
    OBVIOUS
  <1>d. \A w \in Workers : worker[w].step \in {"hold", "mark", "run", "settle", "answer"}
          => worker[w].req \in Requests
    BY <1>0 DEF IndInv, WorkerInv, Executing, Rows
  <1>1. ASSUME NEW w \in Workers, Generation(w) PROVE TypeOK'
    <2>1. ASSUME NEW c \in Conversations, StartGeneration(w, c) PROVE TypeOK'
      BY <1>0, <2>1 DEF StartGeneration
    <2>2. ASSUME NEW r \in Requests, RefuseRequest(w, r) PROVE TypeOK'
      BY <1>0, <2>2 DEF RefuseRequest, InsertRequest
    <2>3. ASSUME NEW r \in Requests, AutoRequest(w, r) PROVE TypeOK'
      BY <1>0, <2>3 DEF AutoRequest, InsertRequest
    <2>4. ASSUME NEW r \in Requests, ApprovalRequest(w, r) PROVE TypeOK'
      BY <1>0, <2>4 DEF ApprovalRequest, InsertRequest
    <2>5. ASSUME PostHolding(w) PROVE TypeOK'
      BY <1>0, <1>d, <2>5 DEF PostHolding
    <2>6. ASSUME EndGeneration(w) PROVE TypeOK'
      <3> DEFINE c == worker[w].conv
      <3>1. worker' = [worker EXCEPT ![w] = IdleWorker]
            /\ UNCHANGED <<gated, requestVars, queueVars, decider, sweeper, counters>>
        BY <2>6 DEF EndGeneration
      <3>2. /\ \/ cancelTasks' = cancelTasks \cup {c} /\ Awaiting(c) # {}
               \/ cancelTasks' = cancelTasks
            /\ \/ Escalate(c)
               \/ UNCHANGED <<status, escalated>>
        BY <2>6 DEF EndGeneration
      <3>3. c \in Conversations
        BY <2>6 DEF EndGeneration, IndInv, WorkerInv
      <3>4. status' \in [Requests -> Statuses]
        BY <1>0, <1>a, <3>2 DEF Escalate
      <3> QED
        BY <1>0, <3>1, <3>2, <3>3, <3>4 DEF Escalate
    <2> QED
      BY <1>1, <2>1, <2>2, <2>3, <2>4, <2>5, <2>6 DEF Generation
  <1>2. ASSUME NEW w \in Workers, Execution(w) PROVE TypeOK'
    <2>1. ASSUME MarkExecuting(w) PROVE TypeOK'
      <3>1. status' \in [Requests -> Statuses]
        BY <1>0, <1>a, <2>1 DEF MarkExecuting
      <3>2. worker' \in [Workers -> WorkerStates]
        BY <1>b, <2>1 DEF MarkExecuting
      <3> QED
        BY <1>0, <2>1, <3>1, <3>2 DEF MarkExecuting
    <2>2. ASSUME RunTool(w) PROVE TypeOK'
      <3>1. worker' \in [Workers -> WorkerStates]
        BY <1>b, <2>2 DEF RunTool
      <3>2. executions' \in [Requests -> Nat]
        BY <1>0, <1>c, <1>d, <2>2 DEF RunTool, Step
      <3> QED
        BY <1>0, <2>2, <3>1, <3>2 DEF RunTool
    <2>3. ASSUME MarkTerminal(w) PROVE TypeOK'
      <3>1. status' \in [Requests -> Statuses]
        BY <1>0, <1>a, <2>3 DEF MarkTerminal
      <3>2. PICK st \in {"generating", "answer"}, r \in Requests \cup {NoReq} :
              worker' = [worker EXCEPT ![w].step = st, ![w].req = r]
        BY <1>0, <2>3 DEF MarkTerminal
      <3>3. worker' \in [Workers -> WorkerStates]
        <4>0. worker[w] \in WorkerStates /\ st \in Steps
          BY <1>0
        <4>1. [worker[w] EXCEPT !.step = st, !.req = r] \in WorkerStates
          BY <4>0
        <4>2. worker' = [worker EXCEPT ![w] = [worker[w] EXCEPT !.step = st, !.req = r]]
          BY <1>0, <3>2
        <4> QED
          BY <1>0, <4>1, <4>2
      <3>4. UNCHANGED <<gated, escalated, requestVars, queueVars, otherTasks, counters>>
        BY <2>3 DEF MarkTerminal
      <3> QED
        BY <1>0, <3>1, <3>3, <3>4
    <2> QED
      BY <1>2, <2>1, <2>2, <2>3 DEF Execution
  <1>3. ASSUME NEW w \in Workers, Followup(w) PROVE TypeOK'
    <2>1. ASSUME ClaimDecision(w) PROVE TypeOK'
      BY <1>0, <2>1 DEF ClaimDecision, ClaimFrom, Rows
    <2>2. ASSUME LoadDecision(w) PROVE TypeOK'
      <3>1. worker' \in [Workers -> WorkerStates]
        BY <1>b, <2>2 DEF LoadDecision
      <3> QED
        BY <1>0, <2>2, <3>1 DEF LoadDecision
    <2>3. ASSUME Answer(w) PROVE TypeOK'
      <3>1. worker[w].req \in Requests
        BY <1>d, <2>3 DEF Answer, Step
      <3>2. worker' \in [Workers -> WorkerStates]
        BY <1>b, <2>3 DEF Answer
      <3>3. followups' \in [Requests -> Nat]
        BY <1>0, <1>c, <2>3, <3>1 DEF Answer
      <3> QED
        BY <1>0, <2>3, <3>1, <3>2, <3>3 DEF Answer
    <2>4. ASSUME DeleteDecision(w) PROVE TypeOK'
      BY <1>0, <2>4 DEF DeleteDecision
    <2> QED
      BY <1>3, <2>1, <2>2, <2>3, <2>4 DEF Followup
  <1>4. ASSUME NEW d \in Staff, NEW r \in Requests, NEW o \in {"approved", "denied"},
               Decide(d, r, o)
        PROVE TypeOK'
    BY <1>0, <1>4 DEF Decide, DecideFrom
  <1>5. ASSUME NEW d \in Staff, EmitDecision(d) PROVE TypeOK'
    <2>1. decider[d].req \in Requests
      BY <1>5 DEF EmitDecision, IndInv, DeciderInv
    <2> QED
      BY <1>0, <1>5, <2>1 DEF EmitDecision, Rows, Outcomes
  <1>6. ASSUME NEW s \in Sweepers, SweepSelect(s) PROVE TypeOK'
    BY <1>0, <1>6 DEF SweepSelect
  <1>7. ASSUME NEW s \in Sweepers, SweepCommit(s) PROVE TypeOK'
    <2>1. status' \in [Requests -> Statuses]
      BY <1>0, <1>a, <1>7 DEF SweepCommit, SweepTx
    <2>2. outbox' \in SUBSET Rows
      BY <1>0, <1>7 DEF SweepCommit, SweepTx, Rows, Outcomes
    <2> QED
      BY <1>0, <1>7, <2>1, <2>2 DEF SweepCommit, SweepTx
  <1>8. ASSUME NEW r \in Requests, Expire(r) PROVE TypeOK'
    BY <1>0, <1>8 DEF Expire
  <1>9. ASSUME NEW c \in Conversations, Handover(c) PROVE TypeOK'
    <2>1. status' \in [Requests -> Statuses]
      BY <1>0, <1>a, <1>9, HandoverEffect
    <2>2. /\ escalated' \in SUBSET Conversations /\ cancelTasks' \in SUBSET Conversations
          /\ aborts' \in 0..MaxAborts
          /\ UNCHANGED <<overdue, sweeper, followups, unanswered>>
      BY <1>0, <1>9 DEF Handover, TakeOver, Escalate, StaffEscalate, CloseEscalation,
                        RunCancelTask, AbortCancel, Abort
    <2> QED
      BY <1>0, <1>9, <2>1, <2>2, HandoverEffect
  <1>10. ASSUME NEW w \in Workers, AbortWorker(w) PROVE TypeOK'
    BY <1>0, <1>10 DEF Abort, AbortWorker
  <1>11. ASSUME NEW d \in Staff, AbortDecide(d) PROVE TypeOK'
    BY <1>0, <1>11 DEF Abort, AbortDecide
  <1>12. ASSUME NEW s \in Sweepers, AbortSweep(s) PROVE TypeOK'
    BY <1>0, <1>12 DEF Abort, AbortSweep
  <1>13. CASE UNCHANGED vars
    BY <1>0, <1>13 DEF vars
  <1> QED
    BY <1>1, <1>2, <1>3, <1>4, <1>5, <1>6, <1>7, <1>8, <1>9, <1>10, <1>11, <1>12,
       <1>13 DEF Next

-----------------------------------------------------------------------------
\* Every step keeps what relates a request's status, approver and execution.
LEMMA RequestStep == IndInv /\ [Next]_vars => \A r \in Requests : RequestInv(r)'
  <1> SUFFICES ASSUME IndInv, [Next]_vars, NEW q \in Requests PROVE RequestInv(q)'
    OBVIOUS
  <1> USE NullAssumption DEF requestVars, queueVars, otherTasks, counters, Executed
  <1>0. RequestInv(q) /\ q \in DOMAIN status /\ q \in DOMAIN executions /\ q \in DOMAIN decidedBy
    BY DEF IndInv, TypeOK
  <1>a. \A S, T, st : Transition(S, T, st) =>
          status'[q] = IF q \in S /\ status[q] \in T THEN st ELSE status[q]
    BY DEF Transition
  <1>b. ASSUME UNCHANGED <<status, gated, decidedBy, executions>> PROVE RequestInv(q)'
    BY <1>0, <1>b DEF RequestInv
  <1>c. ASSUME NEW S, NEW st \in {"cancelled", "expired"}, Transition(S, {"awaiting_approval"}, st),
               UNCHANGED <<gated, decidedBy, executions>>
        PROVE RequestInv(q)'
    BY <1>0, <1>a, <1>c DEF RequestInv
  <1>d. \A w \in Workers : WorkerInv(w)
    BY DEF IndInv
  <1>1. ASSUME NEW w \in Workers, Generation(w) PROVE RequestInv(q)'
    <2>1. ASSUME NEW c \in Conversations, StartGeneration(w, c) PROVE RequestInv(q)'
      BY <1>b, <2>1 DEF StartGeneration
    <2>2. ASSUME NEW r \in Requests, RefuseRequest(w, r) PROVE RequestInv(q)'
      BY <1>0, <2>2 DEF RefuseRequest, InsertRequest, RequestInv
    <2>3. ASSUME NEW r \in Requests, AutoRequest(w, r) PROVE RequestInv(q)'
      BY <1>0, <2>3 DEF AutoRequest, InsertRequest, RequestInv
    <2>4. ASSUME NEW r \in Requests, ApprovalRequest(w, r) PROVE RequestInv(q)'
      BY <1>0, <2>4 DEF ApprovalRequest, InsertRequest, RequestInv
    <2>5. ASSUME PostHolding(w) PROVE RequestInv(q)'
      BY <1>b, <2>5 DEF PostHolding
    <2>6. ASSUME EndGeneration(w) PROVE RequestInv(q)'
      BY <1>b, <1>c, <2>6, EndGenerationEffect
    <2> QED
      BY <1>1, <2>1, <2>2, <2>3, <2>4, <2>5, <2>6 DEF Generation
  <1>2. ASSUME NEW w \in Workers, Execution(w) PROVE RequestInv(q)'
    <2>1. ASSUME MarkExecuting(w) PROVE RequestInv(q)'
      BY <1>0, <1>a, <1>d, <2>1 DEF MarkExecuting, Step, RequestInv, WorkerInv, Executing
    <2>2. ASSUME RunTool(w) PROVE RequestInv(q)'
      BY <1>0, <1>d, <2>2 DEF RunTool, Step, RequestInv, WorkerInv
    <2>3. ASSUME MarkTerminal(w) PROVE RequestInv(q)'
      BY <1>0, <1>a, <1>d, <2>3 DEF MarkTerminal, RequestInv, WorkerInv, Executing
    <2> QED
      BY <1>2, <2>1, <2>2, <2>3 DEF Execution
  <1>3. ASSUME NEW w \in Workers, Followup(w) PROVE RequestInv(q)'
    BY <1>b, <1>3 DEF Followup, ClaimDecision, ClaimFrom, LoadDecision, Answer, DeleteDecision
  <1>4. ASSUME NEW d \in Staff, NEW r \in Requests, NEW o \in {"approved", "denied"},
               Decide(d, r, o)
        PROVE RequestInv(q)'
    BY <1>0, <1>4 DEF Decide, DecideFrom, RequestInv
  <1>5. ASSUME NEW d \in Staff, EmitDecision(d) \/ AbortDecide(d) PROVE RequestInv(q)'
    BY <1>b, <1>5 DEF EmitDecision, AbortDecide, Abort
  <1>6. ASSUME NEW s \in Sweepers, SweepSelect(s) \/ SweepCommit(s) \/ AbortSweep(s)
        PROVE RequestInv(q)'
    BY <1>b, <1>c, <1>6 DEF SweepSelect, SweepCommit, SweepTx, AbortSweep, Abort
  <1>7. ASSUME NEW r \in Requests, Expire(r) PROVE RequestInv(q)'
    BY <1>b, <1>7 DEF Expire
  <1>8. ASSUME NEW c \in Conversations, Handover(c)
        PROVE RequestInv(q)'
    BY <1>b, <1>c, <1>8, HandoverEffect
  <1>9. ASSUME NEW w \in Workers, AbortWorker(w) PROVE RequestInv(q)'
    BY <1>b, <1>9 DEF AbortWorker, Abort
  <1>10. CASE UNCHANGED vars
    BY <1>b, <1>10 DEF vars
  <1> QED
    BY <1>1, <1>2, <1>3, <1>4, <1>5, <1>6, <1>7, <1>8, <1>9, <1>10 DEF Next

-----------------------------------------------------------------------------
\* Only rows of the outbox are claimed.
LEMMA ClaimedStep == IndInv /\ [Next]_vars => claimed' \subseteq outbox'
  <1> SUFFICES ASSUME IndInv, [Next]_vars PROVE claimed' \subseteq outbox'
    OBVIOUS
  <1>0. claimed \subseteq outbox
    BY DEF IndInv
  <1>1. ASSUME UNCHANGED queueVars PROVE claimed' \subseteq outbox'
    BY <1>0, <1>1 DEF queueVars
  <1>2. ASSUME NEW w \in Workers, Generation(w) \/ Execution(w) \/ AbortWorker(w)
        PROVE UNCHANGED queueVars
    BY <1>2 DEF Generation, StartGeneration, RefuseRequest, AutoRequest, ApprovalRequest,
                PostHolding, EndGeneration, Execution, MarkExecuting, RunTool, MarkTerminal,
                AbortWorker, Abort
  <1>3. ASSUME NEW w \in Workers, Followup(w) PROVE claimed' \subseteq outbox'
    BY <1>0, <1>3 DEF Followup, ClaimDecision, ClaimFrom, LoadDecision, Answer,
                      DeleteDecision, queueVars
  <1>4. ASSUME NEW d \in Staff,
               \/ \E r \in Requests, o \in {"approved", "denied"} : Decide(d, r, o)
               \/ EmitDecision(d)
               \/ AbortDecide(d)
        PROVE claimed' \subseteq outbox'
    BY <1>0, <1>4 DEF Decide, DecideFrom, EmitDecision, AbortDecide, Abort, queueVars
  <1>5. ASSUME NEW s \in Sweepers, SweepSelect(s) \/ SweepCommit(s) \/ AbortSweep(s)
        PROVE claimed' \subseteq outbox'
    BY <1>0, <1>5 DEF SweepSelect, SweepCommit, SweepTx, AbortSweep, Abort, queueVars
  <1>6. ASSUME \/ \E r \in Requests : Expire(r)
               \/ \E c \in Conversations : Handover(c)
               \/ UNCHANGED vars
        PROVE UNCHANGED queueVars
    BY <1>6, HandoverEffect DEF Expire, vars, queueVars
  <1> QED
    BY <1>1, <1>2, <1>3, <1>4, <1>5, <1>6 DEF Next

-----------------------------------------------------------------------------
\* At most one "approved" row exists per request: the decider's.
LEMMA OneApprovedRow ==
  ASSUME IndInv, NEW x \in outbox, NEW y \in outbox,
         x.outcome = "approved", y.outcome = "approved", x.req = y.req
  PROVE  x = y
  <1>1. x.by = y.by
    BY DEF IndInv, RowInv
  <1>2. x \in Rows /\ y \in Rows
    BY DEF IndInv, TypeOK
  <1> QED
    BY <1>1, <1>2 DEF Rows

\* What a worker executes is neither waiting for a claim nor still in the hands
\* of the member who decides it.
LEMMA ExecutedAlone ==
  ASSUME IndInv, NEW w \in Workers, Executing(w)
  PROVE  /\ \A row \in outbox \ claimed :
              row.outcome = "approved" => row.req # worker[w].req
         /\ \A d \in Staff : decider[d].step = "emit" => decider[d].req # worker[w].req
  <1> USE NullAssumption
  <1>0. /\ WorkerInv(w)
        /\ \A r \in Requests : RequestInv(r)
        /\ \A row \in outbox : RowInv(row) /\ row \in Rows
        /\ \A d \in Staff : DeciderInv(d)
        /\ decidedBy \in [Requests -> Staff \cup {NoOne}]
        /\ decider \in [Staff -> DeciderStates]
    BY DEF IndInv, TypeOK
  <1>1. ASSUME NEW row \in outbox \ claimed, row.outcome = "approved",
               row.req = worker[w].req
        PROVE  FALSE
    <2>1. row.req \in gated
      BY <1>0, <1>1 DEF RowInv, RequestInv, Rows
    <2>2. worker[w].row # NoRow /\ worker[w].row.outcome = "approved"
      BY <1>0, <1>1, <2>1 DEF WorkerInv
    <2>3. worker[w].row \in outbox \cap claimed /\ worker[w].row.req = row.req
      BY <1>0, <1>1, <2>2 DEF WorkerInv
    <2> QED
      BY <1>1, <2>2, <2>3, OneApprovedRow
  <1>2. ASSUME NEW d \in Staff, decider[d].step = "emit", decider[d].req = worker[w].req
        PROVE  FALSE
    BY <1>0, <1>2 DEF DeciderInv, DeciderStates, WorkerInv, RequestInv
  <1> QED
    BY <1>1, <1>2

-----------------------------------------------------------------------------
\* Every step keeps an "approved" row consistent with its request.
LEMMA RowStep == IndInv /\ TypeOK' /\ [Next]_vars => \A row \in outbox' : RowInv(row)'
  <1> SUFFICES ASSUME IndInv, TypeOK', [Next]_vars,
                      NEW row \in outbox', row.outcome = "approved"
               PROVE  RowInv(row)'
    BY DEF RowInv
  <1> USE NullAssumption, EmitterAssumption
      DEF requestVars, queueVars, otherTasks, counters, Executed
  <1>0. /\ row \in outbox => RowInv(row)
        /\ row.req \in Requests
        /\ row.req \in DOMAIN status /\ row.req \in DOMAIN decidedBy
        /\ RequestInv(row.req)
    BY DEF IndInv, TypeOK, Rows
  <1>a. \A S, T, st : Transition(S, T, st) =>
          status'[row.req] = IF row.req \in S /\ status[row.req] \in T
                               THEN st ELSE status[row.req]
    BY <1>0 DEF Transition
  <1>b. ASSUME UNCHANGED <<status, decidedBy, outbox, claimed, executions>> PROVE RowInv(row)'
    BY <1>0, <1>b DEF RowInv
  <1>c. ASSUME NEW S, NEW st \in {"cancelled", "expired"},
               Transition(S, {"awaiting_approval"}, st),
               UNCHANGED <<decidedBy, claimed, executions>>, row \in outbox
        PROVE RowInv(row)'
    BY <1>0, <1>a, <1>c DEF RowInv
  <1>d. \A w \in Workers : WorkerInv(w)
    BY DEF IndInv
  <1>e. \A w \in Workers : worker[w].row # NoRow => worker[w].row \in claimed
    BY <1>d DEF WorkerInv
  <1>1. ASSUME NEW w \in Workers, Generation(w) PROVE RowInv(row)'
    <2>1. ASSUME NEW c \in Conversations, StartGeneration(w, c) PROVE RowInv(row)'
      BY <1>b, <2>1 DEF StartGeneration
    <2>2. ASSUME NEW r \in Requests,
                 RefuseRequest(w, r) \/ AutoRequest(w, r) \/ ApprovalRequest(w, r)
          PROVE RowInv(row)'
      BY <1>0, <2>2
      DEF RefuseRequest, AutoRequest, ApprovalRequest, InsertRequest, RowInv
    <2>3. ASSUME PostHolding(w) PROVE RowInv(row)'
      BY <1>b, <2>3 DEF PostHolding
    <2>4. ASSUME EndGeneration(w) PROVE RowInv(row)'
      BY <1>b, <1>c, <2>4, EndGenerationEffect
    <2> QED
      BY <1>1, <2>1, <2>2, <2>3, <2>4 DEF Generation
  <1>2. ASSUME NEW w \in Workers, Execution(w) PROVE RowInv(row)'
    <2>0. /\ row \in outbox /\ UNCHANGED <<decidedBy, outbox, claimed>>
          /\ row \notin claimed => row.req # worker[w].req
      <3>1. UNCHANGED <<decidedBy, outbox, claimed>> /\ Executing(w)
        BY <1>2 DEF Execution, MarkExecuting, RunTool, MarkTerminal, Step, Executing
      <3> QED
        BY <3>1, ExecutedAlone
    <2>1. ASSUME MarkExecuting(w) PROVE RowInv(row)'
      <3>1. executions' = executions
        BY <2>1 DEF MarkExecuting
      <3>2. CASE UNCHANGED status
        BY <1>b, <2>0, <3>1, <3>2
      <3>3. CASE Transition({worker[w].req}, {"pending", "approved"}, "executing")
        BY <1>0, <1>a, <2>0, <3>1, <3>3 DEF RowInv
      <3> QED
        BY <2>1, <3>2, <3>3 DEF MarkExecuting
    <2>2. ASSUME RunTool(w) PROVE RowInv(row)'
      <3>1. row \notin claimed => executions'[row.req] = executions[row.req]
        BY <1>0, <2>0, <2>2 DEF RunTool, IndInv, TypeOK
      <3> QED
        BY <1>0, <2>0, <2>2, <3>1 DEF RunTool, RowInv
    <2>3. ASSUME MarkTerminal(w) PROVE RowInv(row)'
      BY <1>0, <1>a, <2>3 DEF MarkTerminal, RowInv
    <2> QED
      BY <1>2, <2>1, <2>2, <2>3 DEF Execution
  <1>3. ASSUME NEW w \in Workers, Followup(w) PROVE RowInv(row)'
    <2>1. CASE ClaimDecision(w)
      BY <1>0, <2>1 DEF ClaimDecision, ClaimFrom, RowInv
    <2>2. CASE LoadDecision(w) \/ Answer(w)
      BY <1>b, <2>2 DEF LoadDecision, Answer
    <2>3. CASE DeleteDecision(w)
      BY <1>0, <2>3 DEF DeleteDecision, RowInv
    <2> QED
      BY <1>3, <2>1, <2>2, <2>3 DEF Followup
  <1>4. ASSUME NEW d \in Staff, NEW r \in Requests, NEW o \in {"approved", "denied"},
               Decide(d, r, o)
        PROVE RowInv(row)'
    BY <1>0, <1>4 DEF Decide, DecideFrom, RowInv
  <1>5. ASSUME NEW d \in Staff, EmitDecision(d) PROVE RowInv(row)'
    <2>1. CASE row \in outbox
      BY <1>0, <1>5, <2>1 DEF EmitDecision, RowInv
    <2>2. CASE row \notin outbox
      <3>1. row = [req |-> decider[d].req, outcome |-> decider[d].outcome, by |-> d]
        BY <1>5, <2>2 DEF EmitDecision
      <3>2. DeciderInv(d)
        BY DEF IndInv
      <3>3. status[row.req] = "approved" /\ decidedBy[row.req] = d /\ executions[row.req] = 0
        BY <1>5, <3>1, <3>2 DEF EmitDecision, DeciderInv
      <3> QED
        BY <1>5, <3>1, <3>3 DEF EmitDecision, RowInv
    <2> QED
      BY <2>1, <2>2
  <1>6. ASSUME NEW s \in Sweepers, SweepSelect(s) \/ AbortSweep(s) PROVE RowInv(row)'
    BY <1>b, <1>6 DEF SweepSelect, AbortSweep, Abort
  <1>7. ASSUME NEW s \in Sweepers, SweepCommit(s) PROVE RowInv(row)'
    <2>1. row \in outbox
      BY <1>7 DEF SweepCommit, SweepTx
    <2> QED
      BY <1>c, <1>7, <2>1 DEF SweepCommit, SweepTx
  <1>8. ASSUME NEW r \in Requests, Expire(r) PROVE RowInv(row)'
    BY <1>b, <1>8 DEF Expire
  <1>9. ASSUME NEW c \in Conversations, Handover(c)
        PROVE RowInv(row)'
    BY <1>b, <1>c, <1>9, HandoverEffect
  <1>10. ASSUME NEW w \in Workers, AbortWorker(w) PROVE RowInv(row)'
    BY <1>b, <1>10 DEF AbortWorker, Abort
  <1>11. ASSUME NEW d \in Staff, AbortDecide(d) PROVE RowInv(row)'
    BY <1>b, <1>11 DEF AbortDecide, Abort
  <1>12. CASE UNCHANGED vars
    BY <1>b, <1>12 DEF vars
  <1> QED
    BY <1>1, <1>2, <1>3, <1>4, <1>5, <1>6, <1>7, <1>8, <1>9, <1>10, <1>11, <1>12 DEF Next

-----------------------------------------------------------------------------
\* A handler between its two transactions still owns the decision it wrote.
LEMMA DeciderStep == IndInv /\ TypeOK' /\ [Next]_vars => \A d \in Staff : DeciderInv(d)'
  <1> SUFFICES ASSUME IndInv, TypeOK', [Next]_vars,
                      NEW d \in Staff, decider'[d].step = "emit"
               PROVE  DeciderInv(d)'
    BY DEF DeciderInv
  <1> USE NullAssumption DEF requestVars, queueVars, otherTasks, counters, Executed
  <1>0. /\ DeciderInv(d)
        /\ \A r \in Requests : RequestInv(r)
        /\ \A row \in outbox : RowInv(row)
        /\ status \in [Requests -> Statuses] /\ decidedBy \in [Requests -> Staff \cup {NoOne}]
        /\ decider \in [Staff -> DeciderStates]
        /\ outbox \subseteq Rows
    BY DEF IndInv, TypeOK
  <1>a. \A r \in Requests : \A S, T, st : Transition(S, T, st) =>
          status'[r] = IF r \in S /\ status[r] \in T THEN st ELSE status[r]
    BY DEF Transition
  <1>b. ASSUME UNCHANGED <<status, decidedBy, decider, executions>>, outbox' \subseteq outbox
        PROVE  DeciderInv(d)'
    BY <1>0, <1>b DEF DeciderInv
  <1>c. ASSUME NEW S, NEW st, Transition(S, {"awaiting_approval"}, st),
               UNCHANGED <<decidedBy, decider, outbox, executions>>
        PROVE DeciderInv(d)'
    BY <1>0, <1>a, <1>c DEF DeciderInv, DeciderStates
  <1>1. ASSUME NEW w \in Workers, Generation(w) PROVE DeciderInv(d)'
    <2>1. ASSUME NEW c \in Conversations, StartGeneration(w, c) PROVE DeciderInv(d)'
      BY <1>b, <2>1 DEF StartGeneration
    <2>2. ASSUME NEW r \in Requests,
                 RefuseRequest(w, r) \/ AutoRequest(w, r) \/ ApprovalRequest(w, r)
          PROVE DeciderInv(d)'
      BY <1>0, <2>2 DEF RefuseRequest, AutoRequest, ApprovalRequest, InsertRequest,
                        DeciderInv, DeciderStates
    <2>3. ASSUME PostHolding(w) PROVE DeciderInv(d)'
      BY <1>b, <2>3 DEF PostHolding
    <2>4. ASSUME EndGeneration(w) PROVE DeciderInv(d)'
      BY <1>b, <1>c, <2>4, EndGenerationEffect
    <2> QED
      BY <1>1, <2>1, <2>2, <2>3, <2>4 DEF Generation
  <1>2. ASSUME NEW w \in Workers, Execution(w) PROVE DeciderInv(d)'
    \* The row is not in the outbox yet, so no responder executes the request.
    <2>0. /\ UNCHANGED <<decider, decidedBy, outbox>>
          /\ decider[d].step = "emit" /\ decider[d].req \in Requests
          /\ decider[d].req # worker[w].req
      <3>1. UNCHANGED <<decider, decidedBy, outbox>> /\ Executing(w)
        BY <1>2 DEF Execution, MarkExecuting, RunTool, MarkTerminal, Step, Executing
      <3> QED
        BY <1>0, <3>1, ExecutedAlone DEF DeciderInv
    <2>1. status'[decider[d].req] = status[decider[d].req]
      <3>1. CASE MarkExecuting(w)
        BY <1>a, <2>0, <3>1 DEF MarkExecuting
      <3>2. CASE RunTool(w)
        BY <3>2 DEF RunTool
      <3>3. CASE MarkTerminal(w)
        BY <1>a, <2>0, <3>3 DEF MarkTerminal
      <3> QED
        BY <1>2, <3>1, <3>2, <3>3 DEF Execution
    <2>2. executions'[decider[d].req] = executions[decider[d].req]
      BY <1>2, <2>0 DEF Execution, MarkExecuting, RunTool, MarkTerminal, IndInv, TypeOK
    <2> QED
      BY <1>0, <2>0, <2>1, <2>2 DEF DeciderInv
  <1>3. ASSUME NEW w \in Workers, Followup(w) PROVE DeciderInv(d)'
    BY <1>b, <1>3 DEF Followup, ClaimDecision, ClaimFrom, LoadDecision, Answer, DeleteDecision
  <1>4. ASSUME NEW e \in Staff, NEW r \in Requests, NEW o \in {"approved", "denied"},
               Decide(e, r, o)
        PROVE DeciderInv(d)'
    <2>1. CASE e = d
      <3>1. executions'[r] = 0
        BY <1>0, <1>4 DEF Decide, DecideFrom, RequestInv, IndInv, TypeOK
      <3> QED
        BY <1>0, <1>4, <2>1, <3>1 DEF Decide, DecideFrom, DeciderInv, RowInv
    <2>2. CASE e # d
      BY <1>0, <1>4, <2>2 DEF Decide, DecideFrom, DeciderInv, DeciderStates
    <2> QED
      BY <2>1, <2>2
  <1>5. ASSUME NEW e \in Staff, EmitDecision(e) PROVE DeciderInv(d)'
    <2>1. e # d /\ decider'[d] = decider[d]
      BY <1>0, <1>5 DEF EmitDecision, IdleDecider
    <2>2. decider[e].req # decider[d].req
      BY <1>0, <1>5, <2>1 DEF EmitDecision, DeciderInv, IndInv
    <2> QED
      BY <1>0, <1>5, <2>1, <2>2 DEF EmitDecision, DeciderInv
  <1>6. ASSUME NEW s \in Sweepers, SweepSelect(s) \/ AbortSweep(s) PROVE DeciderInv(d)'
    BY <1>b, <1>6 DEF SweepSelect, AbortSweep, Abort
  <1>7. ASSUME NEW s \in Sweepers, SweepCommit(s) PROVE DeciderInv(d)'
    BY <1>0, <1>a, <1>7 DEF SweepCommit, SweepTx, DeciderInv, DeciderStates
  <1>8. ASSUME NEW r \in Requests, Expire(r) PROVE DeciderInv(d)'
    BY <1>b, <1>8 DEF Expire
  <1>9. ASSUME NEW c \in Conversations, Handover(c)
        PROVE DeciderInv(d)'
    BY <1>b, <1>c, <1>9, HandoverEffect
  <1>10. ASSUME NEW w \in Workers, AbortWorker(w) PROVE DeciderInv(d)'
    BY <1>b, <1>10 DEF AbortWorker, Abort
  <1>11. ASSUME NEW e \in Staff, AbortDecide(e) PROVE DeciderInv(d)'
    BY <1>0, <1>11 DEF AbortDecide, Abort, DeciderInv, IdleDecider
  <1>12. CASE UNCHANGED vars
    BY <1>b, <1>12 DEF vars
  <1> QED
    BY <1>1, <1>2, <1>3, <1>4, <1>5, <1>6, <1>7, <1>8, <1>9, <1>10, <1>11, <1>12 DEF Next

-----------------------------------------------------------------------------
\* What one worker's action does to another worker: its row stays, and so does
\* the status of the request it executes.
LEMMA WorkerFrame ==
  ASSUME IndInv, NEW v \in Workers, worker'[v] = worker[v],
         worker[v].row # NoRow => worker[v].row \in outbox' \cap claimed',
         gated' = gated \/ worker[v].req \notin gated' \/ ~Executing(v),
         LET r == worker[v].req IN
           \/ Executing(v)
           \/ worker[v].step = "load" /\ worker[v].row.outcome = "approved"
           => status'[r] = status[r] /\ executions'[r] = executions[r]
  PROVE  WorkerInv(v)'
  BY DEF IndInv, WorkerInv, Executing

\* Every step keeps what a responder task knows of the request it works on.
LEMMA WorkerStep == IndInv /\ TypeOK' /\ [Next]_vars => \A w \in Workers : WorkerInv(w)'
  <1> SUFFICES ASSUME IndInv, TypeOK', [Next]_vars, NEW v \in Workers
               PROVE  WorkerInv(v)'
    OBVIOUS
  <1> USE NullAssumption, NoRowAssumption
      DEF requestVars, queueVars, otherTasks, counters, Executed, IdleWorker
  <1> DEFINE q == worker[v].req
             engaged == \/ Executing(v)
                        \/ worker[v].step = "load" /\ worker[v].row.outcome = "approved"
  <1>0. /\ WorkerInv(v)
        /\ \A r \in Requests : RequestInv(r)
        /\ \A row \in outbox : RowInv(row)
        /\ status \in [Requests -> Statuses] /\ executions \in [Requests -> Nat]
        /\ worker \in [Workers -> WorkerStates]
        /\ outbox \subseteq Rows
    BY DEF IndInv, TypeOK
  <1>a. \A r \in Requests : \A S, T, st : Transition(S, T, st) =>
          status'[r] = IF r \in S /\ status[r] \in T THEN st ELSE status[r]
    BY DEF Transition
  <1>b. engaged => q \in Requests /\ status[q] \in {"pending", "approved", "executing"}
    BY <1>0 DEF WorkerInv, Executing, Rows
  <1>c. ASSUME UNCHANGED <<worker, outbox, claimed, gated, executions>>,
               \A r \in Requests : status[r] \in {"pending", "approved", "executing"}
                 => status'[r] = status[r]
        PROVE  WorkerInv(v)'
    BY <1>0, <1>b, <1>c, WorkerFrame DEF WorkerInv
  <1>1. ASSUME NEW w \in Workers, Generation(w) PROVE WorkerInv(v)'
    <2>0. UNCHANGED <<outbox, claimed, executions>>
      BY <1>1 DEF Generation, StartGeneration, RefuseRequest, AutoRequest, ApprovalRequest,
                  PostHolding, EndGeneration
    <2>1. CASE v # w
      <3>1. worker'[v] = worker[v]
        BY <1>1, <2>1, TasksApart DEF IndInv
      <3>2. \A r \in Requests : status[r] \in {"pending", "approved", "executing"}
              => status'[r] = status[r] /\ (r \in gated' <=> r \in gated)
        <4>1. CASE EndGeneration(w)
          BY <1>a, <4>1, EndGenerationEffect
        <4>2. CASE PostHolding(w) \/ \E c \in Conversations : StartGeneration(w, c)
          BY <4>2 DEF StartGeneration, PostHolding
        <4>3. CASE \E r \in Requests :
                     RefuseRequest(w, r) \/ AutoRequest(w, r) \/ ApprovalRequest(w, r)
          BY <1>0, <4>3 DEF RefuseRequest, AutoRequest, ApprovalRequest, InsertRequest
        <4> QED
          BY <1>1, <4>1, <4>2, <4>3 DEF Generation
      <3> QED
        BY <1>0, <1>b, <2>0, <3>1, <3>2 DEF WorkerInv, Executing
    <2>2. CASE v = w
      <3>1. ASSUME NEW c \in Conversations, StartGeneration(w, c) PROVE WorkerInv(v)'
        BY <1>0, <2>2, <3>1 DEF StartGeneration, WorkerInv, Executing
      <3>2. ASSUME NEW r \in Requests, RefuseRequest(w, r) PROVE WorkerInv(v)'
        BY <1>0, <2>2, <3>2 DEF RefuseRequest, InsertRequest, WorkerInv, Executing
      <3>3. ASSUME NEW r \in Requests, AutoRequest(w, r) PROVE WorkerInv(v)'
        BY <1>0, <2>2, <3>3 DEF AutoRequest, InsertRequest, WorkerInv, Executing, RequestInv
      <3>4. ASSUME NEW r \in Requests, ApprovalRequest(w, r) PROVE WorkerInv(v)'
        BY <1>0, <2>2, <3>4 DEF ApprovalRequest, InsertRequest, WorkerInv, Executing
      <3>5. ASSUME PostHolding(w) \/ EndGeneration(w) PROVE WorkerInv(v)'
        BY <1>0, <2>2, <3>5 DEF PostHolding, EndGeneration, WorkerInv, Executing
      <3> QED
        BY <1>1, <3>1, <3>2, <3>3, <3>4, <3>5 DEF Generation
    <2> QED
      BY <2>1, <2>2
  <1>2. ASSUME NEW w \in Workers, Execution(w) PROVE WorkerInv(v)'
    <2>0. UNCHANGED <<outbox, claimed, gated>>
      BY <1>2 DEF Execution, MarkExecuting, RunTool, MarkTerminal
    <2>1. CASE v # w
      <3>1. worker'[v] = worker[v]
        BY <1>2, <2>1, TasksApart DEF IndInv
      <3>2. engaged => q # worker[w].req
        <4>0. WorkerInv(w) /\ Apart(v, w) /\ Executing(w)
          BY <1>2, <2>1 DEF Execution, MarkExecuting, RunTool, MarkTerminal, Step, IndInv,
                            Executing
        <4>1. ASSUME Executing(v) PROVE q # worker[w].req
          BY <4>0, <4>1 DEF Apart
        <4>2. ASSUME worker[v].step = "load", worker[v].row.outcome = "approved"
              PROVE  q # worker[w].req
          <5>1. worker[v].row \in outbox /\ worker[v].row.req = q /\ worker[v].row # NoRow
                /\ status[q] = "approved" /\ q \in Requests
            BY <1>0, <4>2 DEF WorkerInv, Rows
          <5>2. CASE worker[w].row = NoRow
            BY <1>0, <4>0, <5>1, <5>2 DEF WorkerInv, RequestInv
          <5>3. CASE worker[w].row # NoRow
            <6>1. worker[w].row \in outbox /\ worker[w].row.req = worker[w].req
                  /\ worker[w].row.outcome = "approved"
              BY <4>0, <5>3 DEF WorkerInv
            <6>2. worker[v].row # worker[w].row
              BY <4>0, <5>1 DEF Apart
            <6> QED
              BY <4>2, <5>1, <6>1, <6>2, OneApprovedRow
          <5> QED
            BY <5>2, <5>3
        <4> QED
          BY <4>1, <4>2
      <3>3. engaged => status'[q] = status[q] /\ executions'[q] = executions[q]
        <4>1. CASE MarkExecuting(w)
          BY <1>a, <1>b, <3>2, <4>1 DEF MarkExecuting
        <4>2. CASE RunTool(w)
          BY <1>0, <1>b, <3>2, <4>2 DEF RunTool
        <4>3. CASE MarkTerminal(w)
          BY <1>a, <1>b, <3>2, <4>3 DEF MarkTerminal
        <4> QED
          BY <1>2, <4>1, <4>2, <4>3 DEF Execution
      <3> QED
        BY <1>0, <2>0, <3>1, <3>3, WorkerFrame DEF WorkerInv
    <2>2. CASE v = w
      <3>1. CASE MarkExecuting(w)
        <4>1. q \in Requests /\ executions'[q] = 0
          BY <1>0, <2>2, <3>1 DEF MarkExecuting, Step, WorkerInv, Executing
        <4>2. status'[q] \in {"pending", "approved", "executing"}
          BY <1>0, <1>a, <2>2, <3>1, <4>1 DEF MarkExecuting, Step, WorkerInv, Executing
        <4> QED
          BY <4>2, <1>0, <2>0, <2>2, <3>1, <4>1 DEF MarkExecuting, Step, WorkerInv, Executing
      <3>2. CASE RunTool(w)
        BY <1>0, <2>0, <2>2, <3>2 DEF RunTool, Step, WorkerInv, Executing
      <3>3. CASE MarkTerminal(w)
        BY <1>0, <2>0, <2>2, <3>3 DEF MarkTerminal, WorkerInv, Executing
      <3> QED
        BY <1>2, <3>1, <3>2, <3>3 DEF Execution
    <2> QED
      BY <2>1, <2>2
  <1>3. ASSUME NEW w \in Workers, Followup(w) PROVE WorkerInv(v)'
    <2>0. UNCHANGED <<status, gated, executions>>
      BY <1>3 DEF Followup, ClaimDecision, ClaimFrom, LoadDecision, Answer, DeleteDecision
    <2>1. CASE v # w
      <3>1. worker'[v] = worker[v]
        BY <1>3, <2>1, TasksApart DEF IndInv
      <3>2. worker[v].row # NoRow => worker[v].row \in outbox' \cap claimed'
        BY <1>0, <1>3, <2>1 DEF Followup, ClaimDecision, ClaimFrom, LoadDecision, Answer,
                                DeleteDecision, Step, WorkerInv, Apart, IndInv
      <3> QED
        BY <2>0, <3>1, <3>2, WorkerFrame
    <2>2. CASE v = w
      <3>1. CASE ClaimDecision(w)
        <4>1. PICK row \in outbox \ claimed :
                /\ claimed' = claimed \cup {row}
                /\ worker' = [worker EXCEPT ![w] =
                       [step |-> "load", conv |-> ConvOf[row.req], chain |-> 0,
                        req |-> row.req, row |-> row]]
          BY <3>1 DEF ClaimDecision, ClaimFrom
        <4>2. row \in Rows /\ row.req \in Requests /\ row # NoRow
              /\ ConvOf[row.req] \in Conversations
          BY <1>0, ConvOfAssumption DEF Rows
        <4>3. row.outcome = "approved" =>
                status[row.req] = "approved" /\ executions[row.req] = 0
          BY <1>0 DEF RowInv
        <4>4. worker'[v] = [step |-> "load", conv |-> ConvOf[row.req], chain |-> 0,
                            req |-> row.req, row |-> row]
          BY <1>0, <2>2, <4>1
        <4>5. outbox' = outbox
          BY <3>1 DEF ClaimDecision, ClaimFrom
        <4> QED
          BY <2>0, <4>1, <4>2, <4>3, <4>4, <4>5 DEF WorkerInv, Executing
      <3>2. CASE LoadDecision(w)
        BY <1>0, <2>0, <2>2, <3>2 DEF LoadDecision, Step, WorkerInv, Executing, Rows
      <3>3. CASE Answer(w)
        BY <1>0, <2>0, <2>2, <3>3 DEF Answer, Step, WorkerInv, Executing
      <3>4. CASE DeleteDecision(w)
        BY <1>0, <2>0, <2>2, <3>4 DEF DeleteDecision, WorkerInv, Executing
      <3> QED
        BY <1>3, <3>1, <3>2, <3>3, <3>4 DEF Followup
    <2> QED
      BY <2>1, <2>2
  <1>4. ASSUME NEW d \in Staff, NEW r \in Requests, NEW o \in {"approved", "denied"},
               Decide(d, r, o)
        PROVE WorkerInv(v)'
    BY <1>0, <1>c, <1>4 DEF Decide, DecideFrom
  <1>5. ASSUME NEW d \in Staff, EmitDecision(d) PROVE WorkerInv(v)'
    BY <1>0, <1>5, WorkerFrame DEF EmitDecision, WorkerInv
  <1>6. ASSUME NEW s \in Sweepers, SweepSelect(s) \/ AbortSweep(s) PROVE WorkerInv(v)'
    BY <1>c, <1>6 DEF SweepSelect, AbortSweep, Abort
  <1>7. ASSUME NEW s \in Sweepers, SweepCommit(s) PROVE WorkerInv(v)'
    <2>1. \A r \in Requests : status[r] \in {"pending", "approved", "executing"}
            => status'[r] = status[r]
      BY <1>a, <1>7 DEF SweepCommit, SweepTx
    <2> QED
      BY <1>0, <1>b, <1>7, <2>1, WorkerFrame DEF SweepCommit, SweepTx, WorkerInv
  <1>8. ASSUME NEW r \in Requests, Expire(r) PROVE WorkerInv(v)'
    BY <1>c, <1>8 DEF Expire
  <1>9. ASSUME NEW c \in Conversations, Handover(c)
        PROVE WorkerInv(v)'
    BY <1>a, <1>c, <1>9, HandoverEffect
  <1>10. ASSUME NEW w \in Workers, AbortWorker(w) PROVE WorkerInv(v)'
    BY <1>0, <1>10 DEF AbortWorker, Abort, WorkerInv, Executing
  <1>11. ASSUME NEW d \in Staff, AbortDecide(d) PROVE WorkerInv(v)'
    BY <1>c, <1>11 DEF AbortDecide, Abort
  <1>12. CASE UNCHANGED vars
    BY <1>c, <1>12 DEF vars
  <1> QED
    BY <1>1, <1>2, <1>3, <1>4, <1>5, <1>6, <1>7, <1>8, <1>9, <1>10, <1>11, <1>12 DEF Next

-----------------------------------------------------------------------------
\* Two responder tasks never come to hold one row or execute one request.
LEMMA ApartStep ==
  IndInv /\ [Next]_vars => \A w, v \in Workers : w # v => Apart(w, v)'
  <1> SUFFICES ASSUME IndInv, [Next]_vars, NEW x \in Workers, NEW y \in Workers, x # y
               PROVE  Apart(x, y)'
    OBVIOUS
  <1> USE NullAssumption, NoRowAssumption
      DEF requestVars, queueVars, otherTasks, counters, IdleWorker
  <1>0. /\ Apart(x, y) /\ Apart(y, x) /\ WorkerInv(x) /\ WorkerInv(y)
        /\ worker \in [Workers -> WorkerStates]
    BY DEF IndInv, TypeOK
  <1>a. ASSUME UNCHANGED worker PROVE Apart(x, y)'
    BY <1>0, <1>a DEF Apart, Executing
  \* Going on with a row or a request that was already in hand, or with none.
  <1>b. ASSUME NEW w \in Workers, \A v \in Workers : v # w => worker'[v] = worker[v],
               worker'[w].row \in {worker[w].row, NoRow},
               Executing(w)' => Executing(w) /\ worker'[w].req = worker[w].req
        PROVE  Apart(x, y)'
    BY <1>0, <1>b DEF Apart, Executing
  <1>1. ASSUME NEW w \in Workers, Generation(w) PROVE Apart(x, y)'
    <2>1. CASE \E r \in Requests : AutoRequest(w, r)
      <3>1. PICK r \in Requests : AutoRequest(w, r)
        BY <2>1
      <3>2. /\ \A v \in Workers : v # w => worker'[v] = worker[v]
            /\ worker'[w].row = worker[w].row /\ worker'[w].req = r
            /\ status[r] = "none"
        BY <1>0, <3>1 DEF AutoRequest, InsertRequest
      <3>3. \A v \in Workers : Executing(v) => worker[v].req # r
        BY <3>2 DEF IndInv, WorkerInv, Executing
      <3> QED
        BY <1>0, <3>2, <3>3 DEF Apart, Executing
    <2>2. CASE ~ \E r \in Requests : AutoRequest(w, r)
      <3>1. \A v \in Workers : v # w => worker'[v] = worker[v]
        BY <1>1, TasksApart DEF IndInv
      <3>2. worker'[w].row \in {worker[w].row, NoRow} /\ ~Executing(w)'
        <4>1. CASE \E c \in Conversations : StartGeneration(w, c)
          BY <1>0, <4>1 DEF StartGeneration, Executing
        <4>2. CASE \E r \in Requests : RefuseRequest(w, r) \/ ApprovalRequest(w, r)
          <5>1. PICK r \in Requests, st \in {"refused", "awaiting_approval"},
                     step \in {"generating", "hold"} : InsertRequest(w, r, st, step)
            BY <4>2 DEF RefuseRequest, ApprovalRequest
          <5>2. worker'[w].step = step /\ worker'[w].row = worker[w].row
            BY <1>0, <5>1 DEF InsertRequest
          <5> QED
            BY <5>1, <5>2 DEF Executing
        <4>3. CASE PostHolding(w) \/ EndGeneration(w)
          BY <1>0, <4>3 DEF PostHolding, EndGeneration, Executing
        <4> QED
          BY <1>1, <2>2, <4>1, <4>2, <4>3 DEF Generation
      <3> QED
        BY <1>b, <3>1, <3>2
    <2> QED
      BY <2>1, <2>2
  <1>2. ASSUME NEW w \in Workers, Execution(w) PROVE Apart(x, y)'
    <2>1. \A v \in Workers : v # w => worker'[v] = worker[v]
      BY <1>2, TasksApart DEF IndInv
    <2>2. /\ worker'[w].row = worker[w].row
          /\ Executing(w)' => Executing(w) /\ worker'[w].req = worker[w].req
      <3>1. CASE MarkExecuting(w)
        BY <1>0, <3>1 DEF MarkExecuting, Step, Executing
      <3>2. CASE RunTool(w)
        BY <1>0, <3>2 DEF RunTool, Step, Executing
      <3>3. CASE MarkTerminal(w)
        BY <1>0, <3>3 DEF MarkTerminal, Executing
      <3> QED
        BY <1>2, <3>1, <3>2, <3>3 DEF Execution
    <2> QED
      BY <1>b, <2>1, <2>2
  <1>3. ASSUME NEW w \in Workers, Followup(w) PROVE Apart(x, y)'
    <2>1. CASE ClaimDecision(w)
      <3>1. PICK row \in outbox \ claimed :
              worker' = [worker EXCEPT ![w] =
                     [step |-> "load", conv |-> ConvOf[row.req], chain |-> 0,
                      req |-> row.req, row |-> row]]
        BY <2>1 DEF ClaimDecision, ClaimFrom
      <3>2. \A v \in Workers : worker[v].row # row
        BY <3>1 DEF IndInv, WorkerInv, TypeOK
      <3> QED
        BY <1>0, <3>1, <3>2 DEF Apart, Executing
    <2>2. CASE LoadDecision(w)
      <3>1. /\ \A v \in Workers : v # w => worker'[v] = worker[v]
            /\ worker'[w].row = worker[w].row /\ worker'[w].req = worker[w].req
        BY <1>0, <2>2 DEF LoadDecision, Step
      <3>2. ASSUME worker[w].row.outcome = "approved", NEW v \in Workers, v # w, Executing(v)
            PROVE  worker[v].req # worker[w].req
        <4>1. WorkerInv(w) /\ WorkerInv(v) /\ Apart(w, v) /\ worker[w].step = "load"
          BY <2>2, <3>2 DEF LoadDecision, Step, IndInv
        <4>2. /\ worker[w].row # NoRow /\ worker[w].row \in outbox
              /\ worker[w].row.req = worker[w].req
              /\ status[worker[w].req] = "approved" /\ worker[w].req \in Requests
          BY <3>2, <4>1 DEF WorkerInv, IndInv, TypeOK, Rows
        <4>3. CASE worker[v].row = NoRow
          BY <3>2, <4>1, <4>2, <4>3 DEF WorkerInv, RequestInv, IndInv
        <4>4. CASE worker[v].row # NoRow
          <5>1. worker[v].row \in outbox /\ worker[v].row.req = worker[v].req
                /\ worker[v].row.outcome = "approved"
            BY <3>2, <4>1, <4>4 DEF WorkerInv
          <5> QED
            BY <3>2, <4>1, <4>2, <5>1, OneApprovedRow DEF Apart
        <4> QED
          BY <4>3, <4>4
      <3>3. Executing(w)' => worker[w].row.outcome = "approved"
        BY <1>0, <2>2 DEF LoadDecision, Step, Executing
      <3> QED
        BY <1>0, <3>1, <3>2, <3>3 DEF Apart, Executing
    <2>3. CASE Answer(w) \/ DeleteDecision(w)
      <3>1. \A v \in Workers : v # w => worker'[v] = worker[v]
        BY <1>3, TasksApart DEF IndInv
      <3>2. worker'[w].row \in {worker[w].row, NoRow} /\ ~Executing(w)'
        <4>1. CASE Answer(w)
          BY <1>0, <4>1 DEF Answer, Step, Executing
        <4>2. CASE DeleteDecision(w)
          BY <1>0, <4>2 DEF DeleteDecision, Executing
        <4> QED
          BY <2>3, <4>1, <4>2
      <3> QED
        BY <1>b, <3>1, <3>2
    <2> QED
      BY <1>3, <2>1, <2>2, <2>3 DEF Followup
  <1>4. ASSUME NEW w \in Workers, AbortWorker(w) PROVE Apart(x, y)'
    BY <1>0, <1>b, <1>4 DEF AbortWorker, Executing
  <1>5. ASSUME \/ \E d \in Staff :
                     \/ \E r \in Requests, o \in {"approved", "denied"} : Decide(d, r, o)
                     \/ EmitDecision(d)
                     \/ AbortDecide(d)
               \/ \E s \in Sweepers : SweepSelect(s) \/ SweepCommit(s) \/ AbortSweep(s)
               \/ \E r \in Requests : Expire(r)
               \/ \E c \in Conversations : Handover(c)
               \/ UNCHANGED vars
        PROVE UNCHANGED worker
    BY <1>5, HandoverEffect
    DEF Decide, DecideFrom, EmitDecision, AbortDecide, SweepSelect, SweepCommit,
                SweepTx, AbortSweep, Expire, Abort, vars
  <1> QED
    BY <1>1, <1>2, <1>3, <1>4, <1>5, <1>a DEF Next

-----------------------------------------------------------------------------
(***************************************************************************)
(* The theorems.                                                           *)
(***************************************************************************)

\* The invariant on rows, decisions and tasks holds in every execution, for any
\* number of requests, members, sweeps, workers, tool calls and aborts.
THEOREM Invariance == Spec => []IndInv
  <1>1. IndInv /\ [Next]_vars => IndInv'
    BY TypeStep, RequestStep, ClaimedStep, RowStep, DeciderStep, WorkerStep, ApartStep
    DEF IndInv
  <1> QED
    BY InitIndInv, <1>1, PTL DEF Spec

\* Every variable keeps its type.
THEOREM TypeCorrect == Spec => []TypeOK
  BY Invariance, PTL DEF IndInv

\* FR-008: no request's side effect happens twice.
THEOREM ExecutedOnce == Spec => []AtMostOneExecution
  <1>1. IndInv => AtMostOneExecution
    BY DEF IndInv, RequestInv, AtMostOneExecution
  <1> QED
    BY Invariance, <1>1, PTL

\* FR-011, FR-013, SC-002: no gated request runs without a recorded approval,
\* and no declined request has run.
THEOREM ApprovalRequired == Spec => []OnlyApprovedRuns
  <1>1. IndInv => OnlyApprovedRuns
    BY DEF IndInv, RequestInv, OnlyApprovedRuns, Executed
  <1> QED
    BY Invariance, <1>1, PTL

\* FR-016: a settled request keeps its status and a decision keeps its author.
THEOREM SettlementPermanent == Spec => SettledForEver
  <1> DEFINE Kept(r) == /\ status[r] \in Settled => status'[r] = status[r]
                        /\ decidedBy[r] # NoOne => decidedBy'[r] = decidedBy[r]
  <1>1. ASSUME IndInv, [Next]_vars, NEW r \in Requests PROVE Kept(r)
    <2> USE DEF requestVars, Settled, Executed, Declined
    <2>0. /\ RequestInv(r) /\ r \in DOMAIN status /\ r \in DOMAIN decidedBy
          /\ \A w \in Workers : WorkerInv(w)
      BY <1>1 DEF IndInv, TypeOK
    <2>a. \A S, T, st : Transition(S, T, st) =>
            status'[r] = IF r \in S /\ status[r] \in T THEN st ELSE status[r]
      BY <1>1 DEF Transition
    <2>1. ASSUME NEW w \in Workers, Generation(w) PROVE Kept(r)
      <3>1. CASE EndGeneration(w)
        BY <2>a, <3>1, EndGenerationEffect
      <3>2. CASE ~EndGeneration(w)
        BY <2>0, <2>1, <3>2 DEF Generation, StartGeneration, RefuseRequest, AutoRequest,
                                ApprovalRequest, InsertRequest, PostHolding
      <3> QED
        BY <3>1, <3>2
    <2>2. ASSUME NEW w \in Workers, Execution(w) \/ Followup(w) \/ AbortWorker(w)
          PROVE  Kept(r)
      <3>1. decidedBy' = decidedBy
        BY <2>2 DEF Execution, MarkExecuting, RunTool, MarkTerminal, Followup, ClaimDecision,
                    ClaimFrom, LoadDecision, Answer, DeleteDecision, AbortWorker, Abort
      <3>2. \/ UNCHANGED status
            \/ Transition({worker[w].req}, {"pending", "approved"}, "executing")
            \/ \E st \in Executed : Transition({worker[w].req}, {"executing"}, st)
        BY <2>2 DEF Execution, MarkExecuting, RunTool, MarkTerminal, Followup, ClaimDecision,
                    ClaimFrom, LoadDecision, Answer, DeleteDecision, AbortWorker, Abort
      <3> QED
        BY <2>a, <3>1, <3>2
    <2>3. ASSUME NEW d \in Staff,
                 \/ \E q \in Requests, o \in {"approved", "denied"} : Decide(d, q, o)
                 \/ EmitDecision(d)
                 \/ AbortDecide(d)
          PROVE  Kept(r)
      BY <2>0, <2>3 DEF Decide, DecideFrom, EmitDecision, AbortDecide, Abort, RequestInv
    <2>4. ASSUME NEW s \in Sweepers, SweepSelect(s) \/ SweepCommit(s) \/ AbortSweep(s)
          PROVE  Kept(r)
      BY <2>a, <2>4 DEF SweepSelect, SweepCommit, SweepTx, AbortSweep, Abort
    <2>5. ASSUME \/ \E q \in Requests : Expire(q)
                 \/ \E c \in Conversations : Handover(c)
                 \/ UNCHANGED vars
          PROVE  Kept(r)
      BY <2>a, <2>5, HandoverEffect DEF Expire, vars
    <2> QED
      BY <1>1, <2>1, <2>2, <2>3, <2>4, <2>5 DEF Next
  <1>2. IndInv /\ [Next]_vars => [\A r \in Requests : Kept(r)]_vars
    BY <1>1
  <1> QED
    BY Invariance, <1>2, PTL DEF Spec, SettledForEver

\* No two responder tasks hold one decision row, and none holds a deleted one.
THEOREM ClaimsHeldOnce == Spec => []ClaimsExclusive
  <1>1. IndInv => ClaimsExclusive
    BY DEF IndInv, WorkerInv, Apart, ClaimsExclusive
  <1> QED
    BY Invariance, <1>1, PTL

-----------------------------------------------------------------------------
(***************************************************************************)
(* Refinement.                                                             *)
(***************************************************************************)

\* The phase of each status.
LEMMA PhaseValues ==
  /\ Phase("none") = "new" /\ Phase("awaiting_approval") = "asked"
  /\ Phase("pending") = "granted" /\ Phase("approved") = "granted"
  /\ Phase("executing") = "running"
  /\ \A st \in Executed : Phase(st) = "done"
  /\ \A st \in Declined : Phase(st) = "declined"
  BY DEF Phase, Executed, Declined

\* A guarded UPDATE moves the phases of the rows it matches.
LEMMA TransitionMoves ==
  ASSUME TypeOK, NEW S, NEW T, NEW from, NEW st, Transition(S, T, st),
         \A x \in T : Phase(x) \in from
  PROVE  Protocol!Move({r \in Requests : r \in S /\ status[r] \in T}, from, Phase(st))
  BY DEF Transition, Protocol!Move, TypeOK

\* So does an INSERT or UPDATE of one row.
LEMMA OneMoves ==
  ASSUME TypeOK, NEW r \in Requests, NEW from, NEW st,
         status' = [status EXCEPT ![r] = st], Phase(status[r]) \in from
  PROVE  Protocol!Move({r}, from, Phase(st))
  BY DEF Protocol!Move, TypeOK

\* Every step of the code is a step of the protocol or leaves it alone: what
\* FR-008, FR-011, FR-013, FR-014 and FR-016 promise together.
THEOREM Refinement == Spec => ImplementsProtocol
  <1>1. Init => Protocol!Init
    BY PhaseValues DEF Init, Protocol!Init
  <1>2. IndInv /\ [Next]_vars => [Protocol!Next]_(Protocol!vars)
    <2> SUFFICES ASSUME IndInv, [Next]_vars
                 PROVE  Protocol!Next \/ UNCHANGED <<status, executions>>
      BY DEF Protocol!vars
    <2>0. /\ TypeOK
          /\ \A w \in Workers : WorkerInv(w)
          /\ \A r \in Requests : RequestInv(r)
      BY DEF IndInv
    <2>a. ASSUME NEW S, NEW st \in {"cancelled", "expired"},
                 Transition(S, {"awaiting_approval"}, st), executions' = executions
          PROVE  Protocol!Next
      <3>1. Phase("awaiting_approval") \in {"new", "asked"} /\ Phase(st) = "declined"
        BY PhaseValues DEF Declined
      <3>2. Protocol!Decline({r \in Requests : r \in S /\ status[r] \in {"awaiting_approval"}})
        BY <2>0, <2>a, <3>1, TransitionMoves DEF Protocol!Decline
      <3> QED
        BY <3>2 DEF Protocol!Next
    <2>1. ASSUME NEW w \in Workers, Generation(w)
          PROVE  Protocol!Next \/ UNCHANGED <<status, executions>>
      <3>1. ASSUME NEW r \in Requests, RefuseRequest(w, r) PROVE Protocol!Next
        <4>1. Protocol!Move({r}, {"new", "asked"}, "declined") /\ executions' = executions
          BY <2>0, <3>1, OneMoves, PhaseValues
          DEF RefuseRequest, InsertRequest, Declined, counters
        <4> QED
          BY <4>1 DEF Protocol!Next, Protocol!Decline
      <3>2. ASSUME NEW r \in Requests, AutoRequest(w, r) PROVE Protocol!Next
        <4>1. Protocol!Move({r}, {"new", "asked"}, "granted") /\ executions' = executions
          BY <2>0, <3>2, OneMoves, PhaseValues DEF AutoRequest, InsertRequest, counters
        <4> QED
          BY <4>1 DEF Protocol!Next, Protocol!Grant
      <3>3. ASSUME NEW r \in Requests, ApprovalRequest(w, r) PROVE Protocol!Next
        <4>1. Protocol!Move({r}, {"new"}, "asked") /\ executions' = executions
          BY <2>0, <3>3, OneMoves, PhaseValues DEF ApprovalRequest, InsertRequest, counters
        <4> QED
          BY <4>1 DEF Protocol!Next, Protocol!Ask
      <3>4. CASE EndGeneration(w)
        BY <2>a, <3>4, EndGenerationEffect
      <3>5. CASE PostHolding(w) \/ \E c \in Conversations : StartGeneration(w, c)
        BY <3>5 DEF PostHolding, StartGeneration, counters
      <3> QED
        BY <2>1, <3>1, <3>2, <3>3, <3>4, <3>5 DEF Generation
    <2>2. ASSUME NEW w \in Workers, MarkExecuting(w)
          PROVE  Protocol!Next \/ UNCHANGED <<status, executions>>
      <3> DEFINE r == worker[w].req
      <3>1. r \in Requests /\ status[r] \in {"pending", "approved"} /\ executions[r] = 0
        BY <2>0, <2>2 DEF MarkExecuting, Step, WorkerInv, Executing
      <3>2. {x \in Requests : x \in {r} /\ status[x] \in {"pending", "approved"}} = {r}
        BY <3>1
      <3>3. executions' = executions
        BY <2>2 DEF MarkExecuting
      <3>4. ASSUME Transition({r}, {"pending", "approved"}, "executing") PROVE Protocol!Next
        <4>1. Protocol!Move({r}, {"granted"}, "running")
          BY <2>0, <3>2, <3>4, TransitionMoves, PhaseValues
        <4> QED
          BY <3>1, <3>3, <4>1 DEF Protocol!Next, Protocol!Start
      <3> QED
        BY <2>2, <3>3, <3>4 DEF MarkExecuting
    <2>3. ASSUME NEW w \in Workers, RunTool(w) PROVE Protocol!Next
      <3> DEFINE r == worker[w].req
      <3>1. /\ r \in Requests /\ executions[r] = 0
            /\ status[r] \in {"pending", "approved", "executing"}
        BY <2>0, <2>3 DEF RunTool, Step, WorkerInv, Executing
      <3>2. executions' = [executions EXCEPT ![r] = executions[r] + 1] /\ status' = status
        BY <2>3 DEF RunTool
      <3>3. executions' = [executions EXCEPT ![r] = 1]
        BY <3>1, <3>2
      <3>4. Protocol!TakeEffect(r)
        BY <3>1, <3>2, <3>3, PhaseValues DEF Protocol!TakeEffect
      <3> QED
        BY <3>1, <3>4 DEF Protocol!Next
    <2>4. ASSUME NEW w \in Workers, MarkTerminal(w)
          PROVE  Protocol!Next \/ UNCHANGED <<status, executions>>
      <3> DEFINE r == worker[w].req
      <3>1. r \in Requests /\ executions[r] = 1
        BY <2>0, <2>4 DEF MarkTerminal, WorkerInv, Executing
      <3>2. PICK st \in Executed : Transition({r}, {"executing"}, st)
        BY <2>4 DEF MarkTerminal
      <3>3. executions' = executions
        BY <2>4 DEF MarkTerminal, counters
      <3>4. ASSUME status[r] = "executing" PROVE Protocol!Next
        <4>1. {x \in Requests : x \in {r} /\ status[x] \in {"executing"}} = {r}
          BY <3>1, <3>4
        <4>2. Protocol!Move({r}, {"running"}, "done")
          BY <2>0, <3>2, <4>1, TransitionMoves, PhaseValues
        <4> QED
          BY <3>1, <3>3, <4>2 DEF Protocol!Next, Protocol!Finish
      <3>5. ASSUME status[r] # "executing" PROVE status' = status
        BY <2>0, <3>2, <3>5 DEF Transition, IndInv, TypeOK
      <3> QED
        BY <3>3, <3>4, <3>5
    <2>5. ASSUME NEW d \in Staff, NEW r \in Requests, NEW o \in {"approved", "denied"},
                 Decide(d, r, o)
          PROVE  Protocol!Next
      <3>1. /\ status[r] = "awaiting_approval" /\ status' = [status EXCEPT ![r] = o]
            /\ executions' = executions
        BY <2>5 DEF Decide, DecideFrom, counters
      <3>2. Protocol!Move({r}, {"new", "asked"}, Phase(o))
        BY <2>0, <3>1, OneMoves, PhaseValues
      <3>3. CASE o = "approved"
        BY <3>1, <3>2, <3>3, PhaseValues DEF Protocol!Next, Protocol!Grant
      <3>4. CASE o = "denied"
        <4>1. Protocol!Decline({r})
          BY <3>1, <3>2, <3>4, PhaseValues DEF Protocol!Decline, Declined
        <4> QED
          BY <4>1 DEF Protocol!Next
      <3> QED
        BY <3>3, <3>4
    <2>6. ASSUME NEW s \in Sweepers, SweepCommit(s) PROVE Protocol!Next
      BY <2>a, <2>6 DEF SweepCommit, SweepTx, counters
    <2>7. ASSUME NEW c \in Conversations, Handover(c)
          PROVE  Protocol!Next \/ UNCHANGED <<status, executions>>
      BY <2>a, <2>7, HandoverEffect
    <2>8. ASSUME \/ \E w \in Workers : Followup(w) \/ AbortWorker(w)
                 \/ \E d \in Staff : EmitDecision(d) \/ AbortDecide(d)
                 \/ \E s \in Sweepers : SweepSelect(s) \/ AbortSweep(s)
                 \/ \E r \in Requests : Expire(r)
                 \/ UNCHANGED vars
          PROVE  UNCHANGED <<status, executions>>
      BY <2>8 DEF Followup, ClaimDecision, ClaimFrom, LoadDecision, Answer, DeleteDecision,
                  AbortWorker, EmitDecision, AbortDecide, SweepSelect, AbortSweep, Expire,
                  Abort, counters, vars
    <2> QED
      BY <2>1, <2>2, <2>3, <2>4, <2>5, <2>6, <2>7, <2>8 DEF Next, Execution
  <1> QED
    BY Invariance, <1>1, <1>2, PTL DEF Spec, ImplementsProtocol, Protocol!Spec

=============================================================================
