---------------------------- MODULE ToolApproval ----------------------------
(***************************************************************************)
(* The life of a tool request: crates/modules/tools (approval, queries,    *)
(* executor), the tool loop and the follow-up generation of the AI engine  *)
(* (crates/modules/ai/src/engine.rs) and the agent responder worker that   *)
(* claims "ai.tool_decision" rows of the outbox.                           *)
(*                                                                         *)
(* Several server processes share one database, so every statement that    *)
(* commits on its own is an action of its own: a handler, a sweep or a     *)
(* worker may be overtaken between two of them, or die there.              *)
(***************************************************************************)
EXTENDS Naturals, FiniteSets

CONSTANTS
  Requests,       \* ids of tool_requests rows
  Conversations,
  ConvOf,         \* the conversation a request belongs to
  Staff,          \* decide handlers in flight, one per deciding member
  Sweepers,       \* expiry sweep tasks, one per server process
  Workers,        \* agent responder tasks, one per server process
  MaxToolCalls,   \* MAX_TOOL_CALLS_PER_GENERATION
  MaxAborts,      \* bound: tasks and statements lost to a crash or database error
  NoReq, NoRow, NoConv, NoOne

ASSUME ConvOfAssumption == ConvOf \in [Requests -> Conversations]
ASSUME BoundsAssumption == MaxToolCalls \in Nat /\ MaxAborts \in Nat
ASSUME NullAssumption ==
  /\ NoReq \notin Requests
  /\ NoConv \notin Conversations
  /\ NoOne \notin Staff
ASSUME EmitterAssumption == Staff \cap Sweepers = {}

VARIABLES
  status,      \* tool_requests.status, "none" before the row is inserted
  gated,       \* rows with approval_required
  held,        \* gated rows whose generation posted its holding message
  overdue,     \* rows with expires_at < now()
  decidedBy,   \* tool_requests.decided_by_membership_id
  outbox,      \* ai.tool_decision rows
  claimed,     \* those with claimed_at set
  worker,      \* what each responder task is doing
  decider,     \* what each decide handler has left to do
  sweeper,     \* rows a sweep selected and has not updated yet
  cancelTasks, \* conversations with a spawned cancel task
  escalated,   \* conversations with an open escalation
  executions,  \* how often the tool's side effect happened
  followups,   \* follow-up replies posted for a request
  unanswered,  \* requests whose follow-up generation failed
  aborts

vars == <<status, gated, held, overdue, decidedBy, outbox, claimed, worker,
          decider, sweeper, cancelTasks, escalated, executions, followups,
          unanswered, aborts>>

-----------------------------------------------------------------------------
Executed == {"succeeded", "failed", "timed_out"}
Declined == {"refused", "denied", "expired", "cancelled"}
Settled  == Executed \cup Declined
Statuses == Settled \cup
            {"none", "pending", "awaiting_approval", "approved", "executing"}

Outcomes == {"approved", "denied", "expired"}

\* One outbox row. A handler and a sweep emit at most one row per request, so
\* the emitter stands for the row's id.
Rows == [req : Requests, outcome : Outcomes, by : Staff \cup Sweepers]

ASSUME NoRowAssumption == NoRow \notin Rows

Steps == {"idle", "generating", "hold", "load", "mark", "run", "settle",
          "answer", "delete"}

WorkerStates == [step : Steps,
                 conv : Conversations \cup {NoConv},
                 chain : 0..MaxToolCalls,
                 req : Requests \cup {NoReq},
                 row : Rows \cup {NoRow}]

IdleWorker == [step |-> "idle", conv |-> NoConv, chain |-> 0,
               req |-> NoReq, row |-> NoRow]

DeciderStates == [step : {"idle", "emit"},
                  req : Requests \cup {NoReq},
                  outcome : {"approved", "denied"}]

IdleDecider == [step |-> "idle", req |-> NoReq, outcome |-> "denied"]

TypeOK ==
  /\ status \in [Requests -> Statuses]
  /\ gated \in SUBSET Requests
  /\ held \in SUBSET Requests
  /\ overdue \in SUBSET Requests
  /\ decidedBy \in [Requests -> Staff \cup {NoOne}]
  /\ outbox \in SUBSET Rows
  /\ claimed \in SUBSET Rows
  /\ worker \in [Workers -> WorkerStates]
  /\ decider \in [Staff -> DeciderStates]
  /\ sweeper \in [Sweepers -> SUBSET Requests]
  /\ cancelTasks \in SUBSET Conversations
  /\ escalated \in SUBSET Conversations
  /\ executions \in [Requests -> Nat]
  /\ followups \in [Requests -> Nat]
  /\ unanswered \in SUBSET Requests
  /\ aborts \in 0..MaxAborts

Init ==
  /\ status = [r \in Requests |-> "none"]
  /\ gated = {}
  /\ held = {}
  /\ overdue = {}
  /\ decidedBy = [r \in Requests |-> NoOne]
  /\ outbox = {}
  /\ claimed = {}
  /\ worker = [w \in Workers |-> IdleWorker]
  /\ decider = [d \in Staff |-> IdleDecider]
  /\ sweeper = [s \in Sweepers |-> {}]
  /\ cancelTasks = {}
  /\ escalated = {}
  /\ executions = [r \in Requests |-> 0]
  /\ followups = [r \in Requests |-> 0]
  /\ unanswered = {}
  /\ aborts = 0

-----------------------------------------------------------------------------
(* Helpers.                                                                *)

Awaiting(c) == {r \in Requests : ConvOf[r] = c /\ status[r] = "awaiting_approval"}

\* Mutant: the UPDATE without its status guard.
UnguardedTransition(rs, from, to) ==
  status' = [r \in Requests |-> IF r \in rs THEN to ELSE status[r]]

\* A guarded UPDATE: the rows of rs whose status is in from get status to.
Transition(rs, from, to) ==
  status' = [r \in Requests |->
               IF r \in rs /\ status[r] \in from THEN to ELSE status[r]]

Step(w, from, to) ==
  /\ worker[w].step = from
  /\ worker' = [worker EXCEPT ![w].step = to]

\* INSERT INTO tool_requests by the tool loop of worker w, which moves on to
\* step with the new row in hand; every call advances chain_index.
InsertRequest(w, r, st, step) ==
  /\ worker[w].step = "generating"
  /\ worker[w].chain < MaxToolCalls
  /\ status[r] = "none"
  /\ ConvOf[r] = worker[w].conv
  /\ status' = [status EXCEPT ![r] = st]
  /\ worker' = [worker EXCEPT ![w].step = step,
                              ![w].req = IF step = "generating" THEN NoReq ELSE r,
                              ![w].chain = @ + 1]

\* route_new_escalation with cancel_pending_for_conversation in its transaction.
Escalate(c) ==
  /\ escalated' = escalated \cup {c}
  /\ Transition(Awaiting(c), {"awaiting_approval"}, "cancelled")

requestVars == <<held, overdue, decidedBy>>
queueVars   == <<outbox, claimed>>
otherTasks  == <<decider, sweeper, cancelTasks>>
counters    == <<executions, followups, unanswered, aborts>>

-----------------------------------------------------------------------------
(* The generation that requests tools: run_generation's tool loop.         *)

\* The responder claimed a customer message of c and passed its gates, one of
\* which is that no escalation is open.
StartGeneration(w, c) ==
  /\ worker[w].step = "idle"
  /\ c \notin escalated
  /\ \E r \in Requests : ConvOf[r] = c /\ status[r] = "none"
  /\ worker' = [worker EXCEPT ![w] = [step |-> "generating", conv |-> c, chain |-> 0,
                                     req |-> NoReq, row |-> NoRow]]
  /\ UNCHANGED <<status, gated, escalated, requestVars, queueVars, otherTasks, counters>>

\* The tool is unknown, disabled, or its arguments do not match the schema.
RefuseRequest(w, r) ==
  /\ InsertRequest(w, r, "refused", "generating")
  /\ UNCHANGED <<gated, escalated, requestVars, queueVars, otherTasks, counters>>

\* An auto-approved tool: the row starts "pending" and is executed at once.
AutoRequest(w, r) ==
  /\ InsertRequest(w, r, "pending", "mark")
  /\ UNCHANGED <<gated, escalated, requestVars, queueVars, otherTasks, counters>>

\* Mutant: the row is inserted without approval_required.
UnflaggedRequest(w, r) ==
  /\ InsertRequest(w, r, "awaiting_approval", "hold")
  /\ UNCHANGED <<gated, escalated, requestVars, queueVars, otherTasks, counters>>

\* An approval-required tool ends the chain.
ApprovalRequest(w, r) ==
  /\ InsertRequest(w, r, "awaiting_approval", "hold")
  /\ gated' = gated \cup {r}
  /\ UNCHANGED <<escalated, requestVars, queueVars, otherTasks, counters>>

\* The holding message is committed and the generation ends. Nothing checks
\* whether the conversation was escalated meanwhile.
PostHolding(w) ==
  /\ worker[w].step = "hold"
  /\ held' = held \cup {worker[w].req}
  /\ worker' = [worker EXCEPT ![w] = IdleWorker]
  /\ UNCHANGED <<status, gated, overdue, decidedBy, escalated, queueVars,
                 otherTasks, counters>>

\* The generation ends. It is superseded by a newer message, a reply or an
\* escalation: then a task is spawned that cancels whatever the conversation
\* has awaiting approval. A provider failure, superseded or not, escalates
\* the conversation and cancels its pending requests in one transaction, which
\* PostgreSQL aborts as a whole when an escalation is already open.
EndGeneration(w) ==
  LET c == worker[w].conv IN
  /\ worker[w].step = "generating"
  /\ \E superseded, providerFailed \in BOOLEAN :
       /\ c \in escalated => superseded
       /\ cancelTasks' = IF superseded /\ Awaiting(c) # {}
                           THEN cancelTasks \cup {c} ELSE cancelTasks
       /\ IF providerFailed /\ c \notin escalated THEN Escalate(c)
          ELSE UNCHANGED <<status, escalated>>
  /\ worker' = [worker EXCEPT ![w] = IdleWorker]
  /\ UNCHANGED <<gated, requestVars, queueVars, decider, sweeper, counters>>

RunCancelTask(c) ==
  /\ c \in cancelTasks
  /\ cancelTasks' = cancelTasks \ {c}
  /\ Transition(Awaiting(c), {"awaiting_approval"}, "cancelled")
  /\ UNCHANGED <<gated, escalated, requestVars, queueVars, worker, decider,
                 sweeper, counters>>

-----------------------------------------------------------------------------
(* Decisions.                                                              *)

\* decide: the guarded UPDATE commits by itself. When it matches no row the
\* handler answers 409 and changes nothing.
DecideFrom(from, d, r, outcome) ==
  /\ decider[d].step = "idle"
  /\ status[r] \in from
  /\ status' = [status EXCEPT ![r] = outcome]
  /\ decidedBy' = [decidedBy EXCEPT ![r] = d]
  /\ decider' = [decider EXCEPT ![d] = [step |-> "emit", req |-> r, outcome |-> outcome]]
  /\ UNCHANGED <<gated, held, overdue, escalated, queueVars, worker, sweeper,
                 cancelTasks, counters>>

\* Mutant: a decision overrides an earlier one.
DecideAgain(d, r, outcome) ==
  DecideFrom({"awaiting_approval", "approved", "denied"}, d, r, outcome)

Decide(d, r, outcome) == DecideFrom({"awaiting_approval"}, d, r, outcome)

\* The second transaction of decide: the outbox row.
EmitDecision(d) ==
  /\ decider[d].step = "emit"
  /\ outbox' = outbox \cup {[req |-> decider[d].req,
                             outcome |-> decider[d].outcome, by |-> d]}
  /\ decider' = [decider EXCEPT ![d] = IdleDecider]
  /\ UNCHANGED <<status, gated, escalated, requestVars, claimed, worker,
                 sweeper, cancelTasks, counters>>

\* The approval window of a request runs out.
Expire(r) ==
  /\ status[r] = "awaiting_approval"
  /\ r \notin overdue
  /\ overdue' = overdue \cup {r}
  /\ UNCHANGED <<status, gated, held, decidedBy, escalated, queueVars, worker,
                 otherTasks, counters>>

\* sweep_expired reads the overdue rows outside any transaction ...
SweepSelect(s) ==
  LET due == {r \in overdue : status[r] = "awaiting_approval"} IN
  /\ sweeper[s] = {}
  /\ due # {}
  /\ sweeper' = [sweeper EXCEPT ![s] = due]
  /\ UNCHANGED <<status, gated, escalated, requestVars, queueVars, worker,
                 decider, cancelTasks, counters>>

\* ... then updates those of them in status from and emits rows for emitted.
SweepTx(s, from, emitted) ==
  /\ sweeper[s] # {}
  /\ Transition(sweeper[s], from, "expired")
  /\ outbox' = outbox \cup
       {[req |-> r, outcome |-> "expired", by |-> s] : r \in emitted}
  /\ sweeper' = [sweeper EXCEPT ![s] = {}]
  /\ UNCHANGED <<gated, escalated, requestVars, claimed, worker, decider,
                 cancelTasks, counters>>

\* Mutants: the UPDATE overwrites a decision; it misses; no row is emitted.
SweepOverwrites(s) == SweepTx(s, {"awaiting_approval", "denied"}, sweeper[s])
SweepMisses(s)     == SweepTx(s, {"pending"}, sweeper[s])
SweepSilently(s)   == SweepTx(s, {"awaiting_approval"}, {})

\* Mutant: the sweep signs as the member who decided.
SweepSigns(s) ==
  /\ sweeper[s] # {}
  /\ Transition(sweeper[s], {"awaiting_approval"}, "expired")
  /\ decidedBy' = [r \in Requests |-> IF r \in sweeper[s] THEN s ELSE decidedBy[r]]
  /\ sweeper' = [sweeper EXCEPT ![s] = {}]
  /\ UNCHANGED <<gated, held, overdue, escalated, queueVars, worker, decider,
                 cancelTasks, counters>>

\* A row is emitted for every request the sweep read, updated or not.
SweepCommit(s) == SweepTx(s, {"awaiting_approval"}, sweeper[s])

-----------------------------------------------------------------------------
(* Humans entering the conversation.                                       *)

\* Claiming an escalation, taking over a conversation and an escalation rule
\* cancel the pending requests in their transaction.
TakeOver(c) ==
  /\ Escalate(c)
  /\ UNCHANGED <<gated, requestVars, queueVars, worker, otherTasks, counters>>

\* POST /tenant/conversations/{id}/escalate leaves them alone.
StaffEscalate(c) ==
  /\ c \notin escalated
  /\ escalated' = escalated \cup {c}
  /\ UNCHANGED <<status, gated, requestVars, queueVars, worker, otherTasks, counters>>

\* The conversation was resolved or closed: the escalation worker closes it.
CloseEscalation(c) ==
  /\ c \in escalated
  /\ escalated' = escalated \ {c}
  /\ UNCHANGED <<status, gated, requestVars, queueVars, worker, otherTasks, counters>>

-----------------------------------------------------------------------------
(* The follow-up generation.                                               *)

\* now() is the start of the inserting transaction, so a row may become
\* visible after a younger one: any unclaimed row can be the oldest visible.
ClaimFrom(w, rows) ==
  /\ worker[w].step = "idle"
  /\ \E row \in rows :
       /\ claimed' = claimed \cup {row}
       /\ worker' = [worker EXCEPT ![w] =
                       [step |-> "load", conv |-> ConvOf[row.req], chain |-> 0,
                        req |-> row.req, row |-> row]]
  /\ UNCHANGED <<status, gated, escalated, requestVars, outbox, otherTasks, counters>>

\* Mutant: the claim does not look at claimed_at.
ClaimTwice(w) == ClaimFrom(w, outbox)

ClaimDecision(w) == ClaimFrom(w, outbox \ claimed)

\* Mutant: anything but a denial runs the tool.
LoadUnlessDenied(w) ==
  /\ Step(w, "load", IF worker[w].row.outcome # "denied" THEN "mark" ELSE "answer")
  /\ UNCHANGED <<status, gated, escalated, requestVars, queueVars, otherTasks, counters>>

\* Only the row's outcome decides whether the tool runs.
LoadDecision(w) ==
  /\ Step(w, "load", IF worker[w].row.outcome = "approved" THEN "mark" ELSE "answer")
  /\ UNCHANGED <<status, gated, escalated, requestVars, queueVars, otherTasks, counters>>

\* mark_executing. Both callers bind its Result and never look at it: whether
\* it matched a row, or failed in the database, the tool is executed next.
MarkExecuting(w) ==
  /\ Step(w, "mark", "run")
  /\ \/ /\ Transition({worker[w].req}, {"pending", "approved"}, "executing")
        /\ UNCHANGED aborts
     \/ /\ aborts < MaxAborts
        /\ aborts' = aborts + 1
        /\ UNCHANGED status
  /\ UNCHANGED <<gated, escalated, requestVars, queueVars, otherTasks,
                 executions, followups, unanswered>>

\* executor::execute: the side effect.
RunTool(w) ==
  /\ Step(w, "run", "settle")
  /\ executions' = [executions EXCEPT ![worker[w].req] = @ + 1]
  /\ UNCHANGED <<status, gated, escalated, requestVars, queueVars, otherTasks,
                 followups, unanswered, aborts>>

\* mark_terminal, then back to the tool loop or on to the follow-up answer. A
\* row that never became "executing" is not matched and keeps its status.
MarkTerminal(w) ==
  /\ worker[w].step = "settle"
  /\ \E st \in Executed : Transition({worker[w].req}, {"executing"}, st)
  /\ worker' = [worker EXCEPT
       ![w].step = IF worker[w].row = NoRow THEN "generating" ELSE "answer",
       ![w].req = IF worker[w].row = NoRow THEN NoReq ELSE @]
  /\ UNCHANGED <<gated, escalated, requestVars, queueVars, otherTasks, counters>>

\* The single-shot answer is posted, or the provider fails and only a failed
\* generation is recorded. Neither branch looks at the conversation.
Answer(w) ==
  /\ Step(w, "answer", "delete")
  /\ \/ /\ followups' = [followups EXCEPT ![worker[w].req] = @ + 1]
        /\ UNCHANGED unanswered
     \/ /\ unanswered' = unanswered \cup {worker[w].req}
        /\ UNCHANGED followups
  /\ UNCHANGED <<status, gated, escalated, requestVars, queueVars, otherTasks,
                 executions, aborts>>

DeleteDecision(w) ==
  /\ worker[w].step = "delete"
  /\ outbox' = outbox \ {worker[w].row}
  /\ claimed' = claimed \ {worker[w].row}
  /\ worker' = [worker EXCEPT ![w] = IdleWorker]
  /\ UNCHANGED <<status, gated, escalated, requestVars, otherTasks, counters>>

-----------------------------------------------------------------------------
(* A task dies with its process, or a database error ends it early. A row   *)
(* it had claimed stays claimed: nothing resets claimed_at for this queue.  *)

Abort ==
  /\ aborts < MaxAborts
  /\ aborts' = aborts + 1
  /\ UNCHANGED <<status, gated, escalated, requestVars, queueVars, executions,
                 followups, unanswered>>

AbortWorker(w) ==
  /\ worker[w].step # "idle"
  /\ worker' = [worker EXCEPT ![w] = IdleWorker]
  /\ Abort
  /\ UNCHANGED otherTasks

AbortDecide(d) ==
  /\ decider[d].step = "emit"
  /\ decider' = [decider EXCEPT ![d] = IdleDecider]
  /\ Abort
  /\ UNCHANGED <<worker, sweeper, cancelTasks>>

AbortSweep(s) ==
  /\ sweeper[s] # {}
  /\ sweeper' = [sweeper EXCEPT ![s] = {}]
  /\ Abort
  /\ UNCHANGED <<worker, decider, cancelTasks>>

AbortCancel(c) ==
  /\ c \in cancelTasks
  /\ cancelTasks' = cancelTasks \ {c}
  /\ Abort
  /\ UNCHANGED <<worker, decider, sweeper>>

-----------------------------------------------------------------------------
Generation(w) ==
  \/ \E c \in Conversations : StartGeneration(w, c)
  \/ \E r \in Requests : RefuseRequest(w, r) \/ AutoRequest(w, r) \/ ApprovalRequest(w, r)
  \/ PostHolding(w)
  \/ EndGeneration(w)

Execution(w) == MarkExecuting(w) \/ RunTool(w) \/ MarkTerminal(w)

Followup(w) ==
  \/ ClaimDecision(w)
  \/ LoadDecision(w)
  \/ Answer(w)
  \/ DeleteDecision(w)

Handover(c) ==
  \/ TakeOver(c)
  \/ StaffEscalate(c)
  \/ CloseEscalation(c)
  \/ RunCancelTask(c)
  \/ AbortCancel(c)

Next ==
  \/ \E w \in Workers :
       Generation(w) \/ Execution(w) \/ Followup(w) \/ AbortWorker(w)
  \/ \E d \in Staff :
       \/ \E r \in Requests, o \in {"approved", "denied"} : Decide(d, r, o)
       \/ EmitDecision(d)
       \/ AbortDecide(d)
  \/ \E s \in Sweepers : SweepSelect(s) \/ SweepCommit(s) \/ AbortSweep(s)
  \/ \E r \in Requests : Expire(r)
  \/ \E c \in Conversations : Handover(c)

Spec == Init /\ [][Next]_vars

(***************************************************************************)
(* Every task that has started goes on (tokio polls it); the sweep and the *)
(* clock never stop. The worker claims the oldest row first, so a decision *)
(* cannot be overtaken for ever by younger rows: strong fairness. Whether  *)
(* a member decides, or a customer writes, is up to them.                  *)
(***************************************************************************)
Fairness ==
  /\ \A w \in Workers :
       /\ SF_vars(ClaimDecision(w))
       /\ WF_vars(PostHolding(w) \/ EndGeneration(w))
       /\ WF_vars(Execution(w))
       /\ WF_vars(LoadDecision(w) \/ Answer(w) \/ DeleteDecision(w))
  /\ \A d \in Staff : WF_vars(EmitDecision(d))
  /\ \A s \in Sweepers : WF_vars(SweepSelect(s)) /\ WF_vars(SweepCommit(s))
  /\ \A r \in Requests : WF_vars(Expire(r))
  /\ \A c \in Conversations : WF_vars(RunCancelTask(c))

FairSpec == Spec /\ Fairness

(***************************************************************************)
(* The refinement mapping to ToolProtocol.                                 *)
(***************************************************************************)
Phase(st) ==
  CASE st = "none"                     -> "new"
    [] st = "awaiting_approval"        -> "asked"
    [] st \in {"pending", "approved"}  -> "granted"
    [] st = "executing"                -> "running"
    [] st \in Executed                 -> "done"
    [] st \in Declined                 -> "declined"

Protocol == INSTANCE ToolProtocol WITH
  phase   <- [r \in Requests |-> Phase(status[r])],
  effects <- executions

\* The database protocol of the engine, the decide handlers, the sweeps and the
\* responders keeps the feature's promise, in every step and not only in every
\* state: no decision is revoked, no effect happens without a grant, none
\* happens before or after a decline, none is followed by another start, and no
\* outcome is recorded before the effect. It survives a mark_executing that
\* fails and is ignored: the effect then happens while the row says "granted".
ImplementsProtocol == Protocol!Spec

-----------------------------------------------------------------------------
(* Properties.                                                             *)

\* FR-008: no interleaving of the tool loop, decide handlers, sweeps and
\* responder tasks runs a request's side effect twice, although
\* mark_executing's result is ignored (engine.rs) and rows may be duplicated.
AtMostOneExecution == \A r \in Requests : executions[r] <= 1

\* FR-011, FR-013, SC-002: a request that needs approval runs only if a member
\* is on record as having approved it, and one that was refused, denied,
\* expired or cancelled has not run and is not declined afterwards, whatever
\* decision rows are in the outbox. When mark_executing fails, the row of a
\* request that ran stays "pending" or "approved" for ever: no statement that
\* declines a request matches those.
OnlyApprovedRuns ==
  \A r \in Requests : executions[r] > 0 =>
    /\ status[r] \in Executed \cup {"pending", "approved", "executing"}
    /\ r \in gated => decidedBy[r] # NoOne

\* A request's record is permanent: once it is declined or executed no
\* handler, sweep, cancel task or late worker changes its status, and a
\* decision once recorded keeps its author.
SettledForEver ==
  [][\A r \in Requests :
       /\ status[r] \in Settled => status'[r] = status[r]
       /\ decidedBy[r] # NoOne => decidedBy'[r] = decidedBy[r]]_vars

\* The responder never holds two claims on one decision row, and every row it
\* works on is still in the table: what FOR UPDATE SKIP LOCKED is for.
ClaimsExclusive ==
  \A w \in Workers : worker[w].row # NoRow =>
    /\ worker[w].row \in outbox \cap claimed
    /\ \A v \in Workers : v # w => worker[v].row # worker[w].row

\* No approval stays open for ever (FR-013).
ApprovalWindowCloses ==
  \A r \in Requests :
    status[r] = "awaiting_approval" ~> status[r] # "awaiting_approval"

\* While no task dies, every approval, denial and expiry reaches a follow-up
\* generation: it posts an answer or records its failure.
EveryDecisionFollowedUp ==
  \A r \in Requests :
    status[r] \in {"approved", "denied", "expired"} ~>
      (followups[r] > 0 \/ r \in unanswered)

-----------------------------------------------------------------------------
(* What the feature's specification says and the code does not do.         *)

\* specs/022-ai-tool-calling FR-014: "Concurrent decisions on the same pending
\* request MUST resolve to exactly one effective decision".
OneEffectiveDecision == \A r \in Requests : followups[r] <= 1

\* FR-015: a pending request of an escalated conversation is cancelled.
EscalationCancelsPending ==
  \A r \in Requests : ConvOf[r] \in escalated => status[r] # "awaiting_approval"

\* FR-015: "a pending approval whose requesting generation completed (interim
\* message posted) survives new customer messages until decided or expired".
HeldApprovalSurvives ==
  [][\A r \in held : status[r] = "awaiting_approval" /\ status'[r] = "cancelled"
       => ConvOf[r] \in escalated']_vars

\* FR-010, SC-006: a decision never leaves the customer without a reply.
EveryDecisionAnswered ==
  \A r \in Requests :
    status[r] \in {"approved", "denied", "expired"} ~>
      (followups[r] > 0 \/ ConvOf[r] \in escalated)

-----------------------------------------------------------------------------
(* The inductive invariant behind AtMostOneExecution and OnlyApprovedRuns. *)

Executing(w) == worker[w].step \in {"mark", "run", "settle"}

RequestInv(r) ==
  /\ executions[r] <= 1
  /\ executions[r] > 0 =>
       status[r] \in Executed \cup {"pending", "approved", "executing"}
  /\ r \in gated <=> status[r] \in {"awaiting_approval", "approved", "denied",
                                   "expired", "cancelled"}
                  \/ decidedBy[r] # NoOne
  /\ decidedBy[r] # NoOne =>
       status[r] \in Executed \cup {"approved", "denied", "executing"}
  /\ status[r] \in {"approved", "denied"} => decidedBy[r] # NoOne

\* An "approved" row is the decider's, and the only one of its request.
RowInv(row) ==
  row.outcome = "approved" =>
    /\ row.by = decidedBy[row.req]
    /\ row.by \in Staff
    /\ status[row.req] \in Executed \cup {"approved", "executing"}
    /\ row \notin claimed => status[row.req] = "approved" /\ executions[row.req] = 0

DeciderInv(d) ==
  decider[d].step = "emit" =>
    /\ decider[d].req \in Requests
    /\ decidedBy[decider[d].req] = d
    /\ status[decider[d].req] = decider[d].outcome
    /\ executions[decider[d].req] = 0
    /\ \A row \in outbox :
         row.outcome = "approved" => row.req # decider[d].req

WorkerInv(w) ==
  LET st  == worker[w].step
      r   == worker[w].req
      row == worker[w].row
  IN
  /\ st # "idle" => worker[w].conv \in Conversations
  /\ st \in {"idle", "generating", "hold"} => row = NoRow
  /\ st \in {"load", "answer", "delete"} => row # NoRow
  /\ row # NoRow => row \in outbox \cap claimed /\ r = row.req
  /\ st = "hold" => r \in Requests
  /\ st = "load" /\ row.outcome = "approved" =>
       status[r] = "approved" /\ executions[r] = 0
  /\ Executing(w) =>
       /\ r \in Requests
       /\ IF row = NoRow THEN r \notin gated ELSE row.outcome = "approved"
  /\ st = "mark" => status[r] = (IF row = NoRow THEN "pending" ELSE "approved")
  /\ st \in {"run", "settle"} => status[r] \in {"pending", "approved", "executing"}
  /\ st \in {"mark", "run"} => executions[r] = 0
  /\ st = "settle" => executions[r] = 1

\* Two tasks never hold one row, nor execute one request.
Apart(w, v) ==
  /\ worker[w].row # NoRow => worker[w].row # worker[v].row
  /\ Executing(w) /\ Executing(v) => worker[w].req # worker[v].req

IndInv ==
  /\ TypeOK
  /\ claimed \subseteq outbox
  /\ \A r \in Requests : RequestInv(r)
  /\ \A row \in outbox : RowInv(row)
  /\ \A d \in Staff : DeciderInv(d)
  /\ \A w \in Workers : WorkerInv(w)
  /\ \A w, v \in Workers : w # v => Apart(w, v)

=============================================================================
