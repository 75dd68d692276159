--------------------------- MODULE AgentResponder ---------------------------
(***************************************************************************)
(* The AI agent responder (ai/src/agent_responder.rs) and the engine that  *)
(* answers customer messages (ai/src/engine.rs), for one conversation.     *)
(*                                                                         *)
(* Every committed customer message leaves a row in outbox_events.  The    *)
(* responders of all servers claim rows, delete the older unclaimed ones   *)
(* of the conversation, pass a series of gates, read the history, call the *)
(* provider, look again whether the answer is still wanted and post it.    *)
(* Each statement commits on its own.  A message is identified by its rank *)
(* in created_at, which is the start of the transaction that inserts it:   *)
(* messages may become visible in another order.                           *)
(*                                                                         *)
(* Tool requests are those of ToolApproval; here a generation may end in   *)
(* one that awaits a decision.  Escalations are those of EscalationRouting.*)
(***************************************************************************)
EXTENDS Naturals, FiniteSets

CONSTANTS
  Messages,      \* customer messages, numbered by created_at
  Workers,       \* responder tasks, one per server process
  HistoryLimit,  \* how many messages the engine loads
  MaxStaff,      \* bound: what staff and configuration change
  MaxAborts,     \* bound: tasks that die
  NoMsg

ASSUME MessagesAssumption == Messages \subseteq Nat \ {0} /\ IsFiniteSet(Messages)
ASSUME BoundsAssumption == HistoryLimit \in Nat /\ MaxStaff \in Nat /\ MaxAborts \in Nat
ASSUME NullAssumption == NoMsg \notin Messages

VARIABLES
  begun,      \* messages whose transaction has started
  visible,    \* messages committed
  queue,      \* unclaimed conversation.customer_message rows
  coalesced,  \* coalesced[m]: the claimed message in whose favour m's row was deleted
  task,       \* what each responder is doing
  replies,    \* AI messages: answers, holding messages, follow-ups
  system,     \* has a system message (acknowledgement or fallback) been posted
  record,     \* the outcome in ai_generations, per triggering message
  pending,    \* messages whose generation waits for a tool decision
  decisions,  \* unclaimed ai.tool_decision rows
  config,     \* the tenant's live agent: present, not on this channel, or none
  handling,   \* conversations.ai_handling
  ended,      \* status is resolved or closed
  closing,    \* an end whose status_changed row is not handled yet
  escalated,  \* an escalation is open
  staff, aborts

desk == <<config, handling, ended, closing, escalated, staff>>
thread == <<begun, visible, replies, system>>
vars == <<queue, coalesced, task, record, pending, decisions, aborts, desk, thread>>

Outcomes == {"success", "superseded", "cancelled_escalation", "fallback", "awaiting"}
Results == {"none", "text", "superseded", "escalated", "failed", "not configured", "internal"}
Steps == {"idle", "coalesce", "config", "unconfigured", "gate", "escalation", "rules",
          "assemble", "generate", "newer", "recheck", "post", "hold", "fallback", "ack",
          "follow up", "follow-up call", "follow-up post", "delete"}

Task == [step : Steps, msg : Messages \cup {NoMsg}, persona : BOOLEAN,
         read : SUBSET Messages, result : Results, late : BOOLEAN]
Reply == [to : Messages, kind : {"reply", "holding", "follow-up"}, after : SUBSET Messages,
          read : SUBSET Messages]

Idle == [step |-> "idle", msg |-> NoMsg, persona |-> FALSE, read |-> {}, result |-> "none",
         late |-> FALSE]

Newest(S) == {m \in S : \A n \in S : n <= m}
Oldest(S) == {m \in S : \A n \in S : m <= n}

\* A customer message committed with a later created_at than m's.
HasNewer(m) == \E n \in visible : n > m

\* An AI message, a holding message included, created after m.
HasReplySince(m) == \E r \in replies : m \in r.after

\* The place of m among the messages of customers and the agent, by created_at.
Rank(m) ==
  Cardinality({n \in visible : n <= m}) + Cardinality({r \in replies : m \notin r.after})

\* recent_history: the oldest HistoryLimit of them.
History == {m \in visible : Rank(m) <= HistoryLimit}

\* m is behind that many: recent_history does not load it, now or ever again.
BeyondHistory(m) == Rank(m) > HistoryLimit

Init ==
  /\ begun = {} /\ visible = {} /\ queue = {} /\ pending = {} /\ decisions = {}
  /\ coalesced = [m \in Messages |-> NoMsg]
  /\ task = [w \in Workers |-> Idle]
  /\ replies = {}
  /\ system = FALSE
  /\ record = [m \in Messages |-> "none"]
  /\ config \in {"agent", "other channels", "none"}
  /\ handling = "unset"
  /\ ended = FALSE /\ closing = FALSE /\ escalated = FALSE
  /\ staff = 0 /\ aborts = 0

-----------------------------------------------------------------------------
(* Customers and staff.                                                    *)

BeginMessage(m) ==
  /\ m \notin begun
  /\ \A n \in Messages : n < m => n \in begun
  /\ begun' = begun \cup {m}
  /\ UNCHANGED <<queue, coalesced, task, record, pending, decisions, aborts, desk,
                 visible, replies, system>>

\* add_message_in_tx and emit_customer_message_in_tx; an ended conversation is
\* opened again.
CommitMessage(m) ==
  /\ m \in begun \ visible
  /\ visible' = visible \cup {m}
  /\ queue' = queue \cup {m}
  /\ ended' = FALSE
  /\ UNCHANGED <<coalesced, task, record, pending, decisions, aborts, config, handling,
                 closing, escalated, staff, begun, replies, system>>

Staffed == staff < MaxStaff /\ staff' = staff + 1

Escalate ==
  /\ Staffed
  /\ ~escalated /\ ~ended
  /\ escalated' = TRUE
  /\ UNCHANGED <<config, handling, ended, closing>>

End ==
  /\ Staffed
  /\ ~ended
  /\ ended' = TRUE /\ closing' = TRUE
  /\ UNCHANGED <<config, handling, escalated>>

\* The escalation worker handles the status_changed row, now or after a reopening.
CloseEscalation ==
  /\ closing
  /\ closing' = FALSE
  /\ escalated' = FALSE
  /\ UNCHANGED <<config, handling, ended, staff>>

\* set_conversation_ai_handling: only without an agent of the tenant's own; a human
\* stays.
Handled(mode) ==
  /\ Staffed
  /\ ~ended /\ ~escalated
  /\ config = "none"
  /\ handling # "human"
  /\ handling' = mode
  /\ UNCHANGED <<config, ended, closing>>

UsePlatformAI == Handled("platform_ai") /\ UNCHANGED <<escalated, pending>>

\* Taking over opens an escalation in the same transaction.
TakeOver == Handled("human") /\ escalated' = TRUE /\ pending' = {}

\* The tenant's live agent is published, limited to other channels, or deleted.
Configure ==
  /\ Staffed
  /\ config' \in {"agent", "other channels", "none"} \ {config}
  /\ UNCHANGED <<handling, ended, closing, escalated>>

Desk ==
  /\ \/ (Escalate \/ End \/ CloseEscalation \/ Configure) /\ UNCHANGED pending
     \/ UsePlatformAI
     \/ TakeOver
  /\ UNCHANGED <<queue, coalesced, task, record, decisions, aborts, thread>>

\* A held request is decided or expires, which leaves a row, or it is cancelled.
Decide(m) ==
  /\ m \in pending
  /\ pending' = pending \ {m}
  /\ decisions' \in {decisions, decisions \cup {m}}
  /\ UNCHANGED <<queue, coalesced, task, record, aborts, desk, thread>>

-----------------------------------------------------------------------------
(* The responder: from the claim to the call of the provider.              *)

Go(w, t) == task' = [task EXCEPT ![w] = t]
At(w, step) == task[w].step = step
To(w, step) == Go(w, [task[w] EXCEPT !.step = step])

\* Mutant: the claim does not take the row.
ClaimWithoutLock(w) ==
  /\ At(w, "idle")
  /\ \E m \in Oldest(queue) : Go(w, [Idle EXCEPT !.step = "coalesce", !.msg = m])
  /\ UNCHANGED <<queue, coalesced, record, pending, decisions, aborts, desk, thread>>

\* Mutant: rows of messages that an AI message follows are passed over.
ClaimUnanswered(w) ==
  /\ At(w, "idle")
  /\ \E m \in Oldest({n \in queue : ~HasReplySince(n)}) :
       /\ queue' = queue \ {m}
       /\ Go(w, [Idle EXCEPT !.step = "coalesce", !.msg = m])
  /\ UNCHANGED <<coalesced, record, pending, decisions, aborts, desk, thread>>

\* One row, the oldest unclaimed one, FOR UPDATE SKIP LOCKED.
ClaimMessage(w) ==
  /\ At(w, "idle")
  /\ \E m \in Oldest(queue) :
       /\ queue' = queue \ {m}
       /\ Go(w, [Idle EXCEPT !.step = "coalesce", !.msg = m])
  /\ UNCHANGED <<coalesced, record, pending, decisions, aborts, desk, thread>>

Coalesce(w) ==
  LET older == {m \in queue : m < task[w].msg} IN
  /\ At(w, "coalesce")
  /\ queue' = queue \ older
  /\ coalesced' = [m \in Messages |-> IF m \in older THEN task[w].msg ELSE coalesced[m]]
  /\ To(w, "config")
  /\ UNCHANGED <<record, pending, decisions, aborts, desk, thread>>

\* The row holds the enabled channels: that gate depends on nothing read later.
LoadConfig(w) ==
  /\ At(w, "config")
  /\ To(w, CASE config = "none" -> "unconfigured"
             [] config = "other channels" -> "delete"
             [] OTHER -> "gate")
  /\ UNCHANGED <<queue, coalesced, record, pending, decisions, aborts, desk, thread>>

\* No agent: silence for ended and human conversations, one acknowledgement unless
\* someone turned the platform's assistant on.
Unconfigured(w) ==
  /\ At(w, "unconfigured")
  /\ \/ /\ ended \/ handling = "human"
        /\ To(w, "delete")
     \/ /\ ~ended /\ handling = "unset"
        /\ To(w, IF system THEN "delete" ELSE "ack")
     \/ /\ ~ended /\ handling = "platform_ai"
        /\ Go(w, [task[w] EXCEPT !.step = "assemble", !.persona = TRUE])
  /\ UNCHANGED <<queue, coalesced, record, pending, decisions, aborts, desk, thread>>

Ack(w) ==
  /\ At(w, "ack")
  /\ system' = TRUE
  /\ To(w, "delete")
  /\ UNCHANGED <<queue, coalesced, record, pending, decisions, aborts, desk, begun, visible,
                 replies>>

Gate(w) ==
  /\ At(w, "gate")
  /\ To(w, IF ended THEN "delete" ELSE "escalation")
  /\ UNCHANGED <<queue, coalesced, record, pending, decisions, aborts, desk, thread>>

Recorded(w, outcome) == record' = [record EXCEPT ![task[w].msg] = outcome]

GateEscalation(w) ==
  /\ At(w, "escalation")
  /\ \/ escalated /\ Recorded(w, "cancelled_escalation") /\ To(w, "delete")
     \/ ~escalated /\ UNCHANGED record /\ To(w, "rules")
  /\ UNCHANGED <<queue, coalesced, pending, decisions, aborts, desk, thread>>

\* A rule matches and opens an escalation, which cancels held requests; if one is open
\* by now, the transaction fails.  Or the billing gate pauses the agent; or neither.
Rules(w) ==
  /\ At(w, "rules")
  /\ \/ ~escalated /\ escalated' = TRUE /\ pending' = {} /\ To(w, "delete")
     \/ /\ \E step \in {"delete", "assemble"} : To(w, step)
        /\ UNCHANGED <<escalated, pending>>
  /\ UNCHANGED <<queue, coalesced, record, decisions, aborts, config, handling, ended,
                 closing, staff, thread>>

Assemble(w) ==
  /\ At(w, "assemble")
  /\ Go(w, [task[w] EXCEPT !.step = "generate", !.read = History])
  /\ UNCHANGED <<queue, coalesced, record, pending, decisions, aborts, desk, thread>>

-----------------------------------------------------------------------------
(* The engine: from the provider's answer to the end.                      *)

\* The tool chain of run_generation ends in an answer, a failure or a request that
\* needs approval; while text streams in, newer messages and escalations are noticed.
Generate(w) ==
  /\ At(w, "generate")
  /\ \/ /\ \E result \in {"text", "failed", "not configured", "internal"} :
             Go(w, [task[w] EXCEPT !.step = "newer", !.result = result])
        /\ UNCHANGED pending
     \/ /\ HasNewer(task[w].msg)
        /\ Go(w, [task[w] EXCEPT !.step = "newer", !.result = "superseded"])
        /\ UNCHANGED pending
     \/ /\ escalated
        /\ Go(w, [task[w] EXCEPT !.step = "newer", !.result = "escalated"])
        /\ UNCHANGED pending
     \/ /\ pending' = pending \cup {task[w].msg}
        /\ To(w, "hold")
  /\ UNCHANGED <<queue, coalesced, record, decisions, aborts, desk, thread>>

Post(w, kind) ==
  replies' = replies \cup {[to |-> task[w].msg, kind |-> kind, after |-> begun,
                            read |-> task[w].read]}

\* The holding message is posted without a second look.
Hold(w) ==
  /\ At(w, "hold")
  /\ Post(w, "holding")
  /\ Recorded(w, "awaiting")
  /\ To(w, "delete")
  /\ UNCHANGED <<queue, coalesced, pending, decisions, aborts, desk, begun, visible, system>>

CheckNewer(w) ==
  /\ At(w, "newer")
  /\ Go(w, [task[w] EXCEPT !.step = "recheck", !.late = HasNewer(task[w].msg)])
  /\ UNCHANGED <<queue, coalesced, record, pending, decisions, aborts, desk, thread>>

\* The rest of the second look.  A failure is not asked whether it is superseded.
Recheck(w) ==
  LET t == task[w]
      unwanted == t.late \/ escalated \/ HasReplySince(t.msg)
  IN
  /\ At(w, "recheck")
  /\ \/ t.result = "text" /\ ~unwanted /\ To(w, "post") /\ UNCHANGED record
     \/ /\ t.result \in {"superseded", "escalated"} \/ (t.result = "text" /\ unwanted)
        /\ Recorded(w, IF escalated \/ t.result = "escalated"
                         THEN "cancelled_escalation" ELSE "superseded")
        /\ To(w, "delete")
     \/ t.result = "failed" /\ To(w, "fallback") /\ UNCHANGED record
     \/ /\ t.result = "not configured"
        /\ To(w, IF t.persona /\ ~system THEN "ack" ELSE "delete")
        /\ UNCHANGED record
     \/ t.result = "internal" /\ To(w, "delete") /\ UNCHANGED record
  /\ UNCHANGED <<queue, coalesced, pending, decisions, aborts, desk, thread>>

\* Mutant: the rows are coalesced when the answer is posted.
PostAndCoalesce(w) ==
  /\ At(w, "post")
  /\ Post(w, "reply")
  /\ Recorded(w, "success")
  /\ queue' = {}
  /\ coalesced' = [m \in Messages |-> IF m \in queue THEN task[w].msg ELSE coalesced[m]]
  /\ To(w, "delete")
  /\ UNCHANGED <<pending, decisions, aborts, desk, begun, visible, system>>

PostReply(w) ==
  /\ At(w, "post")
  /\ Post(w, "reply")
  /\ Recorded(w, "success")
  /\ To(w, "delete")
  /\ UNCHANGED <<queue, coalesced, pending, decisions, aborts, desk, begun, visible, system>>

\* The fallback message and its escalation are one transaction: an escalation that is
\* already open makes the second insert fail and the COMMIT a ROLLBACK, and the outcome
\* is recorded as a fallback in both cases.
Fallback(w) ==
  /\ At(w, "fallback")
  /\ \/ ~escalated /\ escalated' = TRUE /\ system' = TRUE /\ pending' = {}
     \/ escalated /\ UNCHANGED <<escalated, system, pending>>
  /\ Recorded(w, "fallback")
  /\ To(w, "delete")
  /\ UNCHANGED <<queue, coalesced, decisions, aborts, config, handling, ended, closing,
                 staff, begun, visible, replies>>

\* Mutant: the task forgets to let go of its message.
DeleteAndKeep(w) ==
  /\ At(w, "delete")
  /\ To(w, "idle")
  /\ UNCHANGED <<queue, coalesced, record, pending, decisions, aborts, desk, thread>>

DeleteRow(w) ==
  /\ At(w, "delete")
  /\ Go(w, Idle)
  /\ UNCHANGED <<queue, coalesced, record, pending, decisions, aborts, desk, thread>>

-----------------------------------------------------------------------------
(* run_followup_generation: no gate and no second look.                    *)

ClaimDecision(w) ==
  /\ At(w, "idle")
  /\ \E m \in decisions :
       /\ decisions' = decisions \ {m}
       /\ Go(w, [Idle EXCEPT !.step = "follow up", !.msg = m])
  /\ UNCHANGED <<queue, coalesced, record, pending, aborts, desk, thread>>

FollowUp(w) ==
  /\ At(w, "follow up")
  /\ Go(w, [task[w] EXCEPT !.step = "follow-up call", !.read = History])
  /\ UNCHANGED <<queue, coalesced, record, pending, decisions, aborts, desk, thread>>

FollowUpCall(w) ==
  /\ At(w, "follow-up call")
  /\ \E step \in {"follow-up post", "delete"} : To(w, step)
  /\ UNCHANGED <<queue, coalesced, record, pending, decisions, aborts, desk, thread>>

FollowUpPost(w) ==
  /\ At(w, "follow-up post")
  /\ Post(w, "follow-up")
  /\ To(w, "delete")
  /\ UNCHANGED <<queue, coalesced, record, pending, decisions, aborts, desk, begun, visible,
                 system>>

-----------------------------------------------------------------------------
\* A process dies, or a database error ends the task: the claimed row stays behind.
Abort(w) ==
  /\ ~At(w, "idle")
  /\ aborts < MaxAborts
  /\ aborts' = aborts + 1
  /\ Go(w, Idle)
  /\ UNCHANGED <<queue, coalesced, record, pending, decisions, desk, thread>>

Answering(w) ==
  \/ Coalesce(w) \/ LoadConfig(w) \/ Unconfigured(w) \/ Ack(w) \/ Gate(w)
  \/ GateEscalation(w) \/ Rules(w) \/ Assemble(w) \/ Generate(w) \/ Hold(w)
  \/ CheckNewer(w) \/ Recheck(w) \/ PostReply(w) \/ Fallback(w) \/ DeleteRow(w)
  \/ FollowUp(w) \/ FollowUpCall(w) \/ FollowUpPost(w)

Next ==
  \/ \E m \in Messages : BeginMessage(m) \/ CommitMessage(m) \/ Decide(m)
  \/ Desk
  \/ \E w \in Workers : ClaimMessage(w) \/ ClaimDecision(w) \/ Answering(w) \/ Abort(w)

Spec == Init /\ [][Next]_vars

(***************************************************************************)
(* A started task goes on, the responders poll, and the claim is ordered   *)
(* by created_at.  Customers, staff and decisions are up to themselves.    *)
(***************************************************************************)
Fairness ==
  /\ \A w \in Workers : WF_vars(Answering(w))
  /\ \A w \in Workers : SF_vars(ClaimMessage(w)) /\ WF_vars(ClaimDecision(w))

FairSpec == Spec /\ Fairness

-----------------------------------------------------------------------------
(* Properties.                                                             *)

TypeOK ==
  /\ begun \subseteq Messages /\ visible \subseteq begun
  /\ queue \subseteq visible
  /\ coalesced \in [Messages -> Messages \cup {NoMsg}]
  /\ task \in [Workers -> Task]
  /\ \A w \in Workers : (task[w].msg = NoMsg) <=> (task[w].step = "idle")
  /\ replies \subseteq Reply
  /\ record \in [Messages -> Outcomes \cup {"none"}]
  /\ pending \subseteq visible /\ decisions \subseteq visible
  /\ config \in {"agent", "other channels", "none"}
  /\ handling \in {"unset", "platform_ai", "human"}
  /\ {ended, closing, escalated, system} \subseteq BOOLEAN
  /\ staff \in 0..MaxStaff /\ aborts \in 0..MaxAborts

-----------------------------------------------------------------------------
\* No message is passed over wrongly.  An answer was written by someone who read the message
\* it answers and every one that was coalesced into it, except those behind HistoryLimit
\* older messages, which the engine never loads (recent_history, a finding): no row is
\* dropped in favour of a history that was read before its message was committed.  And a
\* message that is given up as superseded is not the last word: a newer one of the customer
\* or an AI message created after it exists.
PassedOverRightly ==
  /\ \A r \in replies : r.kind = "reply" =>
       \A m \in Messages : (m = r.to \/ coalesced[m] = r.to) =>
         m \in r.read \/ BeyondHistory(m)
  /\ \A m \in Messages : record[m] = "superseded" =>
       (\E n \in visible : n > m) \/ (\E r \in replies : m \in r.after)

Answers == {r \in replies : r.kind = "reply"}

\* However responders overtake each other, a message triggers at most one answer.
OneAnswerEach == \A r, q \in Answers : r.to = q.to => r = q

Tended(m) == m \notin queue /\ \A w \in Workers : task[w].msg # m

\* Every customer message's row is settled: claimed and finished or given up, or
\* coalesced, whatever the other responders do and even if one dies on the way.
EveryMessageSettles == \A m \in Messages : m \in visible ~> Tended(m)

\* spec 021, FR-012 and FR-016: a message is given up only for a newer one or for an
\* answer that accounts for it.
EveryMessageAnswered ==
  \A m \in Messages :
    record[m] = "superseded" =>
      (HasNewer(m) \/ \E r \in replies : m \in r.after /\ m \in r.read)
=============================================================================
