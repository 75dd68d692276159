# Formal model of the customer-service chat system

TLA+ modules for the backend in `src/backend`: what its handlers, background
tasks and database statements do to the state they share, checked by TLC on
small instances and, where marked *proved*, by TLAPS for every value of the
constants. Paths below are relative to `src/backend/crates/modules` unless they
start with `src/`.

## 1. The system

One Rust binary (`src/backend/crates/server`) serves the HTTP API and spawns the
background tasks; several instances of it run against one PostgreSQL
(`src/docs/architecture/system-architecture.md`). Producers write a state change and a row of
`outbox_events`; every consumer polls that table with `FOR UPDATE SKIP LOCKED`
and must tolerate repeats (ADR-007). Nothing but the database is shared between
instances, so the unit of atomicity of every model is **one committed statement
or transaction**, and the unit of concurrency is one handler or task.

| Component | State | Operations | Interacts with | What is hard | What makes it correct |
|---|---|---|---|---|---|
| `tools` | `tool_requests` (status, approver, expiry), policies, tenant tools | insert by the tool loop, decide, expire, cancel, mark executing / terminal | AI engine, responder, escalations | decision, expiry, cancellation and execution race; event written apart from the decision | one execution at most, only what was approved, one decision, one answer |
| `ai` engine | generations, in-process tool loop | generate with retries, tool chain, reply, holding message, fallback, follow-up | tools, conversations, escalations, billing, providers | gates read long before they are used; retries; superseded generations | no reply into a conversation a human owns, no effect repeated by a retry |
| `ai` responder | claimed outbox rows | claim, coalesce, gate, rules, generate, delete | conversations (producer), engine | claims are never released; coalescing races a running generation | each customer message answered, held or escalated once |
| `escalations` | `escalations`, membership availability, skills, presence counters | route, claim, drain, relabel, close, availability, grace revert | conversations, notifications, ai | assignments under two locking schemes, stale events, capacity | one active escalation per conversation, capacity kept, queue drained |
| `conversations` | conversations, messages, assignment, status | add message (reopen), assign, patch, create | producer of most events | status and assignment change under running consumers | events match the state change they announce |
| `notifications` | notifications per recipient | fan-out worker, resolve, read | consumer of most events | repeats and reordering | one notification per event and recipient |
| `whatsapp` | outbound status, attachments, contacts | webhook, sender, media fetch, status updates | conversations, provider | claim by deletion, statuses out of order | statuses only advance, replies leave the queue once |
| `knowledge` | items, index state, chunks | upload, index, retry, delete | object storage, embeddings | two indexers on one item, crash after claim | index reflects the newest text |
| `tenancy` | tenant, members, invitations, sign-up | delivery worker with leases, invite, accept, revoke, update member, suspend | email, sessions | lease expiry against a late answer; handlers that act on what they read before their transaction; last owner | mails end, their status tells the row; an active owner stays; memberships and accepted invitations correspond |
| `billing` | plans, subscription, usage | create, edit, retire, assign, allowance check, record usage | ai engine | check and record far apart; a plan retired while a tenant moves to it | bounded overrun; a plan to fall back on |
| `integrations` | connections, secrets, deliveries | connect, configure, rotate, disconnect, inbound webhook | whatsapp, external services | requests look at the connection and commit later | nothing passes through a connection that is off |
| `ai` calls (`service.rs`, `ai-providers`) | provider configuration, keys, usage ledger; a vendor's stream | resolve, try, fail over, forward, record | model vendors | failover after text has left; answers cut anywhere | the consumer reads one text, the ledger says what he heard; tool calls arrive whole |
| `ai` settings | prompt versions, agent configuration, avatar | save over a version, restore, upload, remove | engine | two editors on one version; two locks in opposite orders | no editor undoes what he was not shown |
| `widgets`, `customers`, `feedback` | widgets, sessions, customers and their identifiers, ratings | find-or-create of customer and conversation, say, rate; staff's edits | conversations | handlers that act on the session they read | the visitor keeps his conversation |
| `shared` | rate limiter windows, budget cache | check, degrade to memory, resolve a budget | routers | boundary of two windows; an outage; stale budgets | limit kept per window; a budget as recent as its cache |
| `identity`, `authz`, `audit`, `analytics`, `platform`, `email` | users, sessions, rows | request-scoped checks, CRUD, reports | all | few multi-step protocols | - |
| frontend | caches of server state | presentation | HTTP API, event streams | - | - |

`PROJECT.json` lists the same components with their source files and status, and,
under `hazards`, each place where something hard to test can go wrong.

## 2. Plan

In the order of what would hurt most ("wrong answers, lost messages, or
double-executed tools destroy trust", `system-architecture.md:17`):

| | Modules | State |
|---|---|---|
| 1 | `ToolApproval`, abstract `ToolProtocol`, `ToolApprovalProofs` | checked, proved |
| 2 | `EscalationRouting`, `EscalationRoutingProofs`, `Presence` | checked, proved |
| 3 | `AgentResponder`: the customer messages of one conversation and the answers to them | checked, proved (`AgentResponderProofs`) |
| 4 | queue consumers: `InvitationDelivery`, `Notifications`, `Knowledge` | checked, proved (`OutboxProofs`, `SettingsProofs`) |
| 5 | channels: `WhatsAppSender`, `WhatsAppInbound`, over `Integrations`; `Visitors` | checked, proved (`ChannelsProofs`) |
| 6 | providers and settings: `AiCalls`, `ProviderStreams`, `AgentSettings`, `ToolRegistry` | checked, proved (`SettingsProofs`, `MCTenancyProofs`) |
| 7 | the tenant: `Tenancy`, `Billing`, `RateLimit`, `TenantBudget`; reads: `Paging` | checked, proved (`TenancyProofs`, `MCTenancyProofs`, `ChannelsProofs`) |

Every safety property that a passing run checks is a theorem as well. What remains: abstract specifications of
the queue consumers, as `ToolProtocol` is one of the approvals; two edits by staff in `EscalationRouting`; several servers in `Presence`.

## 3. Modules

| Module | Contents |
|---|---|
| `ToolProtocol` | what the approval feature promises of one request, as a six-phase protocol |
| `ToolApproval` | the code: tool loop, decide handlers, sweeps, cancel tasks, responders, crashes |
| `EscalationRouting` | routing, claims, drains, edits of conversations and the worker that reacts to them |
| `Presence` | who is connected to a server, the grace timer and its reverts, restarts |
| `AgentResponder` | customer messages, responders that claim, coalesce, pass the gates, generate and post |
| `AiCalls` | one call to the providers: resolution, tries, failover, forwarding, the usage ledger |
| `ProviderStreams` | how the bytes of three vendors become the events `AiCalls` reads |
| `AgentSettings` | prompt versions, agent configuration and avatar under concurrent editors |
| `ToolRegistry` | built-in policies, the tenant's own tools and credentials, offers and calls |
| `Knowledge` | items, index requests, indexers without leases |
| `Notifications` | producers, fan-out workers, resolutions, the inbox |
| `InvitationDelivery` | the mail worker: leases, attempts, dead letters |
| `Tenancy` | roster, invitations, sign-up, suspension, sessions |
| `Billing` | plans, subscription, gate, use |
| `RateLimit`, `TenantBudget` | the sliding window with its fallback, and the cache of budgets |
| `Integrations` | a connection, its secrets, signed deliveries |
| `WhatsAppSender`, `WhatsAppInbound` | replies and their statuses; messages, customers and media, over one connection |
| `Visitors` | widget sessions, customers and identifiers, conversations, feedback |
| `Paging` | pages of the inbox and of a timeline while messages commit |
| `MCToolApproval`, `MCEscalationRouting`, `MCAgentResponder` | constants, symmetry and view of one module |
| `MCTenancy`, `MCOutbox`, `MCChannels`, `MCSettings` | compositions, see below |
| `ToolApprovalProofs`, `EscalationRoutingProofs`, `AgentResponderProofs` | theorems about one module each |
| `TenancyProofs`, `MCTenancyProofs` | theorems about the roster, and about `MCTenancy`, which contains it |
| `OutboxProofs`, `ChannelsProofs`, `SettingsProofs` | theorems about `MCOutbox`, `MCChannels`, `MCSettings` |

**Compositions.** The connection of `Integrations` is shared state: `WhatsAppSender` and `WhatsAppInbound` are
instantiated over its variables, so a disconnect commits between any two statements of a send. Parts that
share no state in the code (the rate limiter and the roster, say) are checked by one run for economy: the
variable `part`, chosen in the initial state, says whose actions a behaviour takes, and every
property is the conjunction of what the parts promise. Their interleaving is left out because
no statement of one reads a row of the other.

### ToolApproval

| State | Code |
|---|---|
| `status`, `gated`, `decidedBy`, `overdue` | `tool_requests.status`, `approval_required`, `decided_by_membership_id`, `expires_at < now()` |
| `outbox`, `claimed` | the `ai.tool_decision` rows of `outbox_events` and their `claimed_at` |
| `worker[w]` | the responder task of one server process: which statement comes next, its `chain_index`, request and row |
| `decider[d]` | a `decide` handler between its `UPDATE` and the transaction of its event |
| `sweeper[s]` | the rows `sweep_expired` selected and has not updated yet |
| `cancelTasks` | conversations with a spawned `cancel_pending_for_conversation` |
| `escalated` | conversations with an open escalation |
| `executions`, `followups`, `unanswered`, `held` | side effects, follow-up replies, failed follow-ups, holding messages |

| Actions | Code |
|---|---|
| `StartGeneration`, `RefuseRequest`, `AutoRequest`, `ApprovalRequest`, `PostHolding`, `EndGeneration` | `ai/src/engine.rs` `run_generation`, from the responder's gates to the end of the tool chain |
| `RunCancelTask` | the task spawned when a generation is superseded |
| `Decide`, `EmitDecision` | `tools/src/approval.rs` `decide`: the guarded `UPDATE` commits alone, the event in a transaction of its own |
| `Expire`, `SweepSelect`, `SweepCommit` | the clock, and `sweep_expired` |
| `TakeOver`, `StaffEscalate`, `CloseEscalation` | the paths by which humans enter and leave, those that cancel pending requests and the one that does not |
| `ClaimDecision`, `LoadDecision`, `MarkExecuting`, `RunTool`, `MarkTerminal`, `Answer`, `DeleteDecision` | the responder's `tool_decision` branch and `run_followup_generation` |
| `Abort*` | a process dies, or a database error ends the task, between any two statements |

Abstracted: argument schemas, policies and the tool's HTTP call (a request is
refused, automatic or gated, and an execution ends in one of three ways); the text
of messages; the tenant (every statement is scoped to one). `EndGeneration` keeps the two
independent outcomes the code distinguishes: superseded or not, provider failed or not.

### EscalationRouting

| State | Code |
|---|---|
| `esc` | the `escalations` rows in the order of `escalated_at`, which is the start of the inserting transaction; "opening" and "refused" stand for rows not (yet) there |
| `stat`, `assignee`, `flagged` | `conversations.status`, `assigned_membership_id`, `escalated_at IS NOT NULL` |
| `available`, `present` | `agent_availability.state`, and the members in the presence registry |
| `outbox`, `claimed` | the `status_changed` and `assignment_changed` rows the worker acts on |
| `lock` | the tenant's advisory lock, held by a transaction that routes or drains |
| `task[t]` | a request (or AI responder) or an outbox worker: its next statement, what it read before waiting (`seen`: the members present; `esc`, `member`: what a drain picked), the rows it has locked (`rel`, `holds`) |
| `ended` | history: escalations whose conversation ended while they were active, or before they were inserted |

| Actions | Code |
|---|---|
| `BeginEscalate`, `TakeLock`, `Route`, `RefuseDuplicate` | `escalate`, the AI's rules, fallback and take-over, and `route_new_escalation_in_tx`: members present and status are read first, then the lock is awaited |
| `Claim` | `claim_in_tx`, the guarded update without the routing lock |
| `GoAvailable`, `Connect`, `PickForMember`, `CommitDrain` | `set_my_availability`, `stream_events` and `drain_one_for_membership_in_tx`: the escalation is read under the lock, then updated by its id |
| `GoAway`, `Disconnect` | the toggle, the revert of an absent member, the end of a stream |
| `Patch`, `Reopen` | `patch_conversation_in_tx` with its events, `add_message_in_tx` on an ended conversation without one |
| `ClaimEvent`, `CloseActive`, `Relabel`, `PickAny`, `CommitDrain`, `DeleteEvent` | `process_escalation_outbox_once`; a relabelling stays uncommitted, its rows locked, while `drain_any_in_tx` waits for the lock in the same transaction |
| `BreakDeadlock`, `Crash` | PostgreSQL ends one of two transactions that wait for each other; a process dies |

Abstracted: skills are a constant `Match`, `open` and `pending` are one status, the final
tie-break by member id is a choice, and rows without an effect on this state (origin
"escalations", a change to `open`) are left out of the outbox. Notifications, audit rows
and the messages of the event stream are not modelled.

### AgentResponder

| State | Code |
|---|---|
| `begun`, `visible` | messages whose transaction began (their rank is `created_at`) and committed ones |
| `queue`, `decisions`, `coalesced` | unclaimed `customer_message` and `tool_decision` rows, and the rows deleted for a newer one |
| `task[w]` | a responder: its next statement, the message it claimed, the history it read |
| `replies`, `record`, `pending` | posted AI messages with what their author had read, `ai_generations.outcome`, generations that wait for a decision |
| `config`, `handling`, `ended`, `closing`, `escalated` | what the gates look at, which staff change |

| Actions | Code |
|---|---|
| `ClaimMessage`, `Coalesce`, `LoadConfig`, `Ack`, `Gate`, `GateEscalation`, `Rules` | `ai/src/agent_responder.rs`, statement by statement |
| `Assemble`, `Generate`, `Hold`, `CheckNewer`, `Recheck`, `PostReply`, `PostAndCoalesce`, `Fallback` | `run_generation` of `ai/src/engine.rs`: gates, history, the call, the second look, the post |
| `ClaimDecision`, `FollowUp`, `FollowUpCall`, `FollowUpPost` | `run_followup_generation` |
| `DeleteRow`, `DeleteAndKeep`, `Abort` | the end of a row, or of the task that held it |

### The other modules

Each module's header names the files it models and what it leaves out; `map` in `PROJECT.json`
gives the lines of every definition. The state variables are the rows named beside them. In short:

- **AiCalls**: `call` is the task of `complete`/`stream` with the attempt and try it is at; `FindPrimary`
  and `FindFallback` read configuration and keys one by one while `Configure` changes either; `Open`, `Delta`,
  `ToolCall`, `Break`, `Finish`, `EndEarly` are a provider's events, any of them; `Leave` drops the stream.
- **ProviderStreams**: `SendText`, `SendCall`, `SendFinish`, `Break` are the vendor, `ReadPart` a chunk that ends inside a
  frame, `ReadFrame` the `*_sse_to_events` function of each vendor with its accumulator `acc`.
- **AgentSettings**: `EditPrompt`, `SaveOver`, `InsertPrompt` with `FOR UPDATE` and the missing row;
  configuration and avatar transactions with their locks `rowBy` and `liveBy`, and `BreakDeadlock`.
- **ToolRegistry**: a handler checks (`StartCreate`, `StartUpdate`), then writes (`Insert`, `Update`); `Resolve` is what
  the engine offers, `CallTenantTool` the call by id later.
- **Knowledge**: `Work(x)` is an indexer's claim, read, embedding and write as steps of their own; `Stop` its
  error or death; `BecomeDue` a delay that ends; staff's requests read first and write later.
- **Notifications**: `Produce` are the transactions that emit, a drain's in steps (`BeginDrain` gives its rows their time, `ReadQueued` picks,
  `DrainEscalation` assigns whatever happened meanwhile); `Claim`, `ResolveRecipients`, `FanOut`, `Resolve`, `Delete`, `Fail`, `Die` the worker.
- **InvitationDelivery**: `Work(s)` buries, claims, mails and ends a row; `LeaseEnds` and `Due` are time.
- **Tenancy**: `BeginRequest` is what a handler reads outside its transaction, `Commit` the
  transaction with its locks and checks, `Refuse` the early returns.
- **Billing**: `LockPlan`, `LockSubscription`, `PutSubscription` are `put_subscription` between its locks; `Ask` is the gate, `Bypass` a reply that
  asks none (the platform's agent, a follow-up), `Reply` the record.
- **RateLimit**: `Begin`, `Increment`, `Weigh` are the clock, the `INCR` and the `GET` of one check, `Degrade` the fallback.
- **TenantBudget**: `Hit`, `Miss`, `Fetch`, `Keep`, `Again` are a resolution between its locks.
- **Integrations**: requests that look at the connection and commit later; deliveries that verify, then record; `Rekey` is a restart with
  another master key, after which older secrets do not open.
- **WhatsAppSender**: `Claim` deletes the row; window, connection, token, call and record follow one by one; `EditNumber` is staff's edit of the
  customer's number, which `Prepare` looks for, and `Sealed` a token that does not open; `ReadStatus` and `WriteStatus` are a webhook.
- **WhatsAppInbound**: the statements of `process_message` as steps of one transaction each, `Conflict` its
  unique violations, `Abort` its other errors, after both of which the provider is told 200 (`GiveUp`); `Work(f)` a media worker, `LoseHeart` its
  way out at a token that does not open, `Drop` its failed statement or death.
- **Visitors**: `Visitor(h)` reads the session, then find-or-creates, says or rates; staff edit customers, conversations and the widget; `Reply`,
  `Answer` and `OpenByNumber` are messages of others, which change which conversation is the latest (`newer`) and so the one that is `Shown`.
- **Presence**: `Connect`, `Leave`, `TakeBack` are a stream and its guard, `Wake` and `Revert` the two halves of the timer, `Restart` the process.
- **Paging**: `BeginWrite`, `InsertMessage`, `Bump` are a transaction of `add_message_in_tx` (its `now()`, its `seq`, its commit); `Open` and `NextPage` a reader.

## 4. What TLC checks

| Run | Question | Bounds | Result |
|---|---|---|---|
| `tool_safety` | Does any interleaving of two servers, two deciding members and an expiry sweep, one task of which dies, execute a request twice or unapproved, rewrite a settled record, or leave the promised protocol? | 2 requests of 1 conversation, 2 members, 1 sweep, 2 workers, 1 abort, chains of 2 | no |
| `tool_live` | Do approvals end, and are decisions followed up, when no task dies? | 2 requests, one task of each kind | yes |
| `routing_safety` | Do routing, drains, claims, closing and relabelling ever leave two active escalations, drain one twice, or lose one from the inbox? | 2 escalations of 1 conversation, 2 members, 2 requests, 1 worker, 1 edit | no |
| `routing_live` | Is the escalation of an ended conversation closed, whatever deadlocks it meets, unless a process dies? | 2 escalations of 1 conversation, one task of each kind, 1 edit, 1 crash | yes |
| `routing_load` | FR-014: does a freed assignee's capacity drain the queue? | 2 conversations, one task of each kind, 1 edit | violated: the worker reads a field no producer writes |
| `responder` | Is a message ever passed over by an answer whose author did not read it, answered twice, or left? | 2 messages, 2 responders, 1 act of staff, 1 abort | no |
| `responder_unanswered` | FR-016: is a message given up only for an answer that accounts for it? | 2 messages, 2 responders | violated: any AI message posted after it counts, whatever history it was written from |
| `tenancy` | Members, tools, plans, limits and answers, one part at a time: do owners, invitations, names, credentials, allowances and calls keep their promises under concurrent handlers? | 2 users and 1 of the staff, 2 invitations, 2 handlers; 2 tools; 3 plans, 2 operators, 2 responders; 2 checks over 2 windows; 2 readers of a budget; 2 calls in an answer | yes |
| `outbox` | Do mails and notifications end, and say the truth, however workers die, lose their lease or overtake each other? | 2 mails, 2 senders, 1 death; 2 members, 2 workers, 3 transactions, 1 mishap | yes |
| `channels` | Connection, WhatsApp, visitors, dashboard and pages, one kind of traffic at a time: does anything pass after a disconnect, twice, or never? | 3 changes of the connection, 1 where messages come in or a notice leaves, any change of the key; 1 reply and 1 notice, or 3 texts or 1 medium with 2 webhooks and 1 failed statement; 1 session, 2 requests, 2 customers, 2 conversations, 2 ratings, 3 acts of staff; 2 members, 2 streams; 3 conversations, 2 messages beyond their first | no |
| `channels_status` | "monotonicity enforcement" (`whatsapp/src/queries.rs:104`): do statuses only rise? | as `channels` | violated: read and written in two statements without a lock |
| `settings` | Do indexers, editors and streams under changing settings keep their promises? | 1 article or 1 document, 2 indexers, 2 requests; 3 editors, 3 versions; 2 providers, 2 tries, 3 changes | yes |

The properties of the passing runs, by the question a reviewer would ask:

*Tool requests*

- `AtMostOneExecution`, `OnlyApprovedRuns`: double execution and unapproved execution, although
  decision rows may be duplicated and `mark_executing`'s result is ignored, database errors included.
  They hold because `approved` is reached once and only the decider emits an approved row. After such
  an error the tool runs while its row reads `approved` or `pending`, and the row stays so (a finding):
  `OnlyApprovedRuns` says that it was approved and that nothing declines it afterwards, not that it is recorded.
- `SettledForEver`: a declined or executed request keeps its status and a decision its
  author, whichever of the guarded updates arrives late.
- `ClaimsExclusive`: what `FOR UPDATE SKIP LOCKED` and the claim column are for.
- `ImplementsProtocol`: refinement of `ToolProtocol` (phase from `status`, effects from `executions`).
  The protocol lets a granted request take effect with or without a recorded start, because the code does.
- `IndInv`: the inductive invariant of the proofs, checked as an invariant first.
- `ApprovalWindowCloses`, `EveryDecisionFollowedUp`: liveness.

*Escalations*

- `OneActive`: the drain's update by id may bring a closed escalation back; that it never
  meets a newer one of the same conversation is due to the routing lock, not to the guards.
- `DrainedOnce`: two drains at once see the same oldest escalation; only the lock parts them.
- `QueuedIsFlagged`: the inbox reads `escalated_at` of the conversation, the queue the
  escalation's row; opening and closing keep the two in step.
- `EndedIsClosed`: liveness, through deadlocks that undo the worker's transaction.

*Answers*

- `PassedOverRightly`: an answer's author read the message it answers and every one coalesced into it, although
  messages commit in another order than their times. The exception is part of the property: a message behind
  `HistoryLimit` older ones (`BeyondHistory`) is never loaded, because `recent_history` takes the oldest 20
  (a finding); the run's limit of 2 is reached. One given up has a newer one or a later AI message.
- `OneAnswerEach`, `EveryMessageSettles`: no message triggers two answers, and none keeps a row for ever.
- `StreamIsCoherent`: the deltas a consumer sees are of one try of one attempt; the ledger's only record agrees
  with what he was told.

*The tenant*

- `MembersAreInvited`, `OwnerRemains`, `JoinsAreFinal`: handlers decide on a role, an invitation and a tenant they read
  before their transaction; the roster lock and the guarded updates make it right.
- `ToolCallsAreSound`: no offered name means two tools, a call carries its own name's credential, and a vendor's
  calls arrive whole, once, and before the end that is for them.
- `PlansAreKept`, `LimitsHold`: a tenant moves to active plans only; asked replies overshoot an allowance by no
  more than what was under way (what nobody asked about comes on top), a window's budget holds; a budget is no older than its cache allows.

*Workers*

- `StatusTellsTheRow`, `EveryMailEnds`: late answers of calls whose lease ran out do not change what was concluded.
- `InboxSettles`, `EverybodyIsTold`: nothing becomes unread again, and a resolution takes a subject from everybody but who took it and who is
  told of it even later (`late`, which the code allows: section 6); whoever may decide is told.
- `IndexTellsTruth`, `EveryRequestEnds`: what says indexed has the chunks of the text it names.

*Channels and settings*

- `OnlyWhileConnected`: no send or delivery that began after a disconnect passes; no member stays
  available without a stream and without a revert under way.
- `NoMessageTwice`: nothing is sent, stored, or shown to a paging reader twice, and of the part he has covered he
  missed nothing that did not move. Messages that webhooks lose, of a number nobody knows yet, are fewer than the webhooks.
- `EveryTransferEnds`, `VisitorKeepsPlace`, `NothingOverwritten`: replies and media end, unless the token does not open, the number is gone or the
  sender died, where the code forgets them (findings); a visitor keeps the conversation he is shown until it ends or another open
  one is later, his rating and his identifier; no editor undoes what he was not shown.

**Bounds.** Two tasks of a kind, and two things for them to work on, cover every pairwise race; one crash between any
two statements covers each crash point once. Beyond that each module's `Max...` constants end its histories:
`MaxChanges`, `MaxStaffActs`, `MaxStaff`, `MaxEdits`, `MaxPatches`, `MaxToggles`, `MaxRequests`, `MaxAssigned` count acts of people;
`MaxDeaths`, `MaxLapses`, `MaxAborts`, `MaxStops`, `MaxMishaps`, `MaxOutages`, `MaxRestarts` faults; `MaxEvents`, `MaxWrites`, `MaxConnects`, `MaxSent`, `MaxTexts`, `MaxUsed`, `MaxCount`
things; `MaxTime`, `MaxSeconds`, `MaxMonths`, `MaxClock` time. `MaxAttempts`, `MaxFetches`, `MaxRetries` and `Tries` are the code's own limits, of
which the last three are smaller than in the code: what matters is the last try and one before it. Two
bounds are assumptions about time rather than size: `RateLimit` has a check end before a window's length has passed, and
`TenantBudget` a request within `MaxReading` seconds. `AiCalls` changes nothing once the call has read what it needs.
`MCTenancy` lets either staff act and roles change with one invitation, or two invitations be made without; `MCChannels`
changes the connection once where texts (of one request) or media come in or a notice leaves, so a disconnect
meets deliveries and replies only; a third act of staff meets the visitors of one customer, not of two.

`tool_safety` uses symmetry over requests, members, sweeps and workers (all are
interchangeable: `ConvOf` is constant and no property orders them) and the view
`WithoutHistory`, which hides `held`, `followups` and `unanswered`; no guard and no
property of that run reads them. `routing_safety` uses symmetry over members (all have the skill) and requests, and a
view without what no guard and no property distinguishes; `tenancy` symmetry over users, invitations and handlers. Runs with
liveness properties use neither. `routing_load` needs two conversations, one whose end
frees the member that the other waits for. Deadlock is checked nowhere: once its bounds are used up, every
bounded instance stops. The deadlocks of PostgreSQL are steps of the models (`BreakDeadlock`).

**Fairness.** A started task goes on (tokio polls every ready future; a statement returns
or fails): weak fairness of its next steps. That covers responders, indexers, senders, fetchers, notification workers and
delivery calls; a provider or mail server answers or its timeout does. Workers poll for ever, leases and delays end: weak fairness of
`Expire`, `SweepSelect`, `SweepCommit`, `LeaseEnds`, `Due`, `BecomeDue`, `ClaimEvent`. The claim of a row is `ORDER BY created_at`,
so it cannot be passed over for ever by younger ones while the worker returns to idle:
strong fairness of `ClaimDecision` in `ToolApproval` and of `ClaimMessage` in `AgentResponder`. PostgreSQL queues the waiters of a lock, so a transaction
that waits for one again and again gets it: strong fairness of the steps of requests and workers in `EscalationRouting`;
a deadlock is detected: weak fairness of `BreakDeadlock`.
Nothing is assumed of members, staff, customers, vendors' content, nor of crashes: where a death loses a row for good,
the property says "unless the worker died".

**Abstraction.** A transaction whose statements cannot be told apart by others is one step; one that reads before it locks, or
whose snapshots differ, is several. Texts are model values, times are ranks, a user is his e-mail
address, an allowance is a number of replies or of conversations. What the code identifies by a
fresh UUID (a claim token) is identified by what made it fresh.

## 5. What is proved

`ToolApprovalProofs`, for any finite or infinite sets of requests, members, sweeps and workers and
any bounds, from the assumptions of `ToolApproval` (each request belongs to a
conversation; the null values are not members of the sets they stand beside; a member is not a sweep):

- `TypeCorrect`, `Invariance` (the inductive invariant), `ExecutedOnce`, `ApprovalRequired`,
  `ClaimsHeldOnce`, `SettlementPermanent`: type correctness and every safety property of `tool_safety`;
- `Refinement`: `Spec => ImplementsProtocol`.

The safety properties are not inductive: `AtMostOneExecution` alone does not survive
`RunTool` because nothing in the state of one worker says another one is not
about to run the same request. `IndInv` adds, per request, that an execution implies a status
that was granted and that approval leaves an author on record (`RequestInv`);
per outbox row, that an *approved* row is the decider's and, while unclaimed,
its request is still `approved` and has not run (`RowInv`); per decide handler, that its request has not
run and no approved row of it exists before it emits its own (`DeciderInv`); per worker, what its current step knows of
its request (`WorkerInv`); and that two workers never hold one row or execute one request (`Apart`).
Each action has a lemma per group of conjuncts; the refinement maps each
step to a step of `ToolProtocol` or a stutter under the invariant.

`EscalationRoutingProofs`, for any sets of conversations, members, requests and servers, any
escalations numbered in the order of their insertion, and any matching of skills, from
`BoundsAssumption` and `NullAssumption` (null values are not members of the sets they
stand beside) and `EscalationsAssumption` (escalations are numbers):

- `TypeCorrect`, `Invariance`, `NeverTwoActive`, `InboxComplete` and `DrainsOnce`: type correctness
  and every safety property of `routing_safety`.

`OneActive` is not inductive, because `CommitDrain` makes an escalation active without looking at its
present status. `IndInv` says what may have become of it since it was read: it may be
claimed, relabelled or closed, but it was not drained and no other escalation of its conversation is
active (`TaskInv`, third conjunct). That is kept because a new escalation needs the lock (first conjunct:
its holder is the task that decides), and because the rows of opening transactions are their own and rows
locked by a relabelling stay active (second and last). Most steps activate nothing: they satisfy
`Kept` for every row and leave other tasks `Still`, so one lemma (`QuietStep`) serves them all; only
`Route` and `CommitDrain` need arguments of their own (`RouteStep`, `DrainStep`).

`AgentResponderProofs`, for any finite set of messages, any responders, any `HistoryLimit` and bounds:

- `TypeCorrect`, `Invariance`, `AnsweredOnce`; `NoMessagePassedOver`: `PassedOverRightly` for any `HistoryLimit`. It needs that
  a message the history does not reach is not reached later either (`BeyondStays`): its rank only grows.

What coalescing relies on is that a message is claimed once. `IndInv` says so of each responder from its claim to the end of its
work (`Claimed`): its row is gone, nobody else works on the message, nobody has answered it; so the rows deleted in a message's
favour are all deleted by the one responder that then reads the history (`Covers`).

The other proof modules are about the compositions. Each part has an invariant of its own, inductive under the part's
own steps and untouched by the others'; their conjunction is the inductive invariant of the composition.

`TenancyProofs` and `MCTenancyProofs`, over `MCTenancy` (`SurroundingsInv`):

- `RosterInv`: what a request read before its transaction and is still true of it (`RequestInv`), and that a member came by
  sign-up or by exactly one accepted invitation (`MemberInv`). From it `MembersInvited`, `OwnerAlwaysLeft`, `JoinsFinal`, the last
  two about steps; `RosterKept` is the same in the composition.
- `ToolsInv`: the index keeps live names apart, and the handlers' checks keep them out of the built-in catalog (`NamesInv`), which is
  why a name that is offered means one tool and the call by id finds its own credential.
- `PlanInv`: a transaction holds an existing plan's row alone, and one that is about to put the tenant on a retired plan renews what the
  tenant has, holding the subscription's row (`WriteInv`). From it `PlansKept`, about steps, and the bounded overshoot, whose
  inductive form counts the asked replies under way and leaves out what nobody asked about since the allowance changed.
- `LimitInv`: every request that a window lets through has a count of its own (`WindowInv`): those it granted and those that still weigh a
  count within the budget are together no more than the counter. Its part about the window before holds while no check has lasted
  into another window or an outage (`straddled`).
- `BudgetInv`: nobody is about to keep a value read before its request began (`AskerInv`).
- `AnswerInv`: where on the wire the pieces of a call are (`PieceInv`), that nothing sent is lost before it is read (`SlotInv`), that an end
  follows all of them (`EndInv`). From it `ToolCallsSound`.

`OutboxProofs`, over `MCOutbox`: `TypeCorrect`, `StatusTrue`, `InboxesSettle`.

- `MailInv`: a mail has left at most once per counted attempt, *those under way included* (`AttemptsCounted`); without the calls under
  way a call that outlives its lease would break the count when it ends.
- `NoteInv`: a resolution in the queue or in a worker's hands was written by the transaction that settled its subject
  (`SettledBy`), and who took a subject has taken it for good (`StoryKept`), so a row handled twice, late or after a drain over a claim
  clears nobody's own notification unless somebody else took the subject too.

`ChannelsProofs`, over `MCChannels`: `TypeCorrect`, `OnlyConnected`, `NoneTwice`, `PlaceKept` (about steps).

- `ConnInv`, `SenderInv`: whoever looks for the token has seen the connection on since it claimed (`OnSince`); a row is held alone and nothing
  of it has left before the call.
- `InboundInv`: a message stored is stored once, because insertion is guarded by its identifier and not by the handler's look; and the
  attempts on a medium plus the workers that hold it stay below `MaxFetches + Cardinality(Fetchers)` (`AttemptsBounded`):
  the claim that finds the last attempt may meet others that took theirs. `LossInv` counts the losses: until the number has a customer only
  failed statements lose a message, after that also the handlers that looked before (`Unaware`), of which the one that stored is no more.
- `SiteInv`: identifiers are disjoint, who is not there has none; a request's conversation and customer exist. So what a visitor was shown
  leaves his widget only when it ends or is overtaken (`KeptShown`), whatever his requests read before. `PresenceInv`: an absent member who counts as available has
  a timer or a revert under way. `PageInv`: the pages so far end at the cursor and lack nothing above it (`WalkInv`).

`SettingsProofs`, over `MCSettings`: `TypeCorrect`, `IndexTruthful`, `NothingLost`, `StreamCoherent`.

- `CallsInv`: where in the plan a call is (`Position`), and that a try that is opened follows no text, while the text there is was sent
  on the try under way (`Heard`). `StreamIsCoherent` alone does not survive a retry.
- `AgentInv`: an editor that is about to restore names an older version and has its text (`Saving`, `Restores`); who holds the configuration's
  row writes over the version it was shown, and keeps an upload only while there is one (`HoldsRow`); who retired the
  live avatar still goes on to insert another (`HoldsLive`).
- `BaseInv`: an indexer that works holds one row alone and, past the extraction, a text that can be indexed (`WorkerInv`). For a lone indexer,
  each published item is settled, or a row of it waits, or the indexer follows it with the item's current text (`ConvergeInv`): an edit meanwhile
  leaves a row of its own. The attempts of an item can pass `MaxRetries`, because edits reset and indexers add in any order; each request
  raises them past it at most once, after which it never embeds again (`Spent`, `AttemptsInv`), which bounds them by
  `MaxRetries + MaxEvents`.

**Assumptions.** All are stated beside the constants (`...Assumption`), and a composing module states those of its parts as `ASSUME`, so
TLC evaluates them on the instances. Besides null values that are no members of the sets they stand beside and bounds that are naturals: users,
responders, rate-limit checks, slots and fetchers are finitely many, since the proofs count them; there is an indexer;
conversations, escalations and tool requests have different identifiers; `Talks` of `Paging` is within `MaxWrites`, as each
conversation begins with a message; every role has a rank.

**Only model-checked.** The liveness properties (`ApprovalWindowCloses`, `EveryDecisionFollowedUp`, `EndedIsClosed`, `EveryMessageSettles`,
`EveryMailEnds`, `EverybodyIsTold`, `EveryTransferEnds`, `EveryRequestEnds`) rest on fairness, whose `ENABLED` is out of the
prover's reach, and the three violations are what TLC found. No recursive function is reasoned about: `RateLimit` and `Paging` state
what is granted and fetched as sets, not as sums or sorted sequences computed step by step.

## 6. Findings

Disagreements of the code with its own specification are listed in `PROJECT.json` under `findings`, with the line
and the sentence they contradict. Three are shown by runs: `LoadDecreaseDrains` (`routing_load`),
`EveryMessageAnswered` (`responder_unanswered`) and `StatusNeverRegresses` (`channels_status`). Others were met
while translating, and the models contain the behaviour: the properties are worded around it, and the comment
beside each says so. `ToolApproval` and `EscalationRouting` state the formulas for some of them
(`EscalationCancelsPending`, `HeldApprovalSurvives`, `EveryDecisionAnswered`, `NeverDropped`); no run is spent on these.

## 7. Not modelled

- The frontend: presentation over the HTTP API and the event streams; its stores are caches of server state.
- Model vendors, mail servers, object storage and Redis: external, seen as success, failure or an outage.
- Reports (audit, analytics, platform), SMTP, configuration, observability: no protocol of several steps.
- The idempotency middleware: no router applies it.
- Request validation, SQL filters, prompt and context assembly, chunking, ranking, cryptography, and CRUD
  of single statements (rules, skills, branding, catalog): computations whose result the models take as a choice,
  or rows no other task reads between two statements.
- The retention sweeps (90 days of notifications, integration events): single `DELETE`s far from any race.

The `note` of each component in `PROJECT.json` says what of it is left out.
