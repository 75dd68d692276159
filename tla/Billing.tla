------------------------------- MODULE Billing -------------------------------
(***************************************************************************)
(* The plans, the subscription of one tenant and the gate on its AI        *)
(* replies (billing/src: routes.rs, queries.rs, enforcement.rs).           *)
(*                                                                         *)
(* Platform staff create, retire and revive plans and put the tenant on    *)
(* one, in transactions that lock the plan's row and then the              *)
(* subscription's.  Before a tenant's own agent replies, a responder asks  *)
(* the gate, which adds up what this month has used so far; the platform's *)
(* agent and what follows a decided tool call reply without asking.  Every *)
(* reply is recorded when it is over.                                      *)
(*                                                                         *)
(* Names, prices, the audit entries of the transactions and the pages that *)
(* show usage are left out, and past_due stands for canceled too.  The     *)
(* gate's three reads are one step.                                        *)
(***************************************************************************)
EXTENDS Naturals, FiniteSets

CONSTANTS
  Plans, Default,   \* the plan of the migration
  Limited, Limit,   \* the plans with an allowance of tokens, and how much it is
  CappedPlans, Cap, \* the plans with one of conversations
  NoPlan,
  Operators,        \* handlers in flight
  Responders,
  MaxAssigned,      \* bound: requests of the staff
  MaxMonths,        \* bound
  MaxUsed,          \* bound: replies of a month
  MaxConversations  \* bound: conversations of a month

\* What the constants are; the instance assumes it.
BillingAssumption ==
  /\ Default \in Plans /\ Limited \cup CappedPlans \subseteq Plans /\ NoPlan \notin Plans
  /\ {Limit, Cap, MaxAssigned, MaxUsed, MaxConversations} \subseteq Nat
  /\ MaxMonths \in Nat \ {0}
  /\ IsFiniteSet(Responders)

VARIABLES
  plan,      \* billing_plans: the status of each, "none" before its creation
  sub,       \* tenant_subscriptions: the tenant's row
  tx,        \* the transactions, and the row locks each holds
  requests,  \* of the staff so far
  used,      \* what ai_usage_records adds up to this month
  opened,    \* the conversations created this month
  replies,   \* what each responder does
  month,
  mark,      \* what was used when the allowance last changed
  unasked    \* what was used since with no gate asked

billVars == <<plan, sub, tx, requests, used, opened, replies, month, mark, unasked>>

NoSub == [plan |-> NoPlan, status |-> "active"]
NoTx == [step |-> "idle", plan |-> NoPlan, status |-> "none"]

Init ==
  /\ plan = [p \in Plans |-> IF p = Default THEN "active" ELSE "none"]
  /\ sub = NoSub
  /\ tx = [h \in Operators |-> NoTx]
  /\ requests = 0 /\ used = 0 /\ opened = 0 /\ month = 1 /\ mark = 0 /\ unasked = 0
  /\ replies = [r \in Responders |-> "idle"]

-----------------------------------------------------------------------------
(* The plan and the use of the tenant.                                     *)

\* effective_plan: without a subscription the default one, active.
EffectivePlan == IF sub = NoSub THEN Default ELSE sub.plan

\* Mutant: the allowance may be reached.
AllowedAtLimit ==
  /\ sub.status = "active"
  /\ EffectivePlan \in Limited => ~(used > Limit)
  /\ EffectivePlan \in CappedPlans => ~(opened > Cap)

\* enforcement::check.
Allowed ==
  /\ sub.status = "active"
  /\ EffectivePlan \in Limited => ~(used >= Limit)
  /\ EffectivePlan \in CappedPlans => ~(opened >= Cap)

\* The gate decides under a lock of the tenant, which it releases before the reply.
Ask(r) ==
  /\ replies[r] = "idle"
  /\ replies' = [replies EXCEPT ![r] = IF Allowed THEN "replying" ELSE "idle"]
  /\ UNCHANGED <<plan, sub, tx, requests, used, opened, month, mark, unasked>>

\* A reply of the platform's agent, to a tenant that has none, or after a tool decision: no gate.
Bypass(r) ==
  /\ replies[r] = "idle"
  /\ replies' = [replies EXCEPT ![r] = "bypassing"]
  /\ UNCHANGED <<plan, sub, tx, requests, used, opened, month, mark, unasked>>

\* The provider's answer is recorded; a call that failed on its way leaves no record.
Reply(r) ==
  /\ replies[r] # "idle"
  /\ replies' = [replies EXCEPT ![r] = "idle"]
  /\ used' \in {used, used + 1} /\ used' <= MaxUsed
  /\ unasked' = IF replies[r] = "bypassing" THEN unasked + (used' - used) ELSE unasked
  /\ UNCHANGED <<plan, sub, tx, requests, opened, month, mark>>

\* A customer opens a conversation: no allowance forbids it.
OpenConversation ==
  /\ opened < MaxConversations
  /\ opened' = opened + 1
  /\ UNCHANGED <<plan, sub, tx, requests, used, replies, month, mark, unasked>>

\* current_period: the use of a new month begins at zero.
NewMonth ==
  /\ month < MaxMonths
  /\ month' = month + 1
  /\ used' = 0 /\ opened' = 0 /\ mark' = 0 /\ unasked' = 0
  /\ UNCHANGED <<plan, sub, tx, requests, replies>>

-----------------------------------------------------------------------------
(* The staff.                                                              *)

\* Mutant: the subscription is read without FOR UPDATE.
SubIsFreeAlways == TRUE

\* The row locks: a plan's until the end of a transaction on it, the subscription's from the
\* step that reads it, if there is one.
PlanIsFree(p) == \A h \in Operators : tx[h].step # "idle" => tx[h].plan # p
SubIsFree == \A h \in Operators : tx[h].step # "write"

\* create_plan, in one statement.
CreatePlan ==
  /\ \E p \in Plans : plan[p] = "none" /\ plan' = [plan EXCEPT ![p] = "active"]
  /\ UNCHANGED <<sub, tx, requests, used, opened, replies, month, mark, unasked>>

\* update_plan: the default plan cannot be retired.  Nothing waits while it holds the row.
UpdatePlan ==
  /\ requests < MaxAssigned
  /\ requests' = requests + 1
  /\ \E p \in Plans, s \in {"active", "retired"} :
       /\ plan[p] # "none" /\ PlanIsFree(p)
       /\ p = Default => s # "retired"
       /\ plan' = [plan EXCEPT ![p] = s]
  /\ UNCHANGED <<sub, tx, used, opened, replies, month, mark, unasked>>

\* put_subscription, first the plan's row: locked and read.
LockPlan(h) ==
  /\ tx[h] = NoTx /\ requests < MaxAssigned
  /\ requests' = requests + 1
  /\ \E p \in Plans, s \in {"active", "past_due"} :
       /\ plan[p] # "none" /\ PlanIsFree(p)
       /\ tx' = [tx EXCEPT ![h] = [step |-> "plan", plan |-> p, status |-> s]]
  /\ UNCHANGED <<plan, sub, used, opened, replies, month, mark, unasked>>

\* A retired plan is only for the tenant that is on it.
MayHave(p) == plan[p] = "retired" => sub.plan = p

\* Then the subscription's, if there is one to lock, and the refusal.
LockSubscription(h) ==
  /\ tx[h].step = "plan" /\ (sub # NoSub => SubIsFree)
  /\ tx' = [tx EXCEPT ![h] = IF MayHave(@.plan) THEN [@ EXCEPT !.step = "write"] ELSE NoTx]
  /\ UNCHANGED <<plan, sub, requests, used, opened, replies, month, mark, unasked>>

\* upsert_subscription and COMMIT.
PutSubscription(h) ==
  /\ tx[h].step = "write"
  /\ sub' = [plan |-> tx[h].plan, status |-> tx[h].status]
  /\ IF sub'.plan = EffectivePlan
       THEN UNCHANGED <<mark, unasked>> ELSE mark' = used /\ unasked' = 0
  /\ tx' = [tx EXCEPT ![h] = NoTx]
  /\ UNCHANGED <<plan, requests, used, opened, replies, month>>

Next ==
  \/ NewMonth \/ OpenConversation \/ CreatePlan \/ UpdatePlan
  \/ \E r \in Responders : Ask(r) \/ Bypass(r) \/ Reply(r)
  \/ \E h \in Operators : LockPlan(h) \/ LockSubscription(h) \/ PutSubscription(h)

TypeOK ==
  /\ plan \in [Plans -> {"none", "active", "retired"}]
  /\ sub \in [plan : Plans \cup {NoPlan}, status : {"active", "past_due"}]
  /\ \A h \in Operators : tx[h].step \in {"idle", "plan", "write"}
  /\ replies \in [Responders -> {"idle", "replying", "bypassing"}]
  /\ requests \in 0..MaxAssigned /\ month \in 1..MaxMonths
  /\ {used, opened, mark, unasked} \subseteq Nat

\* Whoever retires it meanwhile, a tenant that changes its plan moves to one that is active
\* (specs/031-billing-foundation/spec.md:81), and no tenant is left without an active plan
\* to fall back on.
PlansAreKept ==
  [][/\ sub'.plan # sub.plan => plan'[sub'.plan] = "active"
     /\ plan'[Default] = "active"]_billVars

\* What a tenant uses exceeds its allowance by no more than the asked replies the responders had
\* begun (specs/031-billing-foundation/spec.md:84), or what it had used before it came under it,
\* and the replies since that nobody asked about.  One reply counts as one.
OvershootIsBounded ==
  LET begun == Cardinality({r \in Responders : replies[r] = "replying"})
      Greater(m, n) == IF m > n THEN m ELSE n
  IN EffectivePlan \in Limited =>
       used + begun < Greater(Limit, mark + 1) + Cardinality(Responders) + unasked

=============================================================================
