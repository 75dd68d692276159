------------------------------ MODULE MCTenancy ------------------------------
(***************************************************************************)
(* Small instances of what surrounds a tenant: its members (two users who  *)
(* may own it together, one of the platform's staff, two handlers; either  *)
(* one invitation is made, or two are, while staff only found and suspend  *)
(* and nobody's role changes), its tools, its plan, the rate limiter with  *)
(* its budgets, and the answers of the AI vendors.  A behaviour is one of  *)
(* these; the rest of the state stays as it begins.                        *)
(***************************************************************************)
EXTENDS Tenancy, TLC

CONSTANTS
  Tools, Names, Builtins, MustApprove, NoTool, NoName, Admins, MaxRequests,
  Plans, Default, Limited, Limit, CappedPlans, Cap, NoPlan, Operators, Responders, MaxAssigned,
  MaxMonths, MaxUsed, MaxConversations,
  Window, Budget, Checks, MaxTime, MaxCount, MaxOutages,
  Overrides, MaxOverride, Preset, Ttl, Askers, MaxSeconds, MaxEdits, MaxReading,
  Slots, MaxTexts

VARIABLES
  part,
  policy, tool, admin, offered, called, changes,
  plan, sub, tx, requests, used, opened, replies, month, mark, unasked,
  clock, key, reachable, outages, check, local, guarded, granted, straddled,
  row, second, edits, cache, asker, placed,
  vendor, progress, texts, ending, wire, half, acc, finish, out

Registry == INSTANCE ToolRegistry
Bill == INSTANCE Billing
Limiter == INSTANCE RateLimit
Resolver == INSTANCE TenantBudget
Stream == INSTANCE ProviderStreams

ASSUME SurroundingsAssumption ==
  /\ Registry!RegistryAssumption /\ Bill!BillingAssumption
  /\ Limiter!LimitAssumption /\ Resolver!BudgetAssumption /\ Stream!StreamsAssumption

toolVars == <<policy, tool, admin, offered, called, changes>>
planVars == <<plan, sub, tx, requests, used, opened, replies, month, mark, unasked>>
limitVars == <<clock, key, reachable, outages, check, local, guarded, granted, straddled>>
budgetVars == <<row, second, edits, cache, asker, placed>>
answerVars == <<vendor, progress, texts, ending, wire, half, acc, finish, out>>
allVars == <<part, vars, toolVars, planVars, limitVars, budgetVars, answerVars>>

MCInit ==
  /\ part \in {"staff", "invitations", "tools", "plans", "use", "limit", "budget", "answer"}
  /\ Init /\ Registry!Init /\ Bill!Init /\ Resolver!Init
  /\ Limiter!Init /\ (part # "limit" => guarded)
  /\ Stream!Init /\ (part # "answer" => vendor = "openai")

OfMembers ==
  /\ \/ part = "staff" /\ Cardinality({i \in Invitations : invite'[i] # NoInvite}) <= 1
     \/ part = "invitations" /\ \A r \in Requests :
          request'[r].actor \notin Staff /\ request'[r].op \notin {"role", "status"}
  /\ UNCHANGED <<part, toolVars, planVars, limitVars, budgetVars, answerVars>>
OfTools ==
  part = "tools" /\ UNCHANGED <<part, vars, planVars, limitVars, budgetVars, answerVars>>
\* The staff by themselves, and with the tenant's use.
OfPlan ==
  /\ \/ part = "plans" /\ UNCHANGED <<replies, opened, month>>
     \/ part = "use" /\ requests' <= 2
  /\ UNCHANGED <<part, vars, toolVars, limitVars, budgetVars, answerVars>>
OfLimit ==
  part = "limit" /\ UNCHANGED <<part, vars, toolVars, planVars, budgetVars, answerVars>>
OfBudget ==
  part = "budget" /\ UNCHANGED <<part, vars, toolVars, planVars, limitVars, answerVars>>
OfAnswer ==
  part = "answer" /\ UNCHANGED <<part, vars, toolVars, planVars, limitVars, budgetVars>>

MCNext ==
  \/ Next /\ OfMembers
  \/ OfTools /\ Registry!Next
  \/ Bill!Next /\ OfPlan
  \/ OfLimit /\ Limiter!Next
  \/ OfBudget /\ Resolver!Next
  \/ OfAnswer /\ Stream!Next

MCSpec == MCInit /\ [][MCNext]_allVars

Symmetry == Permutations(Users) \cup Permutations(Invitations) \cup Permutations(Requests)

\* The types of all of them.
TypesOK ==
  /\ TypeOK /\ Registry!TypeOK /\ Bill!TypeOK
  /\ Limiter!TypeOK /\ Resolver!TypeOK /\ Stream!TypeOK

\* Tenancy: who joins does so while the tenant is active, and an invitation that was accepted
\* or revoked stays it, although both are decided on what was read before.
JoinsAreFinal == JoinsActiveTenant /\ SettledForEver

\* ToolRegistry and ProviderStreams: no name offered means two tools and a call carries its own
\* name's credential; every call of a vendor's answer arrives, whole and once.
ToolCallsAreSound == Registry!OffersAreUnambiguous /\ Stream!CallsArriveWhole

\* Billing: a tenant only moves to an active plan, and there is always one to fall back on.
PlansAreKept == Bill!PlansAreKept

\* Billing and RateLimit: replies whose checks were made at the same time overshoot an allowance
\* by no more than those under way, beside the replies that are not checked, and a window's budget
\* not at all; and the budget is no older than its cache allows (TenantBudget).
LimitsHold == Bill!OvershootIsBounded /\ Limiter!GrantsAreBounded /\ Resolver!BudgetIsRecent

=============================================================================
