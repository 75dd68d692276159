---------------------------- MODULE ToolRegistry ----------------------------
(***************************************************************************)
(* The tools a tenant offers to its AI (tools/src: the administration      *)
(* handlers of routes.rs, queries.rs, policy.rs, executor.rs).             *)
(*                                                                         *)
(* Built-in tools are switched on by a policy; the tenant's own tools are  *)
(* rows with an endpoint and perhaps a credential, sealed under the tool's *)
(* name.  Administrators' handlers check a name, or read the one a new     *)
(* credential is sealed under, before the statement that writes the row.   *)
(* The engine keeps what it was offered while the tools change, and calls  *)
(* by the row's id.                                                        *)
(*                                                                         *)
(* The schema and address checks of an endpoint, its answer, the arguments *)
(* of a call and the classification of the tenant's own tools are left out. *)
(***************************************************************************)
EXTENDS Naturals, FiniteSets

CONSTANTS
  Tools,       \* ids of the tenant's tools
  Names,
  Builtins,    \* the names in the catalog
  MustApprove, \* those the catalog classifies as Approval
  NoTool, NoName,
  Admins,      \* handlers in flight
  MaxRequests  \* bound: requests of administrators

\* What the constants are; the instance assumes it.
RegistryAssumption ==
  /\ Builtins \subseteq Names /\ MustApprove \subseteq Builtins
  /\ NoTool \notin Tools /\ NoName \notin Names /\ MaxRequests \in Nat

VARIABLES
  policy,   \* tenant_tool_policies: the rows
  tool,     \* tenant_tools
  admin,    \* what each handler does
  offered,  \* the tools the engine resolved for its run
  called,   \* its last call of a tenant's tool
  changes   \* requests of administrators so far

regVars == <<policy, tool, admin, offered, called, changes>>

NoRow == [state |-> "none", name |-> NoName, sealed |-> NoName, enabled |-> FALSE]
Idle == [step |-> "idle", tool |-> NoTool, name |-> NoName, scope |-> NoName, credential |-> FALSE,
         enabled |-> FALSE]
NoCall == [tool |-> NoTool, name |-> NoName, credential |-> NoName, outcome |-> "none"]

Init ==
  /\ policy = [b \in Builtins |-> [enabled |-> FALSE, approval |-> FALSE]]
  /\ tool = [t \in Tools |-> NoRow]
  /\ admin = [a \in Admins |-> Idle]
  /\ offered = {} /\ called = NoCall /\ changes = 0

-----------------------------------------------------------------------------
(* The administration.                                                     *)

Live == {t \in Tools : tool[t].state = "live"}
Bears(t, n) == t \in Live /\ tool[t].name = n

\* A request arrives (a bound, MaxRequests).
Request == changes < MaxRequests /\ changes' = changes + 1

\* Tighten-only: what the catalog mandates cannot be relaxed.
UpdateBuiltinPolicy ==
  /\ Request
  /\ \E b \in Builtins, enabled, approval \in BOOLEAN :
       policy' = [policy EXCEPT ![b] = [enabled |-> enabled, approval |-> b \in MustApprove \/ approval]]
  /\ UNCHANGED <<tool, admin, offered, called>>

\* validate_tool_name_unique, of a tool that is new (NoTool) or renamed.
NameIsFree(n, self) == n \notin Builtins /\ \A t \in Tools : Bears(t, n) => t = self

\* create_tenant_tool, up to the insert: the name is free and a credential is sealed under it.
StartCreate(a) ==
  /\ Request /\ admin[a] = Idle
  /\ \E n \in Names, credential \in BOOLEAN :
       /\ NameIsFree(n, NoTool)
       /\ admin' = [admin EXCEPT ![a] =
            [step |-> "create", tool |-> NoTool, name |-> n, credential |-> credential,
             scope |-> IF credential THEN n ELSE NoName, enabled |-> TRUE]]
  /\ UNCHANGED <<policy, tool, offered, called>>

\* update_tenant_tool_route, up to the update: a new name is checked; without one the name a
\* new credential is sealed under is read, of a deleted row too.
StartUpdate(a) ==
  /\ Request /\ admin[a] = Idle
  /\ \E t \in Tools, n \in Names \cup {NoName}, credential, enabled \in BOOLEAN :
       /\ tool[t].state # "none"
       /\ n # NoName => NameIsFree(n, t)
       /\ admin' = [admin EXCEPT ![a] =
            [step |-> "update", tool |-> t, name |-> n, credential |-> credential,
             scope |-> IF ~credential THEN NoName ELSE IF n # NoName THEN n ELSE tool[t].name,
             enabled |-> enabled]]
  /\ UNCHANGED <<policy, tool, offered, called>>

\* Mutant: without the index: only the handler's own check, made before.
IndexAdmitsAll(n, self) == TRUE

\* idx_tenant_tools_live_name: a live row's name is its tenant's only.
IndexAdmits(n, self) == \A t \in Tools : Bears(t, n) => t = self

\* Both inserts and updates are refused by the index, with a 500.
Insert(a) ==
  /\ admin[a].step = "create"
  /\ \E t \in Tools :
       /\ tool[t].state = "none"
       /\ tool' = IF IndexAdmits(admin[a].name, t)
                    THEN [tool EXCEPT ![t] = [state |-> "live", name |-> admin[a].name,
                            sealed |-> admin[a].scope, enabled |-> TRUE]]
                    ELSE tool
  /\ admin' = [admin EXCEPT ![a] = Idle]
  /\ UNCHANGED <<policy, offered, called, changes>>

\* COALESCE: what the patch does not name stays, and with a new name the old credential (enabled
\* has two values only, so that a patch without it is one that names the old).
Patched(row, patch) ==
  [row EXCEPT !.name = IF patch.name # NoName THEN patch.name ELSE @,
              !.sealed = IF patch.credential THEN patch.scope ELSE @,
              !.enabled = patch.enabled]

Update(a) ==
  /\ admin[a].step = "update"
  /\ LET t == admin[a].tool IN
       tool' = IF t \in Live /\ (admin[a].name # NoName => IndexAdmits(admin[a].name, t))
                 THEN [tool EXCEPT ![t] = Patched(tool[t], admin[a])]
                 ELSE tool
  /\ admin' = [admin EXCEPT ![a] = Idle]
  /\ UNCHANGED <<policy, offered, called, changes>>

\* delete_tenant_tool_route: a soft delete.
Delete ==
  /\ Request
  /\ \E t \in Live : tool' = [tool EXCEPT ![t].state = "deleted"]
  /\ UNCHANGED <<policy, admin, offered, called>>

-----------------------------------------------------------------------------
(* The engine.                                                             *)

\* resolve_builtin: a policy may only add the need of approval.
OfferedBuiltin(b) ==
  [name |-> b, tool |-> NoTool, approval |-> b \in MustApprove \/ policy[b].approval]

\* With the default classification.
OfferedTool(t) == [name |-> tool[t].name, tool |-> t, approval |-> TRUE]

\* resolve_available: a policy row, or the tool itself, must be enabled.
Resolve ==
  /\ offered' = {OfferedBuiltin(b) : b \in {x \in Builtins : policy[x].enabled}}
                  \cup {OfferedTool(t) : t \in {x \in Live : tool[x].enabled}}
  /\ UNCHANGED <<policy, tool, admin, called, changes>>

\* crypto::open under the name of the call: another's seal does not open.
Opens(t, n) == tool[t].sealed = n

\* execute_tenant_endpoint: the row is read again by id, whatever was offered of it.
CallTenantTool ==
  /\ \E o \in offered :
       /\ o.tool # NoTool
       /\ LET t == o.tool
              call(outcome, credential) ==
                [tool |-> t, name |-> o.name, credential |-> credential, outcome |-> outcome]
          IN called' = IF t \notin Live THEN call("not found", NoName)
                       ELSE IF tool[t].sealed = NoName THEN call("sent", NoName)
                       ELSE IF Opens(t, o.name) THEN call("sent", tool[t].sealed)
                       ELSE call("not decrypted", NoName)
  /\ UNCHANGED <<policy, tool, admin, offered, changes>>

Next ==
  \/ UpdateBuiltinPolicy \/ Delete \/ Resolve \/ CallTenantTool
  \/ \E a \in Admins : StartCreate(a) \/ StartUpdate(a) \/ Insert(a) \/ Update(a)

TypeOK ==
  /\ policy \in [Builtins -> [enabled : BOOLEAN, approval : BOOLEAN]]
  /\ tool \in [Tools -> [state : {"none", "live", "deleted"}, name : Names \cup {NoName},
                         sealed : Names \cup {NoName}, enabled : BOOLEAN]]
  /\ \A a \in Admins : admin[a].step \in {"idle", "create", "update"}
  /\ offered \subseteq [name : Names, tool : Tools \cup {NoTool}, approval : BOOLEAN]
  /\ called.outcome \in {"none", "sent", "not found", "not decrypted"}
  /\ changes \in 0..MaxRequests

\* The model calls tools by name, so of what it is offered no name may mean two tools, although
\* every handler checks its name before it writes; nor may a call carry the credential that was
\* given for another name, although a rename keeps the row's credential, and what is mandated
\* to need approval is never offered without (routes.rs:600, executor.rs:168, policy.rs:80).
OffersAreUnambiguous ==
  /\ \A o, p \in offered : o.name = p.name => o = p
  /\ \A o \in offered : o.name \in MustApprove => o.tool = NoTool /\ o.approval
  /\ called.credential \in {NoName, called.name}

=============================================================================
