------------------------------- MODULE Tenancy -------------------------------
(***************************************************************************)
(* The roster of one tenant (tenancy/src): its members and their roles,    *)
(* invitations, sign-up, suspension by platform staff, and the sessions    *)
(* with which users act.                                                   *)
(*                                                                         *)
(* A request reads the caller's role and a few rows when it enters and     *)
(* writes in a transaction later; other requests commit in between.  What  *)
(* it read when it entered is kept in request[r].  A user is identified    *)
(* with his e-mail address.                                                *)
(***************************************************************************)
EXTENDS Naturals, FiniteSets

CONSTANTS
  Users,        \* people, with or without an account
  Staff,        \* platform staff who hold owner.assign in every tenant
  Roles,        \* the tenant roles requests name
  Invitations,  \* bound: invitations ever created
  Requests,     \* handlers running at once
  Nobody

Rank == [owner |-> 5, admin |-> 4, manager |-> 3, agent |-> 2, viewer |-> 1]

ASSUME ActorsAssumption ==
  /\ Users \cap Staff = {} /\ Nobody \notin Users \cup Staff
  /\ IsFiniteSet(Users)
ASSUME RolesAssumption == "owner" \in Roles /\ Roles \subseteq DOMAIN Rank

VARIABLES
  tenant,    \* "none", "active" or "suspended"
  founder,   \* who signed up for it; Nobody for a tenant created by staff
  accounts,  \* rows of users
  session,   \* users holding a valid cookie
  member,    \* tenant_memberships
  invite,    \* tenant_invitations
  request    \* what each running handler has read

vars == <<tenant, founder, accounts, session, member, invite, request>>

NoRow == [role |-> "none", status |-> "none"]
NoInvite == [user |-> Nobody, role |-> "none", status |-> "none", overdue |-> FALSE]
NoRequest == [op |-> "none", actor |-> Nobody, rank |-> 0, of |-> Nobody, to |-> "none",
              invite |-> Nobody]

Statuses == {"pending", "expired", "accepted", "revoked"}
Ops == {"role", "status", "invite", "revoke", "accept", "signup"}

ActiveOwners == {u \in Users : member[u] = [role |-> "owner", status |-> "active"]}

Init ==
  /\ tenant = "none"
  /\ founder = Nobody
  /\ accounts = {} /\ session = {}
  /\ member = [u \in Users |-> NoRow]
  /\ invite = [i \in Invitations |-> NoInvite]
  /\ request = [r \in Requests |-> NoRequest]

-----------------------------------------------------------------------------
(* Sessions.                                                               *)

\* resolve_cookie_principal: a valid token, not revoked, of a user with a row.
SignedIn(u) == u \in session

\* authenticate_login: a cookie for a user with an account.
Login(u) ==
  /\ u \in accounts \ session
  /\ session' = session \cup {u}
  /\ UNCHANGED <<tenant, founder, accounts, member, invite, request>>

\* logout revokes the cookie; an expired token ends a session likewise.  Requests
\* that entered with it go on.
Logout(u) ==
  /\ SignedIn(u)
  /\ session' = session \ {u}
  /\ UNCHANGED <<tenant, founder, accounts, member, invite, request>>

-----------------------------------------------------------------------------
(* Platform staff.                                                         *)

\* create_tenant: without any member.
CreateTenant ==
  /\ tenant = "none"
  /\ tenant' = "active"
  /\ UNCHANGED <<founder, accounts, session, member, invite, request>>

\* update_tenant, as far as the status is concerned; its row is locked.
SetTenantStatus(s) ==
  /\ tenant \in {"active", "suspended"} \ {s}
  /\ tenant' = s
  /\ UNCHANGED <<founder, accounts, session, member, invite, request>>

-----------------------------------------------------------------------------
(* Entering a request.                                                     *)

\* tenant_context_middleware: members of an active tenant, and staff.
Enters(a) ==
  /\ tenant # "none"
  /\ \/ a \in Staff
     \/ SignedIn(a) /\ member[a].status = "active" /\ tenant = "active"

\* The rank of the caller: that of a member's role; owner.assign makes staff rank 5.
RankOf(a) == IF a \in Staff THEN Rank.owner ELSE Rank[member[a].role]

\* Permission members.manage.
Manages(a) == Enters(a) /\ RankOf(a) >= Rank.manager

CanManage(rank, role) == rank > Rank[role] \/ (rank = Rank.owner /\ role = "owner")
CanAssign(rank, role) == rank >= Rank[role]

Enter(r, op, a, of, to, i) ==
  /\ request[r] = NoRequest
  /\ request' = [request EXCEPT ![r] =
       [op |-> op, actor |-> a, of |-> of, to |-> to, invite |-> i,
        rank |-> IF op \in {"accept", "signup"} THEN 0 ELSE RankOf(a)]]
  /\ UNCHANGED <<tenant, founder, accounts, session, member, invite>>

\* The request ends: answered, refused, or failed by the database.
Answer(r) == request' = [request EXCEPT ![r] = NoRequest]

Refuse(r) ==
  /\ request[r] # NoRequest
  /\ Answer(r)
  /\ UNCHANGED <<tenant, founder, accounts, session, member, invite>>

-----------------------------------------------------------------------------
(* Members: PATCH /tenant/members/{id}.                                    *)

BeginUpdateMember(r, a, u, op, to) ==
  /\ Manages(a)
  /\ Enter(r, op, a, u, to, Nobody)

\* Mutant: owners are counted for staff only, for a member who acts on an owner is one.
OwnerIsLeft(r) ==
  request[r].actor \in Staff /\ member[request[r].of].role = "owner" =>
    Cardinality(ActiveOwners) > 1

\* Under the tenant's roster lock: another active owner besides the target, or the
\* target is none.
OwnerLeft(r) ==
  member[request[r].of].role = "owner" => Cardinality(ActiveOwners) > 1

\* The target's row, locked, as the caller may change it.
MayChange(r) ==
  LET target == member[request[r].of] IN
    /\ target # NoRow
    /\ request[r].of # request[r].actor
    /\ CanManage(request[r].rank, target.role)

UpdateRole(r) ==
  /\ request[r].op = "role"
  /\ MayChange(r)
  /\ CanAssign(request[r].rank, request[r].to)
  /\ request[r].to # member[request[r].of].role
  /\ OwnerLeft(r)
  /\ member' = [member EXCEPT ![request[r].of].role = request[r].to]
  /\ Answer(r)
  /\ UNCHANGED <<tenant, founder, accounts, session, invite>>

\* Mutant: the statement of the role branch, copied.
UpdateStatusOfRole(r) ==
  /\ request[r].op = "status"
  /\ MayChange(r)
  /\ member' = [member EXCEPT ![request[r].of].role = request[r].to]
  /\ Answer(r)
  /\ UNCHANGED <<tenant, founder, accounts, session, invite>>

UpdateStatus(r) ==
  /\ request[r].op = "status"
  /\ MayChange(r)
  /\ request[r].to # member[request[r].of].status
  /\ request[r].to = "disabled" => OwnerLeft(r)
  /\ member' = [member EXCEPT ![request[r].of].status = request[r].to]
  /\ Answer(r)
  /\ UNCHANGED <<tenant, founder, accounts, session, invite>>

-----------------------------------------------------------------------------
(* Invitations.                                                            *)

Open(i) == invite[i].status = "pending" /\ ~invite[i].overdue

\* create_invitation up to its transaction.  Only rank 5 holds owner.assign.
BeginInvite(r, a, u, role, i) ==
  /\ Manages(a)
  /\ CanAssign(RankOf(a), role)
  /\ u \in accounts => member[u] = NoRow
  /\ \A j \in Invitations : Open(j) => invite[j].user # u
  /\ invite[i] = NoInvite
  /\ Enter(r, "invite", a, u, role, i)

\* Its transaction: overdue invitations of the address expire; a pending one is a
\* conflict of the unique index.
Invite(r) ==
  LET q == request[r]
      swept == [j \in Invitations |->
                  IF invite[j].user = q.of /\ invite[j].status = "pending" /\ invite[j].overdue
                    THEN [invite[j] EXCEPT !.status = "expired"] ELSE invite[j]]
  IN /\ q.op = "invite"
     /\ invite[q.invite] = NoInvite
     /\ \A j \in Invitations : Open(j) => invite[j].user # q.of
     /\ invite' = [swept EXCEPT ![q.invite] =
          [user |-> q.of, role |-> q.to, status |-> "pending", overdue |-> FALSE]]
     /\ Answer(r)
     /\ UNCHANGED <<tenant, founder, accounts, session, member>>

\* Seven days have passed.
Overdue(i) ==
  /\ Open(i)
  /\ invite' = [invite EXCEPT ![i].overdue = TRUE]
  /\ UNCHANGED <<tenant, founder, accounts, session, member, request>>

Revocable(i) == invite[i].status \in {"pending", "expired"}

BeginRevoke(r, a, i) ==
  /\ Manages(a)
  /\ Revocable(i)
  /\ CanAssign(RankOf(a), invite[i].role)
  /\ Enter(r, "revoke", a, Nobody, "none", i)

\* Mutant: the status read outside the transaction is trusted.
RevokeUnguarded(r) ==
  /\ request[r].op = "revoke"
  /\ invite' = [invite EXCEPT ![request[r].invite].status = "revoked"]
  /\ Answer(r)
  /\ UNCHANGED <<tenant, founder, accounts, session, member>>

Revoke(r) ==
  /\ request[r].op = "revoke"
  /\ Revocable(request[r].invite)
  /\ invite' = [invite EXCEPT ![request[r].invite].status = "revoked"]
  /\ Answer(r)
  /\ UNCHANGED <<tenant, founder, accounts, session, member>>

\* accept_invitation up to its transaction; a is Nobody without a cookie.
BeginAccept(r, a, i) ==
  /\ a # Nobody => SignedIn(a)
  /\ tenant = "active"
  /\ Open(i)
  /\ Enter(r, "accept", a, invite[i].user, "none", i)

\* Mutant: what was read before the transaction still holds.
TrustAccept(r) == request[r].op = "accept"

\* The invitation's row is locked, the tenant's is shared.
Acceptable(r) ==
  /\ request[r].op = "accept"
  /\ Open(request[r].invite)
  /\ tenant = "active"

Join(r) ==
  LET q == request[r] IN
    /\ invite' = [invite EXCEPT ![q.invite].status = "accepted"]
    /\ member' = [member EXCEPT ![q.of] = [role |-> invite[q.invite].role, status |-> "active"]]
    /\ Answer(r)

\* Signed in, with the invited address and no membership of any status.
AcceptSignedIn(r) ==
  /\ Acceptable(r)
  /\ request[r].actor = request[r].of
  /\ member[request[r].of] = NoRow
  /\ Join(r)
  /\ UNCHANGED <<tenant, founder, accounts, session>>

\* Without a cookie: the account is created, a cookie issued.
AcceptAnonymous(r) ==
  /\ Acceptable(r)
  /\ request[r].actor = Nobody
  /\ request[r].of \notin accounts
  /\ Join(r)
  /\ accounts' = accounts \cup {request[r].of}
  /\ session' = session \cup {request[r].of}
  /\ UNCHANGED <<tenant, founder>>

-----------------------------------------------------------------------------
(* Sign-up: a new account, and its workspace with that account as owner.   *)

BeginSignup(r, u) ==
  /\ u \notin accounts
  /\ Enter(r, "signup", Nobody, u, "none", Nobody)

\* Either this tenant or a workspace that is not modelled.
Signup(r) ==
  LET u == request[r].of IN
    /\ request[r].op = "signup"
    /\ u \notin accounts
    /\ accounts' = accounts \cup {u}
    /\ session' = session \cup {u}
    /\ \/ /\ tenant = "none"
          /\ tenant' = "active"
          /\ founder' = u
          /\ member' = [member EXCEPT ![u] = [role |-> "owner", status |-> "active"]]
       \/ UNCHANGED <<tenant, founder, member>>
    /\ Answer(r)
    /\ UNCHANGED invite

-----------------------------------------------------------------------------
BeginRequest(r) ==
  \/ \E a \in Users \cup Staff, u \in Users :
       \/ \E role \in Roles :
            \/ BeginUpdateMember(r, a, u, "role", role)
            \/ \E i \in Invitations : BeginInvite(r, a, u, role, i)
       \/ \E s \in {"active", "disabled"} : BeginUpdateMember(r, a, u, "status", s)
  \/ \E i \in Invitations :
       \/ \E a \in Users \cup Staff : BeginRevoke(r, a, i)
       \/ \E a \in Users \cup {Nobody} : BeginAccept(r, a, i)
  \/ \E u \in Users : BeginSignup(r, u)

Commit(r) ==
  \/ UpdateRole(r) \/ UpdateStatus(r)
  \/ Invite(r) \/ Revoke(r)
  \/ AcceptSignedIn(r) \/ AcceptAnonymous(r)
  \/ Signup(r)

Next ==
  \/ \E u \in Users : Login(u) \/ Logout(u)
  \/ CreateTenant
  \/ \E s \in {"active", "suspended"} : SetTenantStatus(s)
  \/ \E i \in Invitations : Overdue(i)
  \/ \E r \in Requests : BeginRequest(r) \/ Commit(r) \/ Refuse(r)

Spec == Init /\ [][Next]_vars

-----------------------------------------------------------------------------
TypeOK ==
  /\ tenant \in {"none", "active", "suspended"}
  /\ founder \in Users \cup {Nobody}
  /\ session \subseteq accounts /\ accounts \subseteq Users
  /\ member \in [Users -> {NoRow} \cup [role : Roles, status : {"active", "disabled"}]]
  /\ invite \in [Invitations -> {NoInvite} \cup
       [user : Users, role : Roles, status : Statuses, overdue : BOOLEAN]]
  /\ request \in [Requests -> {NoRequest} \cup
       [op : Ops, actor : Users \cup Staff \cup {Nobody}, rank : 0..5,
        of : Users \cup {Nobody}, to : Roles \cup {"none", "active", "disabled"},
        invite : Invitations \cup {Nobody}]]

\* Every membership stems from the sign-up or from exactly one accepted invitation,
\* and every accepted invitation made its addressee a member with an account:
\* create_invitation, revoke_invitation and accept_invitation race for one row.
MembersAreInvited ==
  \A u \in Users :
    LET accepted == {i \in Invitations : invite[i].user = u /\ invite[i].status = "accepted"}
    IN /\ Cardinality(accepted) = IF member[u] = NoRow \/ founder = u THEN 0 ELSE 1
       /\ member[u] # NoRow => u \in accounts

\* A tenant with an active owner always keeps one, whoever demotes or disables whom
\* at the same time with whatever role he had when his request entered
\* (members.rs:423, the roster lock and the count).
OwnerRemains == [][ActiveOwners # {} => ActiveOwners' # {}]_vars

\* An accepted or revoked invitation stays what it is, although accepting and
\* revoking decide on a status read before their transactions.
SettledForEver ==
  [][\A i \in Invitations : invite[i].status \in {"accepted", "revoked"} =>
       invite'[i] = invite[i]]_vars

\* Nobody joins a suspended tenant, not even with a request that entered while it was
\* active.
JoinsActiveTenant ==
  [][\A u \in Users : member[u] = NoRow /\ member'[u] # NoRow =>
       tenant' = "active"]_vars

=============================================================================
