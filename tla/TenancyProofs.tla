---------------------------- MODULE TenancyProofs ----------------------------
(***************************************************************************)
(* Proofs about what surrounds a tenant (MCTenancy), for every number of   *)
(* users, invitations, handlers, plans, checks and tools: first about the  *)
(* roster (Tenancy), then about each of the other components, and at the   *)
(* end about their composition.                                            *)
(***************************************************************************)
EXTENDS MCTenancy, FiniteSetTheorems, TLAPS

-----------------------------------------------------------------------------
(* The roster.                                                             *)

Accepted(u) == {i \in Invitations : invite[i].user = u /\ invite[i].status = "accepted"}

\* What a request read when it entered and is still true.
RequestInv(q) ==
  /\ q.op \in {"role", "status"} => q.of \in Users
  /\ q.op = "role" => q.to \in Roles
  /\ q.op = "status" => q.to \in {"active", "disabled"}
  /\ q.op = "invite" => q.of \in Users /\ q.to \in Roles /\ q.invite \in Invitations
  /\ q.op = "revoke" => q.invite \in Invitations /\ invite[q.invite] # NoInvite
  /\ q.op = "accept" => /\ q.invite \in Invitations /\ invite[q.invite] # NoInvite
                        /\ q.of = invite[q.invite].user
                        /\ q.actor = Nobody \/ q.actor \in accounts
  /\ q.op = "signup" => q.of \in Users

\* A member came by sign-up or by one invitation, and is not without an account.
MemberInv(u) ==
  /\ member[u] = NoRow \/ founder = u => Accepted(u) = {}
  /\ member[u] # NoRow /\ founder # u => \E i \in Invitations : Accepted(u) = {i}
  /\ founder = u => member[u] # NoRow
  /\ member[u] # NoRow => u \in accounts

RosterInv ==
  /\ TypeOK
  /\ \A r \in Requests : RequestInv(request[r])
  /\ tenant = "none" => founder = Nobody
  /\ \A u \in Users : MemberInv(u)

InviteRow == [user : Users, role : Roles, status : Statuses, overdue : BOOLEAN]
RequestRow ==
  [op : Ops, actor : Users \cup Staff \cup {Nobody}, rank : 0..5,
   of : Users \cup {Nobody}, to : Roles \cup {"none", "active", "disabled"},
   invite : Invitations \cup {Nobody}]
MemberRow == [role : Roles, status : {"active", "disabled"}]

LEMMA RosterTypes ==
  ASSUME TypeOK
  PROVE  /\ \A i \in Invitations : invite[i] = NoInvite \/ invite[i] \in InviteRow
         /\ \A i \in Invitations : invite[i] # NoInvite => invite[i] \in InviteRow
         /\ \A i \in Invitations : invite[i].status # "none" => invite[i] \in InviteRow
         /\ \A r \in Requests : request[r].op # "none" => request[r] \in RequestRow
         /\ \A u \in Users : member[u] = NoRow \/ member[u] \in MemberRow
BY DEF TypeOK, NoInvite, NoRequest, InviteRow, RequestRow, MemberRow

LEMMA InitRoster == Init => RosterInv
  <1> SUFFICES ASSUME Init PROVE RosterInv
    OBVIOUS
  <1>1. TypeOK
    BY DEF Init, TypeOK
  <1>2. \A r \in Requests : RequestInv(request[r])
    BY DEF Init, RequestInv, NoRequest
  <1>3. \A u \in Users : MemberInv(u)
    BY ActorsAssumption DEF Init, MemberInv, Accepted, NoInvite
  <1> QED
    BY <1>1, <1>2, <1>3 DEF RosterInv, Init

-----------------------------------------------------------------------------
(* Requests that enter, and sessions.                                      *)

LEMMA RankTyped ==
  ASSUME TypeOK, NEW a \in Users \cup Staff, Enters(a)
  PROVE  RankOf(a) \in 0..5
  <1>1. CASE a \in Staff
    BY <1>1 DEF RankOf, Rank
  <1>2. CASE a \notin Staff
    <2>1. member[a] \in MemberRow
      BY <1>2, RosterTypes DEF Enters, NoRow, TypeOK
    <2>2. member[a].role \in DOMAIN Rank
      BY <2>1, RolesAssumption DEF MemberRow
    <2> QED
      BY <1>2, <2>2 DEF RankOf, Rank
  <1> QED
    BY <1>1, <1>2

\* A request that enters is typed and knows what it read.
LEMMA EnterStep ==
  ASSUME RosterInv, NEW r \in Requests, BeginRequest(r)
  PROVE  /\ TypeOK'
         /\ \A q \in Requests : RequestInv(request[q])'
         /\ UNCHANGED <<tenant, founder, accounts, session, member, invite>>
  <1>0. TypeOK
    BY DEF RosterInv
  <1>1. PICK q : /\ request' = [request EXCEPT ![r] = q]
                 /\ UNCHANGED <<tenant, founder, accounts, session, member, invite>>
                 /\ q \in RequestRow
                 /\ RequestInv(q)
    <2> DEFINE New(op, a, of, to, i, rank) ==
          [op |-> op, actor |-> a, of |-> of, to |-> to, invite |-> i, rank |-> rank]
        Entered == \E q \in RequestRow :
                     /\ request' = [request EXCEPT ![r] = q]
                     /\ UNCHANGED <<tenant, founder, accounts, session, member, invite>>
                     /\ RequestInv(q)
    <2>1. ASSUME NEW a \in Users \cup Staff, NEW u \in Users, NEW role \in Roles,
                 BeginUpdateMember(r, a, u, "role", role)
          PROVE  Entered
      <3> DEFINE q == New("role", a, u, role, Nobody, RankOf(a))
      <3>1. q \in RequestRow
        BY <1>0, <2>1, RankTyped DEF BeginUpdateMember, Manages, RequestRow, Ops
      <3>2. RequestInv(q)
        BY DEF RequestInv
      <3> QED
        BY <2>1, <3>1, <3>2 DEF BeginUpdateMember, Enter
    <2>2. ASSUME NEW a \in Users \cup Staff, NEW u \in Users, NEW s \in {"active", "disabled"},
                 BeginUpdateMember(r, a, u, "status", s)
          PROVE  Entered
      <3> DEFINE q == New("status", a, u, s, Nobody, RankOf(a))
      <3>1. q \in RequestRow
        BY <1>0, <2>2, RankTyped DEF BeginUpdateMember, Manages, RequestRow, Ops
      <3>2. RequestInv(q)
        BY DEF RequestInv
      <3> QED
        BY <2>2, <3>1, <3>2 DEF BeginUpdateMember, Enter
    <2>3. ASSUME NEW a \in Users \cup Staff, NEW u \in Users, NEW role \in Roles,
                 NEW i \in Invitations, BeginInvite(r, a, u, role, i)
          PROVE  Entered
      <3> DEFINE q == New("invite", a, u, role, i, RankOf(a))
      <3>1. q \in RequestRow
        BY <1>0, <2>3, RankTyped DEF BeginInvite, Manages, RequestRow, Ops
      <3>2. RequestInv(q)
        BY DEF RequestInv
      <3> QED
        BY <2>3, <3>1, <3>2 DEF BeginInvite, Enter
    <2>4. ASSUME NEW a \in Users \cup Staff, NEW i \in Invitations, BeginRevoke(r, a, i)
          PROVE  Entered
      <3> DEFINE q == New("revoke", a, Nobody, "none", i, RankOf(a))
      <3>1. q \in RequestRow
        BY <1>0, <2>4, RankTyped DEF BeginRevoke, Manages, RequestRow, Ops
      <3>2. RequestInv(q)
        BY <2>4 DEF RequestInv, BeginRevoke, Revocable, NoInvite
      <3> QED
        BY <2>4, <3>1, <3>2 DEF BeginRevoke, Enter
    <2>5. ASSUME NEW a \in Users \cup {Nobody}, NEW i \in Invitations, BeginAccept(r, a, i)
          PROVE  Entered
      <3> DEFINE q == New("accept", a, invite[i].user, "none", i, 0)
      <3>0. invite[i] \in InviteRow /\ invite[i] # NoInvite
        BY <1>0, <2>5, RosterTypes DEF BeginAccept, Open, NoInvite
      <3>1. q \in RequestRow
        BY <2>5, <3>0 DEF RequestRow, Ops, InviteRow
      <3>2. RequestInv(q)
        BY <1>0, <2>5, <3>0 DEF RequestInv, BeginAccept, SignedIn, TypeOK
      <3> QED
        BY <2>5, <3>1, <3>2 DEF BeginAccept, Enter
    <2>6. ASSUME NEW u \in Users, BeginSignup(r, u)
          PROVE  Entered
      <3> DEFINE q == New("signup", Nobody, u, "none", Nobody, 0)
      <3>1. q \in RequestRow
        BY DEF RequestRow, Ops
      <3>2. RequestInv(q)
        BY DEF RequestInv
      <3> QED
        BY <2>6, <3>1, <3>2 DEF BeginSignup, Enter
    <2> HIDE DEF Entered
    <2>7. Entered
      BY <2>1, <2>2, <2>3, <2>4, <2>5, <2>6 DEF BeginRequest
    <2> QED
      BY <2>7 DEF Entered
  <1>2. TypeOK'
    BY <1>0, <1>1 DEF TypeOK, RequestRow
  <1>3. ASSUME NEW p \in Requests PROVE RequestInv(request[p])'
    <2>1. request'[p] = q \/ request'[p] = request[p]
      BY <1>0, <1>1 DEF TypeOK
    <2>2. RequestInv(request[p]) /\ RequestInv(q)
      BY <1>1 DEF RosterInv
    <2> QED
      BY <1>1, <2>1, <2>2 DEF RequestInv
  <1> QED
    BY <1>1, <1>2, <1>3

-----------------------------------------------------------------------------
(* Requests that commit.                                                   *)

\* A request that ends leaves the others with what they read, if invitations keep their
\* addressee and accounts stay.
LEMMA OthersKnow ==
  ASSUME RosterInv, NEW r \in Requests, Answer(r),
         accounts \subseteq accounts',
         \A i \in Invitations : invite[i] # NoInvite =>
           invite'[i] # NoInvite /\ invite'[i].user = invite[i].user
  PROVE  /\ request' \in [Requests -> {NoRequest} \cup RequestRow]
         /\ \A q \in Requests : RequestInv(request[q])'
  <1>0. TypeOK
    BY DEF RosterInv
  <1>1. request' \in [Requests -> {NoRequest} \cup RequestRow]
    BY <1>0 DEF Answer, TypeOK, RequestRow
  <1>2. ASSUME NEW q \in Requests PROVE RequestInv(request[q])'
    <2>1. request'[q] = NoRequest \/ request'[q] = request[q]
      BY <1>0 DEF Answer, TypeOK
    <2>2. RequestInv(request[q])
      BY DEF RosterInv
    <2>3. CASE request'[q] = NoRequest
      BY <2>3 DEF RequestInv, NoRequest
    <2>4. CASE request'[q] = request[q]
      BY <2>2, <2>4 DEF RequestInv
    <2> QED
      BY <2>1, <2>3, <2>4
  <1> QED
    BY <1>1, <1>2

\* Roles and statuses change; who is a member and how he came does not.
LEMMA UpdateStep ==
  ASSUME RosterInv, NEW r \in Requests, UpdateRole(r) \/ UpdateStatus(r)
  PROVE  RosterInv'
  <1> DEFINE q == request[r]
             u == q.of
  <1>0. TypeOK /\ RequestInv(q)
    BY DEF RosterInv
  <1>1. /\ u \in Users /\ member[u] # NoRow /\ Answer(r)
        /\ UNCHANGED <<tenant, founder, accounts, session, invite>>
        /\ \/ q.to \in Roles /\ member' = [member EXCEPT ![u].role = q.to]
           \/ q.to \in {"active", "disabled"} /\ member' = [member EXCEPT ![u].status = q.to]
    BY <1>0 DEF UpdateRole, UpdateStatus, RequestInv, MayChange
  <1>2. member[u] \in MemberRow
    BY <1>0, <1>1, RosterTypes
  <1>3. /\ member' \in [Users -> {NoRow} \cup MemberRow]
        /\ \A v \in Users : member'[v] = NoRow <=> member[v] = NoRow
    BY <1>0, <1>1, <1>2 DEF TypeOK, MemberRow, NoRow
  <1>4. /\ request' \in [Requests -> {NoRequest} \cup RequestRow]
        /\ \A p \in Requests : RequestInv(request[p])'
    BY <1>1, OthersKnow
  <1>5. TypeOK'
    BY <1>0, <1>1, <1>3, <1>4 DEF TypeOK, MemberRow, RequestRow
  <1>6. \A v \in Users : MemberInv(v)'
    BY <1>1, <1>3 DEF RosterInv, MemberInv, Accepted
  <1> QED
    BY <1>1, <1>4, <1>5, <1>6 DEF RosterInv

\* Invitations change, but none becomes accepted or was.
LEMMA InviteFrame ==
  ASSUME RosterInv, NEW r \in Requests, Answer(r),
         UNCHANGED <<tenant, founder, accounts, session, member>>,
         invite' \in [Invitations -> {NoInvite} \cup InviteRow],
         \A i \in Invitations : invite[i] # NoInvite =>
           invite'[i] # NoInvite /\ invite'[i].user = invite[i].user,
         \A i \in Invitations :
           (invite[i].status = "accepted" \/ invite'[i].status = "accepted") =>
             invite'[i] = invite[i]
  PROVE  RosterInv'
  <1>0. TypeOK
    BY DEF RosterInv
  <1>1. /\ request' \in [Requests -> {NoRequest} \cup RequestRow]
        /\ \A p \in Requests : RequestInv(request[p])'
    BY OthersKnow
  <1>2. TypeOK'
    BY <1>0, <1>1 DEF TypeOK, InviteRow, RequestRow
  <1>3. \A u \in Users : Accepted(u)' = Accepted(u)
    BY DEF Accepted
  <1>4. \A u \in Users : MemberInv(u)'
    BY <1>3 DEF RosterInv, MemberInv
  <1> QED
    BY <1>1, <1>2, <1>4 DEF RosterInv

LEMMA InviteStep ==
  ASSUME RosterInv, NEW r \in Requests, Invite(r)
  PROVE  /\ RosterInv'
         /\ \A i \in Invitations : invite[i].status \in {"accepted", "revoked"} =>
              invite'[i] = invite[i]
  <1> DEFINE q == request[r]
             swept == [j \in Invitations |->
                         IF invite[j].user = q.of /\ invite[j].status = "pending"
                              /\ invite[j].overdue
                           THEN [invite[j] EXCEPT !.status = "expired"] ELSE invite[j]]
             new == [user |-> q.of, role |-> q.to, status |-> "pending", overdue |-> FALSE]
  <1>0. TypeOK /\ RequestInv(q)
    BY DEF RosterInv
  <1>1. /\ q.op = "invite" /\ invite[q.invite] = NoInvite
        /\ invite' = [swept EXCEPT ![q.invite] = new]
        /\ Answer(r) /\ UNCHANGED <<tenant, founder, accounts, session, member>>
    BY DEF Invite
  <1>2. q.of \in Users /\ q.to \in Roles /\ q.invite \in Invitations
    BY <1>0, <1>1 DEF RequestInv
  <1>3. /\ invite'[q.invite] = new /\ new \in InviteRow /\ new # NoInvite
        /\ \A i \in Invitations \ {q.invite} : invite'[i] = swept[i]
        /\ invite' = [i \in Invitations |-> IF i = q.invite THEN new ELSE swept[i]]
    BY <1>1, <1>2 DEF InviteRow, Statuses, NoInvite
  <1>4. ASSUME NEW i \in Invitations
        PROVE  /\ swept[i] \in {NoInvite} \cup InviteRow
               /\ swept[i] = invite[i] \/
                    /\ invite[i].status = "pending" /\ swept[i] # NoInvite
                    /\ swept[i].user = invite[i].user /\ swept[i].status = "expired"
    <2>1. invite[i] = NoInvite \/ invite[i] \in InviteRow
      BY <1>0, RosterTypes
    <2> QED
      BY <2>1 DEF InviteRow, NoInvite, Statuses
  <1> HIDE DEF swept, new
  <1>5. invite' \in [Invitations -> {NoInvite} \cup InviteRow]
    BY <1>3, <1>4
  <1>6. /\ \A i \in Invitations : invite[i] # NoInvite =>
             invite'[i] # NoInvite /\ invite'[i].user = invite[i].user
        /\ \A i \in Invitations : invite[i].status \in {"accepted", "revoked"} =>
             invite'[i] = invite[i]
        /\ \A i \in Invitations : invite'[i].status = "accepted" => invite'[i] = invite[i]
    BY <1>1, <1>2, <1>3, <1>4 DEF new, NoInvite
  <1> QED
    BY <1>1, <1>5, <1>6, InviteFrame

LEMMA RevokeStep ==
  ASSUME RosterInv, NEW r \in Requests, Revoke(r)
  PROVE  /\ RosterInv'
         /\ \A i \in Invitations : invite[i].status \in {"accepted", "revoked"} =>
              invite'[i] = invite[i]
  <1> DEFINE k == request[r].invite
  <1>0. TypeOK /\ RequestInv(request[r])
    BY DEF RosterInv
  <1>1. /\ k \in Invitations /\ invite[k] # NoInvite
        /\ invite[k].status \in {"pending", "expired"}
        /\ invite' = [invite EXCEPT ![k].status = "revoked"]
        /\ Answer(r) /\ UNCHANGED <<tenant, founder, accounts, session, member>>
    BY <1>0 DEF Revoke, RequestInv, Revocable
  <1>2. invite[k] \in InviteRow
    BY <1>0, <1>1, RosterTypes
  <1>3. /\ invite' \in [Invitations -> {NoInvite} \cup InviteRow]
        /\ invite'[k] # NoInvite /\ invite'[k].user = invite[k].user
        /\ invite'[k].status = "revoked"
        /\ \A i \in Invitations \ {k} : invite'[i] = invite[i]
    BY <1>0, <1>1, <1>2 DEF TypeOK, InviteRow, Statuses, NoInvite
  <1> QED
    BY <1>1, <1>3, InviteFrame

\* Accepting an invitation of somebody who is no member yet.
LEMMA JoinStep ==
  ASSUME RosterInv, NEW r \in Requests, AcceptSignedIn(r) \/ AcceptAnonymous(r)
  PROVE  /\ RosterInv'
         /\ \A i \in Invitations : invite[i].status \in {"accepted", "revoked"} =>
              invite'[i] = invite[i]
         /\ tenant' = "active"
  <1> DEFINE q == request[r]
             k == q.invite
             u == q.of
  <1>0. TypeOK /\ RequestInv(q) /\ \A v \in Users : MemberInv(v)
    BY DEF RosterInv
  <1>1. /\ q.op = "accept" /\ tenant = "active" /\ UNCHANGED <<tenant, founder>>
        /\ invite[k].status = "pending"
        /\ invite' = [invite EXCEPT ![k].status = "accepted"]
        /\ member' = [member EXCEPT ![u] = [role |-> invite[k].role, status |-> "active"]]
        /\ Answer(r)
    BY DEF AcceptSignedIn, AcceptAnonymous, Acceptable, Open, Join
  <1>2. /\ k \in Invitations /\ invite[k] \in InviteRow /\ u = invite[k].user /\ u \in Users
    BY <1>0, <1>1, RosterTypes DEF RequestInv, InviteRow
  <1>3. /\ member[u] = NoRow /\ u \in accounts'
        /\ accounts \subseteq accounts' /\ accounts' \subseteq Users
        /\ session' \subseteq accounts'
    <2>1. CASE AcceptSignedIn(r)
      BY <1>0, <1>1, <1>2, <2>1, ActorsAssumption DEF AcceptSignedIn, RequestInv, TypeOK
    <2>2. CASE AcceptAnonymous(r)
      BY <1>0, <1>2, <2>2 DEF AcceptAnonymous, MemberInv, TypeOK
    <2> QED
      BY <2>1, <2>2
  <1>4. /\ invite' \in [Invitations -> {NoInvite} \cup InviteRow]
        /\ invite'[k] # NoInvite /\ invite'[k].user = u
        /\ invite'[k].status = "accepted"
        /\ \A i \in Invitations \ {k} : invite'[i] = invite[i]
    BY <1>0, <1>1, <1>2 DEF TypeOK, InviteRow, Statuses, NoInvite
  <1>5. /\ member' \in [Users -> {NoRow} \cup MemberRow]
        /\ member'[u] # NoRow
        /\ \A v \in Users \ {u} : member'[v] = member[v]
    BY <1>0, <1>1, <1>2 DEF TypeOK, MemberRow, InviteRow, NoRow
  <1>6. /\ request' \in [Requests -> {NoRequest} \cup RequestRow]
        /\ \A p \in Requests : RequestInv(request[p])'
    BY <1>1, <1>2, <1>3, <1>4, OthersKnow
  <1>7. TypeOK'
    BY <1>0, <1>1, <1>3, <1>4, <1>5, <1>6 DEF TypeOK, InviteRow, MemberRow, RequestRow
  <1>8. ASSUME NEW v \in Users PROVE MemberInv(v)'
    <2>1. CASE v = u
      <3>1. Accepted(v) = {} /\ founder # v
        BY <1>0, <1>2, <1>3, <2>1 DEF MemberInv
      <3>2. Accepted(v)' = {k}
        BY <1>2, <1>4, <2>1, <3>1 DEF Accepted
      <3> QED
        BY <1>1, <1>2, <1>3, <1>5, <2>1, <3>1, <3>2 DEF MemberInv
    <2>2. CASE v # u
      <3>1. Accepted(v)' = Accepted(v)
        BY <1>2, <1>4, <2>2 DEF Accepted
      <3> QED
        BY <1>0, <1>1, <1>3, <1>5, <2>2, <3>1 DEF MemberInv
    <2> QED
      BY <2>1, <2>2
  <1> QED
    BY <1>1, <1>2, <1>4, <1>6, <1>7, <1>8 DEF RosterInv

LEMMA SignupStep ==
  ASSUME RosterInv, NEW r \in Requests, Signup(r)
  PROVE  RosterInv'
  <1> DEFINE u == request[r].of
  <1>0. TypeOK /\ RequestInv(request[r]) /\ \A v \in Users : MemberInv(v)
    BY DEF RosterInv
  <1>1. /\ u \in Users /\ u \notin accounts /\ UNCHANGED invite /\ Answer(r)
        /\ accounts' = accounts \cup {u} /\ session' = session \cup {u}
    BY <1>0 DEF Signup, RequestInv
  <1>2. member[u] = NoRow /\ founder # u /\ Accepted(u) = {}
    BY <1>0, <1>1 DEF MemberInv
  <1>3. /\ request' \in [Requests -> {NoRequest} \cup RequestRow]
        /\ \A p \in Requests : RequestInv(request[p])'
    BY <1>1, OthersKnow
  <1>4. \A v \in Users : Accepted(v)' = Accepted(v)
    BY <1>1 DEF Accepted
  <1>5. CASE UNCHANGED <<tenant, founder, member>>
    <2>1. TypeOK'
      BY <1>0, <1>1, <1>3, <1>5 DEF TypeOK, RequestRow
    <2>2. \A v \in Users : MemberInv(v)'
      BY <1>0, <1>1, <1>4, <1>5 DEF MemberInv
    <2> QED
      BY <1>3, <1>5, <2>1, <2>2 DEF RosterInv
  <1>6. CASE /\ tenant = "none" /\ tenant' = "active" /\ founder' = u
             /\ member' = [member EXCEPT ![u] = [role |-> "owner", status |-> "active"]]
    <2>0. /\ member' \in [Users -> {NoRow} \cup MemberRow]
          /\ member'[u] # NoRow
          /\ \A v \in Users \ {u} : member'[v] = member[v]
      BY <1>0, <1>1, <1>6, RolesAssumption DEF TypeOK, MemberRow, NoRow
    <2>1. TypeOK'
      BY <1>0, <1>1, <1>3, <1>6, <2>0 DEF TypeOK, RequestRow, MemberRow
    <2>2. founder = Nobody
      BY <1>6 DEF RosterInv
    <2>3. \A v \in Users : MemberInv(v)'
      BY <1>0, <1>1, <1>2, <1>4, <1>6, <2>0, <2>2, ActorsAssumption DEF MemberInv
    <2> QED
      BY <1>3, <1>6, <2>1, <2>3 DEF RosterInv
  <1> QED
    BY <1>5, <1>6 DEF Signup

-----------------------------------------------------------------------------
LEMMA OverdueStep ==
  ASSUME RosterInv, NEW i \in Invitations, Overdue(i)
  PROVE  RosterInv'
  <1>0. TypeOK
    BY DEF RosterInv
  <1>1. /\ invite[i].status = "pending" /\ invite' = [invite EXCEPT ![i].overdue = TRUE]
        /\ UNCHANGED <<tenant, founder, accounts, session, member, request>>
    BY DEF Overdue, Open
  <1>2. invite[i] \in InviteRow
    BY <1>0, <1>1, RosterTypes
  <1>3. /\ invite' \in [Invitations -> {NoInvite} \cup InviteRow]
        /\ invite'[i] # NoInvite /\ invite'[i].user = invite[i].user
        /\ invite'[i].status = "pending"
        /\ \A j \in Invitations \ {i} : invite'[j] = invite[j]
    BY <1>0, <1>1, <1>2 DEF TypeOK, InviteRow, Statuses, NoInvite
  <1>4. TypeOK'
    BY <1>0, <1>1, <1>3 DEF TypeOK, InviteRow
  <1>5. \A u \in Users : Accepted(u)' = Accepted(u)
    BY <1>1, <1>3 DEF Accepted
  <1>6. \A u \in Users : MemberInv(u)'
    BY <1>1, <1>5 DEF RosterInv, MemberInv
  <1>7. \A r \in Requests : RequestInv(request[r])'
    BY <1>1, <1>3 DEF RosterInv, RequestInv
  <1> QED
    BY <1>1, <1>4, <1>6, <1>7 DEF RosterInv

LEMMA RosterStep == RosterInv /\ [Next]_vars => RosterInv'
  <1> SUFFICES ASSUME RosterInv, [Next]_vars PROVE RosterInv'
    OBVIOUS
  <1>0. TypeOK
    BY DEF RosterInv
  <1>1. CASE /\ UNCHANGED <<tenant, founder, accounts, member, invite, request>>
             /\ session' \subseteq accounts
    <2>1. TypeOK'
      BY <1>0, <1>1 DEF TypeOK
    <2> QED
      BY <1>1, <2>1 DEF RosterInv, RequestInv, MemberInv, Accepted
  <1>2. CASE /\ UNCHANGED <<founder, accounts, session, member, invite, request>>
             /\ tenant' \in {"active", "suspended"}
    <2>1. TypeOK'
      BY <1>0, <1>2 DEF TypeOK
    <2> QED
      BY <1>2, <2>1 DEF RosterInv, RequestInv, MemberInv, Accepted
  <1>3. ASSUME NEW r \in Requests, BeginRequest(r)
        PROVE  RosterInv'
    BY <1>3, EnterStep DEF RosterInv, MemberInv, Accepted
  <1>4. ASSUME NEW r \in Requests, Refuse(r)
        PROVE  RosterInv'
    BY <1>0, <1>4, InviteFrame DEF Refuse, TypeOK, InviteRow
  <1>5. ASSUME NEW r \in Requests, Commit(r)
        PROVE  RosterInv'
    BY <1>5, UpdateStep, InviteStep, RevokeStep, JoinStep, SignupStep DEF Commit
  <1>6. CASE UNCHANGED vars
    BY <1>0, <1>1, <1>6 DEF vars, TypeOK
  <1> QED
    BY <1>0, <1>1, <1>2, <1>3, <1>4, <1>5, <1>6, OverdueStep
    DEF Next, Login, Logout, SignedIn, CreateTenant, SetTenantStatus, TypeOK

\* The roster's invariant is inductive.
THEOREM RosterInvariance == Spec => []RosterInv
  <1> QED
    BY InitRoster, RosterStep, PTL DEF Spec

LEMMA InvitedOnce ==
  ASSUME RosterInv
  PROVE  MembersAreInvited
  <1> SUFFICES ASSUME NEW u \in Users
               PROVE  /\ Cardinality(Accepted(u)) =
                            IF member[u] = NoRow \/ founder = u THEN 0 ELSE 1
                      /\ member[u] # NoRow => u \in accounts
    BY DEF MembersAreInvited, Accepted
  <1>1. MemberInv(u)
    BY DEF RosterInv
  <1>2. CASE member[u] = NoRow \/ founder = u
    BY <1>1, <1>2, FS_EmptySet DEF MemberInv
  <1>3. CASE ~(member[u] = NoRow \/ founder = u)
    BY <1>1, <1>3, FS_Singleton DEF MemberInv
  <1> QED
    BY <1>1, <1>2, <1>3 DEF MemberInv

\* However requests race, a membership stems from the sign-up or from one accepted
\* invitation (accept_invitation, revoke_invitation, create_invitation).
THEOREM MembersInvited == Spec => []MembersAreInvited
  <1> QED
    BY RosterInvariance, InvitedOnce, PTL

\* An owner besides the one who is demoted or disabled.
LEMMA AnotherOwner ==
  ASSUME TypeOK, Cardinality(ActiveOwners) > 1, NEW u
  PROVE  \E v \in ActiveOwners : v # u
  <1> SUFFICES ASSUME ActiveOwners \subseteq {u} PROVE FALSE
    OBVIOUS
  <1>1. IsFiniteSet({u}) /\ Cardinality({u}) = 1
    BY FS_Singleton
  <1>2. Cardinality(ActiveOwners) <= 1 /\ Cardinality(ActiveOwners) \in Nat
    BY <1>1, FS_Subset, FS_CardinalityType
  <1> QED
    BY <1>2

LEMMA OwnerStays ==
  ASSUME RosterInv, [Next]_vars, ActiveOwners # {}
  PROVE  ActiveOwners' # {}
  <1>0. TypeOK
    BY DEF RosterInv
  <1>1. CASE \A u \in Users : member[u] # NoRow => member'[u] = member[u]
    BY <1>1 DEF ActiveOwners, NoRow
  <1>2. ASSUME NEW r \in Requests, UpdateRole(r) \/ UpdateStatus(r)
        PROVE  ActiveOwners' # {}
    <2> DEFINE u == request[r].of
               to == request[r].to
    <2>1. /\ u \in Users /\ member[u] \in MemberRow
          /\ \/ OwnerLeft(r)
             \/ to = "active"
          /\ \/ member' = [member EXCEPT ![u].role = to]
             \/ to \in {"active", "disabled"} /\ member' = [member EXCEPT ![u].status = to]
      BY <1>0, <1>2, RosterTypes
      DEF UpdateRole, UpdateStatus, MayChange, RosterInv, RequestInv
    <2>2. \A v \in Users : v # u => member'[v] = member[v]
      BY <1>0, <2>1 DEF TypeOK
    <2>3. CASE member[u].role # "owner"
      BY <2>2, <2>3 DEF ActiveOwners
    <2>4. CASE member[u].role = "owner" /\ OwnerLeft(r)
      BY <1>0, <2>2, <2>4, AnotherOwner DEF ActiveOwners, OwnerLeft
    <2>5. CASE to = "active" /\ UpdateStatus(r)
      <3>1. member'[u] = [member[u] EXCEPT !.status = "active"]
        BY <1>0, <2>1, <2>5 DEF UpdateStatus, TypeOK
      <3>2. \A v \in ActiveOwners : v \in ActiveOwners'
        BY <2>1, <2>2, <3>1 DEF ActiveOwners, MemberRow
      <3> QED
        BY <3>2
    <2> QED
      BY <1>2, <2>3, <2>4, <2>5 DEF UpdateRole, UpdateStatus, RosterInv, RequestInv
  <1>3. ASSUME NEW r \in Requests, AcceptSignedIn(r) \/ AcceptAnonymous(r) \/ Signup(r)
        PROVE  \A u \in Users : member[u] # NoRow => member'[u] = member[u]
    <2>1. \/ UNCHANGED member
          \/ /\ member[request[r].of] = NoRow \/ request[r].of \notin accounts
             /\ \E mine : member' = [member EXCEPT ![request[r].of] = mine]
      BY <1>3 DEF AcceptSignedIn, AcceptAnonymous, Join, Signup
    <2>2. \A u \in Users : u \notin accounts => member[u] = NoRow
      BY DEF RosterInv, MemberInv
    <2> QED
      BY <1>0, <2>1, <2>2 DEF TypeOK
  <1>4. CASE UNCHANGED member
    BY <1>1, <1>4
  <1> QED
    BY <1>1, <1>2, <1>3, <1>4, EnterStep
    DEF Next, vars, Commit, Login, Logout, CreateTenant, SetTenantStatus, Overdue, Refuse,
        Invite, Revoke

\* Whoever demotes or disables whom at the same time, an active owner is left: the count
\* and the change are under one lock (members.rs, lock_roster).
THEOREM OwnerAlwaysLeft == Spec => OwnerRemains
  <1>1. RosterInv /\ [Next]_vars => [ActiveOwners # {} => ActiveOwners' # {}]_vars
    BY OwnerStays
  <1> QED
    BY RosterInvariance, <1>1, PTL DEF Spec, OwnerRemains

LEMMA JoinsFinalStep ==
  ASSUME RosterInv, [Next]_vars
  PROVE  /\ \A i \in Invitations : invite[i].status \in {"accepted", "revoked"} =>
              invite'[i] = invite[i]
         /\ \A u \in Users : member[u] = NoRow /\ member'[u] # NoRow => tenant' = "active"
  <1>0. TypeOK
    BY DEF RosterInv
  <1>1. ASSUME NEW r \in Requests, UpdateRole(r) \/ UpdateStatus(r)
        PROVE  \A u \in Users : member[u] = NoRow => member'[u] = NoRow
    BY <1>0, <1>1 DEF UpdateRole, UpdateStatus, MayChange, TypeOK
  <1>2. ASSUME NEW r \in Requests, UpdateRole(r) \/ UpdateStatus(r) \/ Signup(r)
        PROVE  UNCHANGED invite
    BY <1>2 DEF UpdateRole, UpdateStatus, Signup
  <1>3. ASSUME NEW r \in Requests, Signup(r)
        PROVE  member' = member \/ tenant' = "active"
    BY <1>3 DEF Signup
  <1>4. ASSUME NEW r \in Requests, Invite(r) \/ Revoke(r)
        PROVE  UNCHANGED member
    BY <1>4 DEF Invite, Revoke
  <1>5. ASSUME NEW i \in Invitations, Overdue(i)
        PROVE  /\ UNCHANGED member
               /\ \A j \in Invitations : invite[j].status \in {"accepted", "revoked"} =>
                    invite'[j] = invite[j]
    BY <1>0, <1>5 DEF Overdue, Open, TypeOK
  <1>6. CASE UNCHANGED <<member, invite>>
    BY <1>6
  <1>7. ASSUME NEW r \in Requests, Commit(r)
        PROVE  /\ \A i \in Invitations : invite[i].status \in {"accepted", "revoked"} =>
                    invite'[i] = invite[i]
               /\ \A u \in Users : member[u] = NoRow /\ member'[u] # NoRow =>
                    tenant' = "active"
    BY <1>1, <1>2, <1>3, <1>4, <1>7, InviteStep, RevokeStep, JoinStep DEF Commit
  <1> QED
    BY <1>5, <1>6, <1>7, EnterStep
    DEF Next, vars, Login, Logout, CreateTenant, SetTenantStatus, Refuse

\* Who joins does so while the tenant is active, and what was accepted or revoked stays
\* so, although both are decided on what was read before.
THEOREM JoinsFinal == Spec => JoinsAreFinal
  <1>1. RosterInv /\ [Next]_vars =>
          /\ [\A i \in Invitations : invite[i].status \in {"accepted", "revoked"} =>
                invite'[i] = invite[i]]_vars
          /\ [\A u \in Users : member[u] = NoRow /\ member'[u] # NoRow =>
                tenant' = "active"]_vars
    BY JoinsFinalStep
  <1> QED
    BY RosterInvariance, <1>1, PTL DEF Spec, JoinsAreFinal, JoinsActiveTenant, SettledForEver
=============================================================================
