--------------------------- MODULE MCTenancyProofs ---------------------------
(***************************************************************************)
(* Proofs about the rest of what surrounds a tenant, through the instances *)
(* of MCTenancy and for every value of their constants: first each         *)
(* component by itself (Registry, Bill, Resolver, Limiter, Stream), and at *)
(* the end the composition, with the roster of TenancyProofs.              *)
(***************************************************************************)
EXTENDS TenancyProofs, SequenceTheorems, FunctionTheorems

-----------------------------------------------------------------------------
(* The tools (ToolRegistry).                                               *)

\* What a handler carries between its check and its statement.
AdminInv(a) ==
  /\ a.step = "create" => a.name \in Names \ Builtins /\ a.scope \in Names \cup {NoName}
  /\ a.step = "update" =>
       /\ a.tool \in Tools /\ a.enabled \in BOOLEAN
       /\ a.name = NoName \/ a.name \in Names \ Builtins
       /\ a.scope \in Names \cup {NoName}

\* The index keeps live names apart from each other, the handlers' checks from the catalog's.
NamesInv ==
  /\ \A t \in Registry!Live : tool[t].name \in Names \ Builtins
  /\ \A t, u \in Registry!Live : tool[t].name = tool[u].name => t = u

ToolsInv ==
  /\ Registry!TypeOK
  /\ admin = [a \in Admins |-> admin[a]]
  /\ \A a \in Admins : AdminInv(admin[a])
  /\ NamesInv
  /\ Registry!OffersAreUnambiguous

-----------------------------------------------------------------------------
(* The plan (Billing).                                                     *)

TxRow ==
  [step : {"idle", "plan", "write"}, plan : Plans \cup {NoPlan},
   status : {"none", "active", "past_due"}]

\* A transaction holds the row of a plan that exists, alone.
TxInv(h) ==
  tx[h].step # "idle" =>
    /\ tx[h].plan \in Plans /\ tx[h].status \in {"active", "past_due"}
    /\ plan[tx[h].plan] # "none"
    /\ \A g \in Operators : tx[g].step # "idle" /\ tx[g].plan = tx[h].plan => g = h

\* One that is about to put the tenant on a retired plan renews what the tenant has, and holds
\* the subscription's row.
WriteInv(h) ==
  tx[h].step = "write" =>
    \/ plan[tx[h].plan] = "active"
    \/ sub.plan = tx[h].plan /\ \A g \in Operators : tx[g].step = "write" => g = h

PlanInv ==
  /\ Bill!TypeOK
  /\ tx \in [Operators -> TxRow]
  /\ \A h \in Operators : TxInv(h) /\ WriteInv(h)
  /\ plan[Default] = "active"
  /\ Bill!OvershootIsBounded

-----------------------------------------------------------------------------
(* The budget (TenantBudget).                                              *)

AskerRow == [step : {"ask", "read", "keep", "done"}, since : Nat, value : Nat]

\* What a request read is no older than the request, and no request is older than MaxReading.
AskerInv(a) ==
  /\ asker[a].step \in {"read", "keep"} => second - asker[a].since <= MaxReading
  /\ asker[a].step = "keep" =>
       asker[a].value \in Resolver!Values /\ placed[asker[a].value] >= asker[a].since

BudgetInv ==
  /\ Resolver!TypeOK
  /\ second \in Nat
  /\ asker \in [Askers -> AskerRow]
  /\ placed \in [Resolver!Values -> Int]
  /\ placed[row] = second
  /\ \A v \in Resolver!Values : placed[v] <= second
  /\ \A a \in Askers : AskerInv(a)
  /\ placed[cache.value] >= cache.until - Ttl - MaxReading
  /\ Resolver!BudgetIsRecent

-----------------------------------------------------------------------------
(* The limiter (RateLimit).                                                *)

CheckRow == [step : {"idle", "counting", "weighing"}, at : Limiter!Seconds, count : Nat]
InWindow(g, w) == Limiter!WindowOf(g.at) = w

\* What a window let through and what it may still, at a count of at most n.
Grants(w) == {g \in granted : InWindow(g, w)}
Weighing(w, n) ==
  {c \in Checks : check[c].step = "weighing" /\ InWindow(check[c], w) /\ check[c].count <= n}

KeyInv(w) ==
  /\ key[w].count > 0 => key[w].until >= Window * w + 2 * Window
  /\ key[w].count > 0 => Window * w <= clock

\* Every request that a window lets through has a count of its own.
WindowInv(w) ==
  LET sum(n) == Cardinality(Grants(w)) + Cardinality(Weighing(w, n))
  IN /\ sum(Budget) <= key[w].count
     /\ sum(Budget) <= Budget
     /\ ~straddled /\ w - 1 \in Limiter!Windows /\ key[w - 1].count > 0 => sum(Budget - 1) <= Budget - 1

CheckInv(c) ==
  check[c].step # "idle" =>
    /\ check[c].at <= clock /\ clock - check[c].at < Window
    /\ ~straddled => InWindow(check[c], Limiter!WindowOf(clock))
    /\ ~straddled /\ check[c].step = "weighing" => reachable

LimitInv ==
  /\ Limiter!TypeOK
  /\ check \in [Checks -> CheckRow]
  /\ straddled \in BOOLEAN
  /\ IsFiniteSet(granted)
  /\ \A w \in Limiter!Windows : KeyInv(w) /\ WindowInv(w)
  /\ \A c \in Checks : CheckInv(c)

-----------------------------------------------------------------------------
(* The answer of a vendor (ProviderStreams).                               *)

Pieces == {"first", "more", "start", "delta", "stop", "call"}
FrameRow ==
  {f \in [kind : Pieces \cup {"text", "finish", "end"}, slot : Slots, n : Nat,
          reason : {"none", "stop", "tool_use", "length"}] : f.kind = "finish" => f.reason # "none"}
EventRow ==
  [kind : {"text", "call", "done", "error"}, slot : Nat, args : {<<>>, <<1, 2>>},
   reason : {"none", "other", "stop", "tool_use", "length", "unavailable", "malformed"}]
AccRow == [held : BOOLEAN, args : {<<>>, <<1>>, <<1, 2>>}]

\* Frame i of the wire is the n-th piece of a call.
IsPiece(i, s, n) ==
  i \in DOMAIN wire /\ wire[i].kind \in Pieces /\ wire[i].slot = s /\ wire[i].n = n
IsEnd(i) == i \in DOMAIN wire /\ wire[i].kind \in {"finish", "end"}

Called(s) == \E i \in DOMAIN out : out[i].kind = "call" /\ out[i].slot = s

\* How many pieces of a call the reader has had.
Had(s) ==
  IF Called(s) THEN Stream!Needed
  ELSE IF vendor = "openai" THEN Len(acc[s].args)
  ELSE IF vendor = "anthropic" /\ acc[s].held THEN Len(acc[s].args) + 1
  ELSE 0

AnswerTypes ==
  /\ Stream!TypeOK
  /\ wire \in Seq(FrameRow) /\ out \in Seq(EventRow) /\ acc \in [Slots -> AccRow]
  /\ progress \in [Slots -> Nat] /\ \A s \in Slots : progress[s] <= Stream!Needed

\* The pieces of a call that have left come in their order, none is missing before another, and
\* those that the reader has had are gone.  Where anthropic stops the block of a cut call
\* the ones before may never come.
PieceInv(i, s, n) ==
  IsPiece(i, s, n) =>
    /\ n \in 1..Stream!Needed /\ wire[i].kind = Stream!FramesOfCall[vendor][n]
    /\ progress[s] > 0
    /\ n <= progress[s] \/ (vendor = "anthropic" /\ n = 4 /\ ending # "none")
    /\ ~Called(s) /\ Had(s) < n
    /\ \A j, m \in Nat : IsPiece(j, s, m) /\ i < j => n < m
    /\ n <= progress[s] => Had(s) = n - 1 \/ \E j \in Nat : j < i /\ IsPiece(j, s, n - 1)

\* What has been sent and not been read is on its way, while the vendor may send more.
SlotInv(s) ==
  /\ ending = "none" =>
       /\ Had(s) <= progress[s]
       /\ Had(s) = progress[s] \/ \E i \in Nat : IsPiece(i, s, progress[s])
  /\ Had(s) > 0 => progress[s] > 0
  /\ acc[s].args # <<>> => acc[s].held
  /\ vendor = "openai" /\ acc[s].held => acc[s].args # <<>>
  /\ Called(s) \/ vendor = "gemini" => acc[s] = Stream!NoAcc

\* Behind a finish reason is at most the end, and before one for calls are all their pieces.
EndInv(i) ==
  /\ IsEnd(i) => ending # "none" /\ \A j \in Nat : i < j /\ j \in DOMAIN wire => IsEnd(j)
  /\ IsEnd(i) /\ wire[i].kind = "end" => ending = "over" /\ i = Len(wire)
  /\ IsEnd(i) /\ wire[i].reason = "tool_use" /\ wire[i].kind = "finish" =>
       \A s \in Stream!Begun :
         /\ progress[s] = Stream!Needed
         /\ Had(s) = Stream!Needed \/ \E j \in Nat : j < i /\ IsPiece(j, s, Stream!Needed)

\* Nothing but an end is read after one, and it is told after the calls.
DoneInv ==
  /\ finish = "tool_use" => ending # "none" /\ \A s \in Stream!Begun : Called(s)
  /\ \A i \in DOMAIN out : out[i].kind = "done" =>
       /\ ending # "none" /\ \A j \in DOMAIN wire : IsEnd(j)
       /\ vendor # "gemini" => ending = "over" /\ wire = <<>>
  /\ \A i \in Stream!CallsIn :
       out[i].slot \in Slots /\ (~Stream!Parses(out[i].args) => ending # "none")

AnswerInv ==
  /\ AnswerTypes
  /\ \A i, n \in Nat : \A s \in Slots : PieceInv(i, s, n)
  /\ \A s \in Slots : SlotInv(s)
  /\ \A i \in Nat : EndInv(i)
  /\ DoneInv
  /\ Stream!CallsArriveWhole

-----------------------------------------------------------------------------
(* The tools: proofs.                                                      *)

LEMMA InitTools == Registry!Init => ToolsInv
BY SurroundingsAssumption
DEF Registry!Init, ToolsInv, Registry!TypeOK, AdminInv, NamesInv, Registry!Live,
    Registry!OffersAreUnambiguous, Registry!NoRow, Registry!Idle, Registry!NoCall,
    Registry!RegistryAssumption

\* A bound of requests is kept.
LEMMA RequestCounts ==
  ASSUME Registry!TypeOK, Registry!Request
  PROVE  changes' \in 0..MaxRequests
  <1>1. changes \in 0..MaxRequests
    BY DEF Registry!TypeOK
  <1>2. changes < MaxRequests /\ changes' = changes + 1
    BY DEF Registry!Request
  <1>3. MaxRequests \in Nat
    BY SurroundingsAssumption DEF Registry!RegistryAssumption
  <1> QED
    BY <1>1, <1>2, <1>3

\* Nothing but the engine's part changes what was offered.
LEMMA OffersStay ==
  ASSUME Registry!OffersAreUnambiguous, UNCHANGED <<offered, called>>
  PROVE  Registry!OffersAreUnambiguous'
BY DEF Registry!OffersAreUnambiguous

ToolRow ==
  [state : {"none", "live", "deleted"}, name : Names \cup {NoName},
   sealed : Names \cup {NoName}, enabled : BOOLEAN]

\* The handlers' first steps write no tool.
LEMMA StartStep ==
  ASSUME ToolsInv, NEW a \in Admins, Registry!StartCreate(a) \/ Registry!StartUpdate(a)
  PROVE  ToolsInv'
  <1>1. PICK b : admin' = [admin EXCEPT ![a] = b] /\ AdminInv(b) /\ b.step \in {"create", "update"}
    <2>1. CASE Registry!StartCreate(a)
      <3>1. PICK n \in Names, credential \in BOOLEAN :
              /\ n \notin Builtins
              /\ admin' = [admin EXCEPT ![a] =
                   [step |-> "create", tool |-> NoTool, name |-> n, credential |-> credential,
                    scope |-> IF credential THEN n ELSE NoName, enabled |-> TRUE]]
        BY <2>1 DEF Registry!StartCreate, Registry!NameIsFree
      <3> DEFINE b == [step |-> "create", tool |-> NoTool, name |-> n, credential |-> credential,
                       scope |-> IF credential THEN n ELSE NoName, enabled |-> TRUE]
      <3>2. AdminInv(b) /\ b.step \in {"create", "update"}
        BY <3>1 DEF AdminInv
      <3>3. admin' = [admin EXCEPT ![a] = b]
        BY <3>1
      <3> HIDE DEF b
      <3> QED
        BY <3>2, <3>3
    <2>2. CASE Registry!StartUpdate(a)
      <3>1. PICK t \in Tools, n \in Names \cup {NoName}, credential \in BOOLEAN, enabled \in BOOLEAN :
              /\ n # NoName => n \notin Builtins
              /\ admin' = [admin EXCEPT ![a] =
                   [step |-> "update", tool |-> t, name |-> n, credential |-> credential,
                    scope |-> IF ~credential THEN NoName ELSE IF n # NoName THEN n ELSE tool[t].name,
                    enabled |-> enabled]]
        BY <2>2 DEF Registry!StartUpdate, Registry!NameIsFree
      <3>2. tool[t].name \in Names \cup {NoName}
        BY DEF ToolsInv, Registry!TypeOK
      <3> DEFINE b == [step |-> "update", tool |-> t, name |-> n, credential |-> credential,
                       scope |-> IF ~credential THEN NoName ELSE IF n # NoName THEN n ELSE tool[t].name,
                       enabled |-> enabled]
      <3>3. AdminInv(b) /\ b.step \in {"create", "update"}
        BY <3>1, <3>2 DEF AdminInv
      <3>4. admin' = [admin EXCEPT ![a] = b]
        BY <3>1
      <3> HIDE DEF b
      <3> QED
        BY <3>3, <3>4
    <2> QED
      BY <2>1, <2>2
  <1>2. UNCHANGED <<policy, tool, offered, called>>
    BY DEF Registry!StartCreate, Registry!StartUpdate
  <1>3. changes' \in 0..MaxRequests
    BY RequestCounts DEF Registry!StartCreate, Registry!StartUpdate, ToolsInv
  <1>4. \A h \in Admins : admin'[h] = IF h = a THEN b ELSE admin[h]
    BY <1>1 DEF ToolsInv
  <1>5. admin' = [h \in Admins |-> admin'[h]]
    BY <1>1 DEF ToolsInv
  <1>6. (\A h \in Admins : AdminInv(admin[h]))'
    BY <1>1, <1>4 DEF ToolsInv, AdminInv
  <1>7. (\A h \in Admins : admin[h].step \in {"idle", "create", "update"})'
    BY <1>1, <1>4 DEF ToolsInv, Registry!TypeOK
  <1>8. Registry!TypeOK' /\ NamesInv'
    BY <1>2, <1>3, <1>7 DEF ToolsInv, Registry!TypeOK, NamesInv, Registry!Live
  <1> QED
    BY <1>2, <1>5, <1>6, <1>8, OffersStay DEF ToolsInv

\* The statements write a live row whose name no other has.
LEMMA WriteStep ==
  ASSUME ToolsInv, NEW a \in Admins, Registry!Insert(a) \/ Registry!Update(a)
  PROVE  ToolsInv'
  <1>1. \/ UNCHANGED tool
        \/ \E t \in Tools, x \in ToolRow :
             /\ tool' = [tool EXCEPT ![t] = x]
             /\ x.state = "live" /\ x.name \in Names \ Builtins
             /\ \A u \in Registry!Live : tool[u].name = x.name => u = t
    <2>1. CASE Registry!Insert(a)
      <3>1. admin[a].name \in Names \ Builtins /\ admin[a].scope \in Names \cup {NoName}
        BY <2>1 DEF Registry!Insert, ToolsInv, AdminInv
      <3> DEFINE x == [state |-> "live", name |-> admin[a].name, sealed |-> admin[a].scope,
                       enabled |-> TRUE]
      <3>2. x \in ToolRow /\ x.state = "live" /\ x.name = admin[a].name
        BY <3>1 DEF ToolRow
      <3>3. PICK t \in Tools :
              tool' = IF Registry!IndexAdmits(admin[a].name, t)
                        THEN [tool EXCEPT ![t] = x] ELSE tool
        BY <2>1 DEF Registry!Insert
      <3>4. ASSUME Registry!IndexAdmits(admin[a].name, t)
            PROVE  \A u \in Registry!Live : tool[u].name = x.name => u = t
        BY <3>2, <3>4 DEF Registry!IndexAdmits, Registry!Bears, Registry!Live
      <3> HIDE DEF x
      <3> QED
        BY <3>1, <3>2, <3>3, <3>4
    <2>2. CASE Registry!Update(a)
      <3> DEFINE t == admin[a].tool
                 x == Registry!Patched(tool[t], admin[a])
      <3>1. /\ t \in Tools /\ admin[a].enabled \in BOOLEAN
            /\ admin[a].name = NoName \/ admin[a].name \in Names \ Builtins
            /\ admin[a].scope \in Names \cup {NoName}
        BY <2>2 DEF Registry!Update, ToolsInv, AdminInv
      <3>2. tool[t] \in ToolRow
        BY <3>1 DEF ToolsInv, Registry!TypeOK, ToolRow
      <3>3. /\ x \in ToolRow /\ x.state = tool[t].state
            /\ x.name = IF admin[a].name # NoName THEN admin[a].name ELSE tool[t].name
        BY <3>1, <3>2 DEF Registry!Patched, ToolRow
      <3>4. \/ UNCHANGED tool
            \/ /\ t \in Registry!Live
               /\ admin[a].name # NoName => Registry!IndexAdmits(admin[a].name, t)
               /\ tool' = [tool EXCEPT ![t] = x]
        BY <2>2 DEF Registry!Update
      <3>5. ASSUME t \in Registry!Live, admin[a].name # NoName => Registry!IndexAdmits(admin[a].name, t)
            PROVE  /\ x.state = "live" /\ x.name \in Names \ Builtins
                   /\ \A u \in Registry!Live : tool[u].name = x.name => u = t
        BY <3>1, <3>3, <3>5
        DEF ToolsInv, NamesInv, Registry!IndexAdmits, Registry!Bears, Registry!Live
      <3> HIDE DEF x, t
      <3> QED
        BY <3>1, <3>3, <3>4, <3>5
    <2> QED
      BY <2>1, <2>2
  <1>2. /\ tool' \in [Tools -> ToolRow]
        /\ NamesInv'
    <2>1. CASE UNCHANGED tool
      BY <2>1 DEF ToolsInv, Registry!TypeOK, ToolRow, NamesInv, Registry!Live
    <2>2. ASSUME NEW t \in Tools, NEW x \in ToolRow,
                 tool' = [tool EXCEPT ![t] = x],
                 x.state = "live", x.name \in Names \ Builtins,
                 \A u \in Registry!Live : tool[u].name = x.name => u = t
          PROVE  tool' \in [Tools -> ToolRow] /\ NamesInv'
      <3>1. tool \in [Tools -> ToolRow]
        BY DEF ToolsInv, Registry!TypeOK, ToolRow
      <3>2. tool' \in [Tools -> ToolRow]
        BY <2>2, <3>1
      <3>3. \A u \in Tools : tool'[u] = IF u = t THEN x ELSE tool[u]
        BY <2>2, <3>1
      <3> QED
        BY <2>2, <3>2, <3>3 DEF ToolsInv, NamesInv, Registry!Live
    <2> QED
      BY <1>1, <2>1, <2>2
  <1>3. /\ \A h \in Admins : admin'[h] = IF h = a THEN Registry!Idle ELSE admin[h]
        /\ admin' = [h \in Admins |-> admin'[h]]
    BY DEF Registry!Insert, Registry!Update, ToolsInv
  <1>4. (\A h \in Admins : AdminInv(admin[h]))'
    BY <1>3 DEF ToolsInv, AdminInv, Registry!Idle
  <1>5. UNCHANGED <<policy, offered, called, changes>>
    BY DEF Registry!Insert, Registry!Update
  <1>6. (\A h \in Admins : admin[h].step \in {"idle", "create", "update"})'
    <2>1. \A h \in Admins : admin[h].step \in {"idle", "create", "update"}
      BY DEF ToolsInv, Registry!TypeOK
    <2>2. Registry!Idle.step = "idle"
      BY DEF Registry!Idle
    <2> QED
      BY <1>3, <2>1, <2>2
  <1>7. Registry!TypeOK'
    BY <1>2, <1>5, <1>6 DEF ToolsInv, Registry!TypeOK, ToolRow
  <1> QED
    BY <1>2, <1>3, <1>4, <1>5, <1>7, OffersStay DEF ToolsInv

LEMMA DeleteStep ==
  ASSUME ToolsInv, Registry!Delete
  PROVE  ToolsInv'
  <1>1. PICK t \in Registry!Live : tool' = [tool EXCEPT ![t].state = "deleted"]
    BY DEF Registry!Delete
  <1>2. tool \in [Tools -> ToolRow] /\ t \in Tools
    BY DEF ToolsInv, Registry!TypeOK, ToolRow, Registry!Live
  <1>3. tool' \in [Tools -> ToolRow]
    BY <1>1, <1>2 DEF ToolRow
  <1>4. \A u \in Tools : tool'[u].name = tool[u].name /\ (tool'[u].state = "live" => tool[u].state = "live")
    BY <1>1, <1>2 DEF ToolRow
  <1>5. NamesInv'
    BY <1>4 DEF ToolsInv, NamesInv, Registry!Live
  <1>6. UNCHANGED <<policy, admin, offered, called>> /\ changes' \in 0..MaxRequests
    BY RequestCounts DEF Registry!Delete, ToolsInv
  <1> QED
    BY <1>3, <1>5, <1>6 DEF ToolsInv, Registry!TypeOK, ToolRow, Registry!OffersAreUnambiguous, AdminInv

LEMMA ResolveStep ==
  ASSUME ToolsInv, Registry!Resolve
  PROVE  ToolsInv'
  <1>1. \A o \in offered' :
          \/ \E b \in Builtins : o = Registry!OfferedBuiltin(b)
          \/ \E t \in Registry!Live : o = Registry!OfferedTool(t)
    BY DEF Registry!Resolve
  <1>2. \A b \in Builtins :
          LET o == Registry!OfferedBuiltin(b)
          IN /\ o \in [name : Names, tool : Tools \cup {NoTool}, approval : BOOLEAN]
             /\ o.name = b /\ o.tool = NoTool /\ (b \in MustApprove => o.approval)
    BY SurroundingsAssumption
    DEF ToolsInv, Registry!TypeOK, Registry!OfferedBuiltin, Registry!RegistryAssumption
  <1>3. \A t \in Registry!Live :
          LET o == Registry!OfferedTool(t)
          IN /\ o \in [name : Names, tool : Tools \cup {NoTool}, approval : BOOLEAN]
             /\ o.name = tool[t].name /\ o.name \notin Builtins
    BY DEF ToolsInv, NamesInv, Registry!Live, Registry!OfferedTool
  <1>4. offered' \subseteq [name : Names, tool : Tools \cup {NoTool}, approval : BOOLEAN]
    BY <1>1, <1>2, <1>3
  <1>5. \A o, p \in offered' : o.name = p.name => o = p
    BY <1>1, <1>2, <1>3 DEF ToolsInv, NamesInv
  <1>6. \A o \in offered' : o.name \in MustApprove => o.tool = NoTool /\ o.approval
    BY <1>1, <1>2, <1>3, SurroundingsAssumption DEF Registry!RegistryAssumption
  <1>7. UNCHANGED <<policy, tool, admin, called, changes>>
    BY DEF Registry!Resolve
  <1>8. Registry!TypeOK'
    BY <1>4, <1>7 DEF ToolsInv, Registry!TypeOK
  <1>9. Registry!OffersAreUnambiguous'
    <2>1. called.credential \in {NoName, called.name}
      BY DEF ToolsInv, Registry!OffersAreUnambiguous
    <2> QED
      BY <1>5, <1>6, <1>7, <2>1 DEF Registry!OffersAreUnambiguous
  <1> QED
    BY <1>7, <1>8, <1>9 DEF ToolsInv, AdminInv, NamesInv, Registry!Live

\* A handler cannot put two live tools under one name, nor one under a catalog's.
LEMMA ToolsStep == ToolsInv /\ [Registry!Next]_toolVars => ToolsInv'
  <1> SUFFICES ASSUME ToolsInv, [Registry!Next]_toolVars
               PROVE  ToolsInv'
    OBVIOUS
  <1>1. CASE Registry!UpdateBuiltinPolicy
    <2>1. policy' \in [Builtins -> [enabled : BOOLEAN, approval : BOOLEAN]]
      <3>1. PICK b \in Builtins, enabled \in BOOLEAN, approval \in BOOLEAN :
              policy' = [policy EXCEPT ![b] =
                           [enabled |-> enabled, approval |-> b \in MustApprove \/ approval]]
        BY <1>1 DEF Registry!UpdateBuiltinPolicy
      <3>2. (b \in MustApprove \/ approval) \in BOOLEAN
        OBVIOUS
      <3> QED
        BY <3>1, <3>2 DEF ToolsInv, Registry!TypeOK
    <2>2. UNCHANGED <<tool, admin, offered, called>> /\ changes' \in 0..MaxRequests
      BY <1>1, RequestCounts DEF Registry!UpdateBuiltinPolicy, ToolsInv
    <2> QED
      BY <2>1, <2>2
      DEF ToolsInv, Registry!TypeOK, Registry!OffersAreUnambiguous, AdminInv, NamesInv, Registry!Live
  <1>2. CASE Registry!CallTenantTool
    <2>1. PICK o \in offered :
            \E outcome \in {"sent", "not found", "not decrypted"}, credential \in {NoName, o.name} :
              called' = [tool |-> o.tool, name |-> o.name, credential |-> credential,
                         outcome |-> outcome]
      BY <1>2 DEF Registry!CallTenantTool, Registry!Opens
    <2>2. PICK outcome \in {"sent", "not found", "not decrypted"}, credential \in {NoName, o.name} :
            called' = [tool |-> o.tool, name |-> o.name, credential |-> credential,
                       outcome |-> outcome]
      BY <2>1
    <2>3. UNCHANGED <<policy, tool, admin, offered, changes>>
      BY <1>2 DEF Registry!CallTenantTool
    <2>4. /\ called'.credential \in {NoName, called'.name}
          /\ called'.outcome \in {"none", "sent", "not found", "not decrypted"}
      BY <2>2
    <2> QED
      BY <2>3, <2>4
      DEF ToolsInv, Registry!TypeOK, Registry!OffersAreUnambiguous, AdminInv, NamesInv, Registry!Live
  <1>3. CASE UNCHANGED toolVars
    BY <1>3
    DEF toolVars, ToolsInv, Registry!TypeOK, Registry!OffersAreUnambiguous, AdminInv, NamesInv,
        Registry!Live
  <1> QED
    BY <1>1, <1>2, <1>3, StartStep, WriteStep, DeleteStep, ResolveStep
    DEF Registry!Next

-----------------------------------------------------------------------------
(* The plan: proofs.                                                       *)

Replying == {r \in Responders : replies[r] = "replying"}

\* The instances' copies of the operators of FiniteSets.
LEMMA BillCardinality == \A S : Bill!Cardinality(S) = Cardinality(S)
BY DEF Bill!Cardinality, Cardinality

LEMMA BillFinite == \A S : Bill!IsFiniteSet(S) <=> IsFiniteSet(S)
BY DEF Bill!IsFiniteSet, IsFiniteSet

LEMMA ReplyingCounts ==
  /\ Cardinality(Responders) \in Nat
  /\ \A S \in SUBSET Responders :
       IsFiniteSet(S) /\ Cardinality(S) \in Nat /\ Cardinality(S) <= Cardinality(Responders)
BY SurroundingsAssumption, BillFinite, FS_Subset, FS_CardinalityType DEF Bill!BillingAssumption

\* OvershootIsBounded, with the numbers by themselves.
Bounded(limited, u, begun, m, free) ==
  limited =>
    u + begun < (IF Limit > m + 1 THEN Limit ELSE m + 1) + Cardinality(Responders) + free

LEMMA OvershootAsBounded ==
  /\ Bill!OvershootIsBounded <=>
       Bounded(Bill!EffectivePlan \in Limited, used, Cardinality(Replying), mark, unasked)
  /\ Bill!OvershootIsBounded' <=>
       Bounded(Bill!EffectivePlan' \in Limited, used', Cardinality(Replying'), mark', unasked')
BY BillCardinality DEF Bill!OvershootIsBounded, Bounded, Replying

LEMMA PlanNumbers ==
  ASSUME PlanInv
  PROVE  used \in Nat /\ mark \in Nat /\ unasked \in Nat /\ opened \in Nat /\ Limit \in Nat
BY SurroundingsAssumption DEF PlanInv, Bill!TypeOK, Bill!BillingAssumption

\* A plan's row is written only while nobody holds it.
LEMMA CreatePlanStep ==
  ASSUME PlanInv, Bill!CreatePlan
  PROVE  PlanInv'
  <1>1. PICK p \in Plans : plan[p] = "none" /\ plan' = [plan EXCEPT ![p] = "active"]
    BY DEF Bill!CreatePlan
  <1>2. UNCHANGED <<sub, tx, requests, used, opened, replies, month, mark, unasked>>
    BY DEF Bill!CreatePlan
  <1>3. /\ plan' \in [Plans -> {"none", "active", "retired"}]
        /\ \A q \in Plans : plan[q] # "none" => plan'[q] = plan[q]
    BY <1>1 DEF PlanInv, Bill!TypeOK
  <1>4. Default \in Plans
    BY SurroundingsAssumption DEF Bill!BillingAssumption
  <1>5. plan'[Default] = "active"
    BY <1>3, <1>4 DEF PlanInv
  <1>6. Bill!TypeOK'
    BY <1>2, <1>3 DEF PlanInv, Bill!TypeOK
  <1>7. Bill!OvershootIsBounded'
    BY <1>2 DEF PlanInv, Bill!OvershootIsBounded, Bill!EffectivePlan
  <1>8. (\A h \in Operators : TxInv(h) /\ WriteInv(h))'
    BY <1>2, <1>3 DEF PlanInv, TxInv, WriteInv, TxRow
  <1> QED
    BY <1>2, <1>5, <1>6, <1>7, <1>8 DEF PlanInv

LEMMA StaffCounts ==
  ASSUME PlanInv, requests < MaxAssigned, requests' = requests + 1
  PROVE  requests' \in 0..MaxAssigned
  <1>1. requests \in 0..MaxAssigned
    BY DEF PlanInv, Bill!TypeOK
  <1>2. MaxAssigned \in Nat
    BY SurroundingsAssumption DEF Bill!BillingAssumption
  <1> QED
    BY <1>1, <1>2

LEMMA UpdatePlanStep ==
  ASSUME PlanInv, Bill!UpdatePlan
  PROVE  PlanInv'
  <1>1. PICK p \in Plans, s \in {"active", "retired"} :
          /\ plan[p] # "none" /\ Bill!PlanIsFree(p)
          /\ p = Default => s # "retired"
          /\ plan' = [plan EXCEPT ![p] = s]
    BY DEF Bill!UpdatePlan
  <1>2. UNCHANGED <<sub, tx, used, opened, replies, month, mark, unasked>>
    BY DEF Bill!UpdatePlan
  <1>3. /\ plan' \in [Plans -> {"none", "active", "retired"}]
        /\ \A q \in Plans : plan'[q] = IF q = p THEN s ELSE plan[q]
    BY <1>1 DEF PlanInv, Bill!TypeOK
  <1>4. Default \in Plans
    BY SurroundingsAssumption DEF Bill!BillingAssumption
  <1>5. plan'[Default] = "active"
    BY <1>1, <1>3, <1>4 DEF PlanInv
  <1>6. requests' \in 0..MaxAssigned
    BY StaffCounts DEF Bill!UpdatePlan
  <1>7. Bill!TypeOK'
    BY <1>2, <1>3, <1>6 DEF PlanInv, Bill!TypeOK
  <1>8. Bill!OvershootIsBounded'
    BY <1>2 DEF PlanInv, Bill!OvershootIsBounded, Bill!EffectivePlan
  <1>9. \A h \in Operators :
          tx[h].step # "idle" => tx[h].plan \in Plans /\ plan'[tx[h].plan] = plan[tx[h].plan]
    BY <1>1, <1>3 DEF PlanInv, TxInv, Bill!PlanIsFree
  <1>10. (\A h \in Operators : TxInv(h) /\ WriteInv(h))'
    BY <1>2, <1>9 DEF PlanInv, TxInv, WriteInv, TxRow
  <1> QED
    BY <1>2, <1>5, <1>7, <1>8, <1>10 DEF PlanInv

\* What a transaction does to the transactions.
LEMMA TxMoves ==
  ASSUME PlanInv, NEW h \in Operators, NEW x \in TxRow, tx' = [tx EXCEPT ![h] = x]
  PROVE  /\ tx' \in [Operators -> TxRow]
         /\ \A g \in Operators : tx'[g] = IF g = h THEN x ELSE tx[g]
         /\ \A g \in Operators : tx'[g].step \in {"idle", "plan", "write"}
BY DEF PlanInv, TxRow

LEMMA LockPlanStep ==
  ASSUME PlanInv, NEW h \in Operators, Bill!LockPlan(h)
  PROVE  PlanInv'
  <1>1. PICK p \in Plans, s \in {"active", "past_due"} :
          /\ plan[p] # "none" /\ Bill!PlanIsFree(p)
          /\ tx' = [tx EXCEPT ![h] = [step |-> "plan", plan |-> p, status |-> s]]
    BY DEF Bill!LockPlan
  <1> DEFINE x == [step |-> "plan", plan |-> p, status |-> s]
  <1>2. x \in TxRow /\ x.step = "plan" /\ x.plan = p /\ x.status = s
    BY DEF TxRow
  <1>3. tx' = [tx EXCEPT ![h] = x]
    BY <1>1
  <1> HIDE DEF x
  <1>4. /\ UNCHANGED <<plan, sub, used, opened, replies, month, mark, unasked>>
        /\ requests' \in 0..MaxAssigned
    BY StaffCounts DEF Bill!LockPlan
  <1>5. /\ tx' \in [Operators -> TxRow]
        /\ \A g \in Operators : tx'[g] = IF g = h THEN x ELSE tx[g]
        /\ \A g \in Operators : tx'[g].step \in {"idle", "plan", "write"}
    BY <1>2, <1>3, TxMoves
  <1>6. Bill!TypeOK'
    BY <1>4, <1>5 DEF PlanInv, Bill!TypeOK
  <1>7. Bill!OvershootIsBounded'
    BY <1>4 DEF PlanInv, Bill!OvershootIsBounded, Bill!EffectivePlan
  <1>8. \A g \in Operators : tx[g].step # "idle" => tx[g].plan # p
    BY <1>1 DEF Bill!PlanIsFree
  <1>9. (\A g \in Operators : TxInv(g))'
    BY <1>1, <1>2, <1>4, <1>5, <1>8 DEF PlanInv, TxInv
  <1>10. (\A g \in Operators : WriteInv(g))'
    BY <1>2, <1>4, <1>5 DEF PlanInv, WriteInv
  <1> QED
    BY <1>4, <1>5, <1>6, <1>7, <1>9, <1>10 DEF PlanInv

LEMMA LockSubscriptionStep ==
  ASSUME PlanInv, NEW h \in Operators, Bill!LockSubscription(h)
  PROVE  PlanInv'
  <1>1. /\ tx[h].step = "plan" /\ (sub # Bill!NoSub => Bill!SubIsFree)
        /\ tx' = [tx EXCEPT ![h] = IF Bill!MayHave(tx[h].plan)
                                     THEN [tx[h] EXCEPT !.step = "write"] ELSE Bill!NoTx]
        /\ UNCHANGED <<plan, sub, requests, used, opened, replies, month, mark, unasked>>
    BY DEF Bill!LockSubscription
  <1>2. tx[h] \in TxRow /\ tx[h].plan \in Plans /\ plan[tx[h].plan] \in {"active", "retired"}
    BY <1>1 DEF PlanInv, TxInv, Bill!TypeOK
  <1> DEFINE x == IF Bill!MayHave(tx[h].plan) THEN [tx[h] EXCEPT !.step = "write"] ELSE Bill!NoTx
  <1>3. /\ x \in TxRow
        /\ \/ /\ x.step = "write" /\ x.plan = tx[h].plan /\ x.status = tx[h].status
              /\ Bill!MayHave(x.plan)
           \/ x.step = "idle"
    BY <1>2 DEF TxRow, Bill!NoTx
  <1>4. tx' = [tx EXCEPT ![h] = x]
    BY <1>1
  <1> HIDE DEF x
  <1>5. /\ tx' \in [Operators -> TxRow]
        /\ \A g \in Operators : tx'[g] = IF g = h THEN x ELSE tx[g]
        /\ \A g \in Operators : tx'[g].step \in {"idle", "plan", "write"}
    BY <1>3, <1>4, TxMoves
  <1>6. Bill!TypeOK'
    BY <1>1, <1>5 DEF PlanInv, Bill!TypeOK
  <1>7. Bill!OvershootIsBounded'
    BY <1>1 DEF PlanInv, Bill!OvershootIsBounded, Bill!EffectivePlan
  <1>8. (\A g \in Operators : TxInv(g))'
    BY <1>1, <1>3, <1>5 DEF PlanInv, TxInv
  <1>9. \A g \in Operators : tx[g].step = "write" => plan[tx[g].plan] = "active" \/ sub # Bill!NoSub
    <2>1. ASSUME NEW g \in Operators, tx[g].step = "write", sub = Bill!NoSub
          PROVE  sub.plan # tx[g].plan
      BY <2>1, SurroundingsAssumption DEF PlanInv, TxInv, Bill!NoSub, Bill!BillingAssumption
    <2> QED
      BY <2>1 DEF PlanInv, WriteInv
  <1>10. sub.plan = tx[h].plan => sub # Bill!NoSub
    BY <1>2, SurroundingsAssumption DEF Bill!NoSub, Bill!BillingAssumption
  <1>11. (\A g \in Operators : WriteInv(g))'
    <2>1. ASSUME NEW g \in Operators, x.step = "write", tx'[g].step = "write"
          PROVE  \/ plan[tx'[g].plan] = "active"
                 \/ sub.plan = tx'[g].plan /\ \A k \in Operators : tx'[k].step = "write" => k = g
      <3>1. CASE g = h
        BY <1>1, <1>2, <1>3, <1>5, <1>10, <2>1, <3>1 DEF Bill!MayHave, Bill!SubIsFree
      <3>2. CASE g # h
        BY <1>1, <1>5, <1>9, <2>1, <3>2 DEF Bill!SubIsFree
      <3> QED
        BY <3>1, <3>2
    <2>2. ASSUME NEW g \in Operators, x.step = "idle", tx'[g].step = "write"
          PROVE  \/ plan[tx'[g].plan] = "active"
                 \/ sub.plan = tx'[g].plan /\ \A k \in Operators : tx'[k].step = "write" => k = g
      BY <1>5, <2>2 DEF PlanInv, WriteInv
    <2> QED
      BY <1>1, <1>3, <2>1, <2>2 DEF WriteInv
  <1> QED
    BY <1>1, <1>5, <1>6, <1>7, <1>8, <1>11 DEF PlanInv

\* Only an active plan replaces another, and only then the mark is set.
LEMMA PutStep ==
  ASSUME PlanInv, NEW h \in Operators, Bill!PutSubscription(h)
  PROVE  PlanInv' /\ (sub'.plan # sub.plan => plan'[sub'.plan] = "active")
  <1>1. /\ tx[h].step = "write"
        /\ sub' = [plan |-> tx[h].plan, status |-> tx[h].status]
        /\ \/ sub'.plan = Bill!EffectivePlan /\ mark' = mark /\ unasked' = unasked
           \/ sub'.plan # Bill!EffectivePlan /\ mark' = used /\ unasked' = 0
        /\ tx' = [tx EXCEPT ![h] = Bill!NoTx]
        /\ UNCHANGED <<plan, requests, used, opened, replies, month>>
    BY DEF Bill!PutSubscription
  <1>2. tx[h].plan \in Plans /\ tx[h].status \in {"active", "past_due"}
    BY <1>1 DEF PlanInv, TxInv
  <1>3. Bill!NoTx \in TxRow /\ Bill!NoTx.step = "idle"
    BY DEF TxRow, Bill!NoTx
  <1>4. /\ tx' \in [Operators -> TxRow]
        /\ \A g \in Operators : tx'[g] = IF g = h THEN Bill!NoTx ELSE tx[g]
        /\ \A g \in Operators : tx'[g].step \in {"idle", "plan", "write"}
    BY <1>1, <1>3, TxMoves
  <1>5. /\ sub' \in [plan : Plans \cup {NoPlan}, status : {"active", "past_due"}]
        /\ sub'.plan = tx[h].plan
    BY <1>1, <1>2
  <1>6. plan[tx[h].plan] = "active" \/ sub'.plan = sub.plan
    BY <1>1, <1>5 DEF PlanInv, WriteInv
  <1>7. Bill!TypeOK'
    <2>1. {used, opened, mark, unasked}' \subseteq Nat
      BY <1>1, PlanNumbers
    <2> QED
      BY <1>1, <1>4, <1>5, <2>1 DEF PlanInv, Bill!TypeOK
  <1>8. Bill!OvershootIsBounded'
    <2>1. Bill!EffectivePlan' = sub'.plan
      BY <1>2, <1>5, SurroundingsAssumption DEF Bill!EffectivePlan, Bill!NoSub, Bill!BillingAssumption
    <2>2. Replying' = Replying /\ Replying \in SUBSET Responders
      BY <1>1 DEF Replying
    <2>3. /\ Cardinality(Replying) \in Nat /\ Cardinality(Responders) \in Nat
          /\ Cardinality(Replying) <= Cardinality(Responders)
      BY <2>2, ReplyingCounts
    <2>4. Bounded(Bill!EffectivePlan \in Limited, used, Cardinality(Replying), mark, unasked)
      BY OvershootAsBounded DEF PlanInv
    <2>5. CASE sub'.plan = Bill!EffectivePlan
      BY <1>1, <2>1, <2>2, <2>4, <2>5, OvershootAsBounded
    <2>6. ASSUME sub'.plan # Bill!EffectivePlan
          PROVE  Bounded(TRUE, used, Cardinality(Replying), used, 0)
      BY <2>3, PlanNumbers DEF Bounded
    <2>7. CASE sub'.plan # Bill!EffectivePlan
      BY <1>1, <2>2, <2>6, <2>7, OvershootAsBounded DEF Bounded
    <2> QED
      BY <2>5, <2>7
  <1>9. (\A g \in Operators : TxInv(g))'
    BY <1>1, <1>3, <1>4 DEF PlanInv, TxInv
  <1>10. (\A g \in Operators : WriteInv(g))'
    <2>1. ASSUME NEW g \in Operators, tx'[g].step = "write"
          PROVE  plan[tx'[g].plan] = "active"
      BY <1>1, <1>3, <1>4, <2>1 DEF PlanInv, WriteInv
    <2> QED
      BY <1>1, <2>1 DEF WriteInv
  <1> QED
    BY <1>1, <1>4, <1>5, <1>6, <1>7, <1>8, <1>9, <1>10 DEF PlanInv

\* A reply begins below the limit.
LEMMA AskStep ==
  ASSUME PlanInv, NEW r \in Responders, Bill!Ask(r)
  PROVE  PlanInv'
  <1>1. /\ replies[r] = "idle"
        /\ replies' = [replies EXCEPT ![r] = IF Bill!Allowed THEN "replying" ELSE "idle"]
        /\ UNCHANGED <<plan, sub, tx, requests, used, opened, month, mark, unasked>>
    BY DEF Bill!Ask
  <1>2. replies' \in [Responders -> {"idle", "replying", "bypassing"}]
    BY <1>1 DEF PlanInv, Bill!TypeOK
  <1>3. Bill!OvershootIsBounded'
    <2>1. CASE ~Bill!Allowed
      <3>1. replies' = replies
        BY <1>1, <2>1 DEF PlanInv, Bill!TypeOK
      <3> QED
        BY <1>1, <3>1 DEF PlanInv, Bill!OvershootIsBounded, Bill!EffectivePlan
    <2>2. CASE Bill!Allowed
      <3>1. Cardinality(Replying') \in Nat /\ Cardinality(Responders) \in Nat
            /\ Cardinality(Replying') <= Cardinality(Responders)
        BY ReplyingCounts DEF Replying
      <3>2. Bill!EffectivePlan \in Limited => used < Limit
        BY <2>2, PlanNumbers DEF Bill!Allowed
      <3>3. Bounded(Bill!EffectivePlan \in Limited, used, Cardinality(Replying'), mark, unasked)
        BY <3>1, <3>2, PlanNumbers DEF Bounded
      <3> QED
        BY <1>1, <3>3, OvershootAsBounded DEF Bill!EffectivePlan
    <2> QED
      BY <2>1, <2>2
  <1> QED
    BY <1>1, <1>2, <1>3 DEF PlanInv, Bill!TypeOK, TxInv, WriteInv

\* One that bypasses the gate is none of those.
LEMMA BypassStep ==
  ASSUME PlanInv, NEW r \in Responders, Bill!Bypass(r)
  PROVE  PlanInv'
  <1>1. /\ replies[r] = "idle"
        /\ replies' = [replies EXCEPT ![r] = "bypassing"]
        /\ UNCHANGED <<plan, sub, tx, requests, used, opened, month, mark, unasked>>
    BY DEF Bill!Bypass
  <1>2. replies' \in [Responders -> {"idle", "replying", "bypassing"}]
    BY <1>1 DEF PlanInv, Bill!TypeOK
  <1>3. Bill!OvershootIsBounded'
    <2>1. Replying' = Replying
      BY <1>1 DEF Replying, PlanInv, Bill!TypeOK
    <2> QED
      BY <1>1, <2>1, OvershootAsBounded DEF PlanInv, Bill!EffectivePlan
  <1> QED
    BY <1>1, <1>2, <1>3 DEF PlanInv, Bill!TypeOK, TxInv, WriteInv

\* What is recorded was either begun, or is added to what nobody asked about.
LEMMA ReplyStep ==
  ASSUME PlanInv, NEW r \in Responders, Bill!Reply(r)
  PROVE  PlanInv'
  <1>1. /\ replies[r] \in {"replying", "bypassing"}
        /\ replies' = [replies EXCEPT ![r] = "idle"]
        /\ used' \in {used, used + 1}
        /\ unasked' = IF replies[r] = "bypassing" THEN unasked + (used' - used) ELSE unasked
        /\ UNCHANGED <<plan, sub, tx, requests, opened, month, mark>>
    BY DEF Bill!Reply, PlanInv, Bill!TypeOK
  <1>2. replies' \in [Responders -> {"idle", "replying", "bypassing"}]
    BY <1>1 DEF PlanInv, Bill!TypeOK
  <1>3. used' \in Nat /\ used' <= used + 1 /\ unasked' \in Nat
    BY <1>1, PlanNumbers
  <1>4. Bill!OvershootIsBounded'
    <2>1. Replying \in SUBSET Responders
      BY DEF Replying
    <2>2. /\ IsFiniteSet(Replying) /\ Cardinality(Replying) \in Nat
          /\ Cardinality(Responders) \in Nat
      BY <2>1, ReplyingCounts
    <2>3. Bounded(Bill!EffectivePlan \in Limited, used, Cardinality(Replying), mark, unasked)
      BY OvershootAsBounded DEF PlanInv
    <2>4. CASE replies[r] = "replying"
      <3>1. Replying' = Replying \ {r} /\ r \in Replying
        BY <1>1, <2>4 DEF Replying, PlanInv, Bill!TypeOK
      <3>2. Cardinality(Replying') = Cardinality(Replying) - 1
        BY <2>2, <3>1, FS_RemoveElement
      <3>3. unasked' = unasked
        BY <1>1, <2>4
      <3>4. Bounded(Bill!EffectivePlan \in Limited, used', Cardinality(Replying'), mark, unasked)
        BY <1>3, <2>2, <2>3, <3>2, PlanNumbers DEF Bounded
      <3> QED
        BY <1>1, <3>3, <3>4, OvershootAsBounded DEF Bill!EffectivePlan
    <2>5. CASE replies[r] = "bypassing"
      <3>1. Replying' = Replying
        BY <1>1, <2>5 DEF Replying, PlanInv, Bill!TypeOK
      <3>2. unasked' = unasked + (used' - used)
        BY <1>1, <2>5
      <3>3. Bounded(Bill!EffectivePlan \in Limited, used', Cardinality(Replying), mark, unasked')
        BY <1>3, <2>2, <2>3, <3>2, PlanNumbers DEF Bounded
      <3> QED
        BY <1>1, <3>1, <3>3, OvershootAsBounded DEF Bill!EffectivePlan
    <2> QED
      BY <1>1, <2>4, <2>5
  <1> QED
    BY <1>1, <1>2, <1>3, <1>4 DEF PlanInv, Bill!TypeOK, TxInv, WriteInv

LEMMA OpenStep ==
  ASSUME PlanInv, Bill!OpenConversation
  PROVE  PlanInv'
  <1>1. opened' \in Nat /\ UNCHANGED <<plan, sub, tx, requests, used, replies, month, mark, unasked>>
    BY PlanNumbers DEF Bill!OpenConversation
  <1>2. Bill!OvershootIsBounded'
    BY <1>1 DEF PlanInv, Bill!OvershootIsBounded, Bill!EffectivePlan
  <1> QED
    BY <1>1, <1>2 DEF PlanInv, Bill!TypeOK, TxInv, WriteInv

LEMMA NewMonthStep ==
  ASSUME PlanInv, Bill!NewMonth
  PROVE  PlanInv'
  <1>1. /\ month < MaxMonths /\ month' = month + 1
        /\ used' = 0 /\ opened' = 0 /\ mark' = 0 /\ unasked' = 0
        /\ UNCHANGED <<plan, sub, tx, requests, replies>>
    BY DEF Bill!NewMonth
  <1>2. month' \in 1..MaxMonths
    <2>1. month \in 1..MaxMonths
      BY DEF PlanInv, Bill!TypeOK
    <2>2. MaxMonths \in Nat
      BY SurroundingsAssumption DEF Bill!BillingAssumption
    <2> QED
      BY <1>1, <2>1, <2>2
  <1>3. Bill!OvershootIsBounded'
    <2>1. /\ Cardinality(Replying) \in Nat /\ Cardinality(Responders) \in Nat
          /\ Cardinality(Replying) <= Cardinality(Responders)
      BY ReplyingCounts DEF Replying
    <2>2. Bounded(TRUE, 0, Cardinality(Replying), 0, 0)
      BY <2>1, PlanNumbers DEF Bounded
    <2> QED
      BY <1>1, <2>2, OvershootAsBounded DEF Bounded, Replying
  <1>4. Bill!TypeOK'
    BY <1>1, <1>2 DEF PlanInv, Bill!TypeOK
  <1> QED
    BY <1>1, <1>3, <1>4 DEF PlanInv, TxInv, WriteInv

LEMMA InitPlan == Bill!Init => PlanInv
  <1> SUFFICES ASSUME Bill!Init PROVE PlanInv
    OBVIOUS
  <1>1. Bill!TypeOK /\ tx \in [Operators -> TxRow] /\ plan[Default] = "active"
    BY SurroundingsAssumption
    DEF Bill!Init, Bill!TypeOK, TxRow, Bill!NoTx, Bill!NoSub, Bill!BillingAssumption
  <1>2. \A h \in Operators : tx[h].step = "idle"
    BY DEF Bill!Init, Bill!NoTx
  <1>3. Bill!OvershootIsBounded
    <2>1. Replying = {}
      BY DEF Bill!Init, Replying
    <2>2. Cardinality(Replying) = 0 /\ Cardinality(Responders) \in Nat
      BY <2>1, FS_EmptySet, ReplyingCounts
    <2>3. used = 0 /\ mark = 0 /\ unasked = 0
      BY DEF Bill!Init
    <2>4. Limit \in Nat
      BY SurroundingsAssumption DEF Bill!BillingAssumption
    <2>5. Bounded(Bill!EffectivePlan \in Limited, 0, 0, 0, 0)
      BY <2>2, <2>4 DEF Bounded
    <2> QED
      BY <2>2, <2>3, <2>5, OvershootAsBounded
  <1> QED
    BY <1>1, <1>2, <1>3 DEF PlanInv, TxInv, WriteInv

LEMMA PlanStep == PlanInv /\ [Bill!Next]_planVars => PlanInv'
  <1> SUFFICES ASSUME PlanInv, [Bill!Next]_planVars
               PROVE  PlanInv'
    OBVIOUS
  <1>1. CASE UNCHANGED planVars
    BY <1>1
    DEF planVars, PlanInv, Bill!TypeOK, TxInv, WriteInv, Bill!OvershootIsBounded, Bill!EffectivePlan
  <1> QED
    BY <1>1, CreatePlanStep, UpdatePlanStep, LockPlanStep, LockSubscriptionStep, PutStep, AskStep,
       BypassStep, ReplyStep, OpenStep, NewMonthStep
    DEF Bill!Next

\* The tenant only moves to an active plan.
LEMMA MovesToActive ==
  PlanInv /\ [Bill!Next]_planVars =>
    [/\ sub'.plan # sub.plan => plan'[sub'.plan] = "active"
     /\ plan'[Default] = "active"]_planVars
  <1> SUFFICES ASSUME PlanInv, Bill!Next
               PROVE  /\ sub'.plan # sub.plan => plan'[sub'.plan] = "active"
                      /\ plan'[Default] = "active"
    OBVIOUS
  <1>1. plan'[Default] = "active"
    BY PlanStep DEF PlanInv
  <1>2. ASSUME NEW h \in Operators, Bill!PutSubscription(h)
        PROVE  sub'.plan # sub.plan => plan'[sub'.plan] = "active"
    BY <1>2, PutStep
  <1>3. CASE UNCHANGED sub
    BY <1>1, <1>3
  <1> QED
    BY <1>1, <1>2, <1>3
    DEF Bill!Next, Bill!NewMonth, Bill!CreatePlan, Bill!UpdatePlan, Bill!Ask, Bill!Bypass,
        Bill!Reply, Bill!OpenConversation,
        Bill!LockPlan, Bill!LockSubscription

-----------------------------------------------------------------------------
(* The budget: proofs.                                                     *)

LEMMA BudgetConstants ==
  /\ MaxOverride \in Nat /\ Preset \in Nat /\ Ttl \in Nat /\ MaxSeconds \in Nat /\ MaxReading \in Nat
  /\ 0 \in Resolver!Values /\ Resolver!Values \subseteq Nat
BY SurroundingsAssumption DEF Resolver!BudgetAssumption, Resolver!Values, Resolver!NoOverride

LEMMA InitBudget == Resolver!Init => BudgetInv
  <1> SUFFICES ASSUME Resolver!Init PROVE BudgetInv
    OBVIOUS
  <1>1. /\ Resolver!NoOverride = 0 /\ row = 0 /\ second = 0
        /\ cache.value = 0 /\ cache.until = 0
        /\ asker = [a \in Askers |-> [step |-> "ask", since |-> 0, value |-> 0]]
        /\ placed = [v \in Resolver!Values |-> IF v = 0 THEN 0 ELSE -1]
    BY DEF Resolver!Init, Resolver!Asking, Resolver!NoOverride
  <1>2. asker \in [Askers -> AskerRow] /\ placed \in [Resolver!Values -> Int]
    BY <1>1 DEF AskerRow
  <1>3. \A a \in Askers : asker[a].step = "ask" /\ asker[a].since = 0 /\ asker[a].value = 0
    BY <1>1
  <1>4. Resolver!TypeOK
    BY <1>1, <1>3, BudgetConstants DEF Resolver!TypeOK
  <1>5. placed[0] = 0 /\ \A v \in Resolver!Values : placed[v] <= 0
    BY <1>1, BudgetConstants
  <1>6. placed[cache.value] >= cache.until - Ttl - MaxReading
    BY <1>1, <1>5, BudgetConstants
  <1> QED
    BY <1>1, <1>2, <1>3, <1>4, <1>5, <1>6, BudgetConstants
    DEF BudgetInv, AskerInv, Resolver!BudgetIsRecent

\* What the invariant says of each part, with its numbers typed.
LEMMA BudgetFacts ==
  ASSUME BudgetInv
  PROVE  /\ row \in Resolver!Values /\ cache.value \in Resolver!Values /\ cache.until \in Nat
         /\ second \in Nat
         /\ \A v \in Resolver!Values : v \in Nat /\ placed[v] \in Int /\ placed[v] <= second
         /\ \A a \in Askers :
              /\ asker[a] \in AskerRow /\ asker[a].since <= second
              /\ asker[a].value \in Resolver!Values \cup {Preset, MaxOverride}
         /\ placed[cache.value] >= cache.until - Ttl - MaxReading
BY BudgetConstants DEF BudgetInv, Resolver!TypeOK, AskerRow

\* How recent the budget b of a request that is done is.
Recent(b) ==
  \E v \in Resolver!Values :
    b \in {Resolver!OrPreset(v), Resolver!Capped(Resolver!OrPreset(v))}
      /\ placed[v] >= second - Ttl - MaxReading

\* One request moves, nothing else does.
LEMMA OneAsks ==
  ASSUME BudgetInv, NEW a \in Askers, NEW x \in AskerRow,
         asker' = [asker EXCEPT ![a] = x],
         UNCHANGED <<row, second>>,
         cache'.value \in Resolver!Values, cache'.until \in Nat,
         placed' \in [Resolver!Values -> Int],
         \A v \in Resolver!Values : placed[v] <= placed'[v] /\ placed'[v] <= second,
         placed'[cache'.value] >= cache'.until - Ttl - MaxReading,
         x.since <= second, x.value \in Resolver!Values \cup {Preset, MaxOverride},
         x.step \in {"read", "keep"} => second - x.since <= MaxReading,
         x.step = "keep" => x.value \in Resolver!Values /\ placed'[x.value] >= x.since,
         x.step = "done" => Recent(x.value)
  PROVE  BudgetInv'
  <1>1. asker' \in [Askers -> AskerRow] /\ \A b \in Askers : asker'[b] = IF b = a THEN x ELSE asker[b]
    BY DEF BudgetInv
  <1>2. \A b \in Askers : asker[b] \in AskerRow /\ asker'[b] \in AskerRow
    BY <1>1 DEF BudgetInv
  <1>3. x.step \in {"ask", "read", "keep", "done"} /\ x.since \in 0..second
    BY BudgetFacts DEF AskerRow
  <1>4. Resolver!TypeOK'
    BY <1>1, <1>3 DEF BudgetInv, Resolver!TypeOK
  <1>5. placed'[row] = second
    BY BudgetFacts DEF BudgetInv
  <1>6. (\A b \in Askers : AskerInv(b))'
    <2>1. ASSUME NEW b \in Askers, b # a, asker[b].step = "keep"
          PROVE  asker[b].value \in Resolver!Values /\ placed'[asker[b].value] >= asker[b].since
      <3>1. asker[b].value \in Resolver!Values /\ placed[asker[b].value] >= asker[b].since
        BY <2>1 DEF BudgetInv, AskerInv
      <3>2. asker[b].since \in Nat
        BY <1>2 DEF AskerRow
      <3> QED
        BY <3>1, <3>2, BudgetFacts
    <2> QED
      BY <1>1, <2>1 DEF BudgetInv, AskerInv
  <1>7. Resolver!BudgetIsRecent'
    <2>1. ASSUME NEW b \in Askers, asker'[b].step = "done"
          PROVE  Recent(asker'[b].value)
      BY <1>1, <2>1 DEF BudgetInv, Resolver!BudgetIsRecent, Recent
    <2>2. ASSUME NEW n, Recent(n)
          PROVE  \E v \in Resolver!Values :
                   /\ n \in {Resolver!OrPreset(v), Resolver!Capped(Resolver!OrPreset(v))}
                   /\ placed'[v] >= second - Ttl - MaxReading
      BY <2>2, BudgetFacts, BudgetConstants DEF Recent
    <2> QED
      BY <2>1, <2>2 DEF Resolver!BudgetIsRecent
  <1> QED
    BY <1>1, <1>4, <1>5, <1>6, <1>7 DEF BudgetInv

\* The cache does not outlive what was read by more than its time and a request's.
LEMMA HitStep ==
  ASSUME BudgetInv, NEW a \in Askers, Resolver!Hit(a)
  PROVE  BudgetInv'
  <1> DEFINE x == [step |-> "done", since |-> second, value |-> Resolver!OrPreset(cache.value)]
  <1>1. asker' = [asker EXCEPT ![a] = x] /\ UNCHANGED <<row, second, edits, cache, placed>>
    BY DEF Resolver!Hit
  <1>2. cache.until > second
    BY DEF Resolver!Hit, Resolver!IsFresh
  <1>3. /\ Resolver!OrPreset(cache.value) \in Nat
        /\ Resolver!OrPreset(cache.value) \in Resolver!Values \cup {Preset, MaxOverride}
    BY BudgetFacts, BudgetConstants DEF Resolver!OrPreset
  <1>4. x \in AskerRow /\ x.since = second /\ x.step = "done" /\ x.value = Resolver!OrPreset(cache.value)
    BY <1>3, BudgetFacts DEF AskerRow
  <1> HIDE DEF x
  <1>5. placed[cache.value] >= second - Ttl - MaxReading
    <2>1. /\ placed[cache.value] \in Int /\ cache.until \in Nat /\ second \in Nat
          /\ placed[cache.value] >= cache.until - Ttl - MaxReading
      BY BudgetFacts
    <2>2. Ttl \in Nat /\ MaxReading \in Nat
      BY BudgetConstants
    <2> QED
      BY <1>2, <2>1, <2>2
  <1>6. Recent(x.value)
    BY <1>4, <1>5, BudgetFacts DEF Recent
  <1>7. /\ placed \in [Resolver!Values -> Int]
        /\ \A v \in Resolver!Values : placed[v] <= placed[v] /\ placed[v] <= second
    BY BudgetFacts DEF BudgetInv
  <1>8. second <= second
    BY BudgetFacts
  <1> QED
    BY <1>1, <1>3, <1>4, <1>6, <1>7, <1>8, BudgetFacts, OneAsks

LEMMA MissStep ==
  ASSUME BudgetInv, NEW a \in Askers, Resolver!Miss(a) \/ Resolver!Again(a)
  PROVE  BudgetInv'
  <1>1. PICK x \in AskerRow :
          /\ asker' = [asker EXCEPT ![a] = x]
          /\ x.step = "ask" \/ (x.step = "read" /\ x.since = second)
          /\ x.since <= second
          /\ x.value \in Resolver!Values \cup {Preset, MaxOverride}
    <2>1. CASE Resolver!Miss(a)
      <3> DEFINE x == [asker[a] EXCEPT !.step = "read", !.since = second]
      <3>1. asker[a] \in AskerRow /\ second \in Nat /\ second <= second
        BY BudgetFacts
      <3>2. x \in AskerRow /\ x.step = "read" /\ x.since = second /\ x.value = asker[a].value
        BY <3>1 DEF AskerRow
      <3>3. asker' = [asker EXCEPT ![a] = x]
        BY <2>1 DEF Resolver!Miss
      <3> HIDE DEF x
      <3> QED
        BY <3>1, <3>2, <3>3, BudgetFacts
    <2>2. CASE Resolver!Again(a)
      <3>1. Resolver!Asking \in AskerRow /\ Resolver!Asking.step = "ask" /\ Resolver!Asking.since = 0
            /\ Resolver!Asking.value = 0
        BY DEF Resolver!Asking, AskerRow, Resolver!NoOverride
      <3>2. asker' = [asker EXCEPT ![a] = Resolver!Asking]
        BY <2>2 DEF Resolver!Again
      <3>3. 0 <= second
        BY BudgetFacts
      <3>4. /\ Resolver!Asking.since <= second
            /\ Resolver!Asking.value \in Resolver!Values \cup {Preset, MaxOverride}
        BY <3>1, <3>3, BudgetConstants
      <3> DEFINE x == Resolver!Asking
      <3>5. /\ x \in AskerRow /\ asker' = [asker EXCEPT ![a] = x] /\ x.step = "ask"
            /\ x.since <= second /\ x.value \in Resolver!Values \cup {Preset, MaxOverride}
        BY <3>1, <3>2, <3>4
      <3> HIDE DEF x
      <3> QED
        BY <3>5
    <2> QED
      BY <2>1, <2>2
  <1>2. UNCHANGED <<row, second, edits, cache, placed>>
    BY DEF Resolver!Miss, Resolver!Again
  <1>3. /\ placed \in [Resolver!Values -> Int]
        /\ \A v \in Resolver!Values : placed[v] <= placed[v] /\ placed[v] <= second
    BY BudgetFacts DEF BudgetInv
  <1>4. x.step \in {"read", "keep"} => second - x.since <= MaxReading
    BY <1>1, BudgetFacts, BudgetConstants
  <1>5. x.step # "keep" /\ x.step # "done"
    BY <1>1
  <1> QED
    BY <1>1, <1>2, <1>3, <1>4, <1>5, BudgetFacts, OneAsks

LEMMA FetchStep ==
  ASSUME BudgetInv, NEW a \in Askers, NEW fails \in BOOLEAN, Resolver!Fetch(a, fails)
  PROVE  BudgetInv'
  <1> DEFINE n == IF fails THEN 0 ELSE row
             x == [asker[a] EXCEPT !.step = "keep", !.value = n]
  <1>1. /\ asker[a].step = "read"
        /\ asker' = [asker EXCEPT ![a] = x]
        /\ placed' = IF fails THEN [placed EXCEPT ![0] = second] ELSE placed
        /\ UNCHANGED <<row, second, edits, cache>>
    BY DEF Resolver!Fetch, Resolver!NoOverride
  <1>2. n \in Resolver!Values /\ n \in Nat
    BY BudgetFacts, BudgetConstants
  <1>3. asker[a] \in AskerRow /\ asker[a].since <= second
    BY BudgetFacts
  <1>4. x \in AskerRow /\ x.step = "keep" /\ x.since = asker[a].since /\ x.value = n
    BY <1>2, <1>3 DEF AskerRow
  <1>5. /\ placed' \in [Resolver!Values -> Int]
        /\ \A v \in Resolver!Values : placed[v] <= placed'[v] /\ placed'[v] <= second
        /\ placed'[n] = second
    <2>1. placed \in [Resolver!Values -> Int] /\ placed[row] = second
      BY DEF BudgetInv
    <2>2. CASE fails
      BY <1>1, <2>1, <2>2, BudgetFacts, BudgetConstants
    <2>3. CASE ~fails
      BY <1>1, <2>1, <2>3, BudgetFacts, BudgetConstants
    <2> QED
      BY <2>2, <2>3
  <1> HIDE DEF x, n
  <1>6. second - x.since <= MaxReading
    BY <1>1, <1>4 DEF BudgetInv, AskerInv
  <1>7. placed'[x.value] >= x.since
    BY <1>3, <1>4, <1>5, BudgetFacts
  <1>8. placed'[cache.value] >= cache.until - Ttl - MaxReading
    <2>1. /\ placed'[cache.value] \in Int /\ placed[cache.value] \in Int
          /\ placed[cache.value] <= placed'[cache.value]
      BY <1>5, BudgetFacts
    <2>2. cache.until \in Nat /\ placed[cache.value] >= cache.until - Ttl - MaxReading
      BY BudgetFacts
    <2>3. Ttl \in Nat /\ MaxReading \in Nat
      BY BudgetConstants
    <2> QED
      BY <2>1, <2>2, <2>3
  <1>9. cache'.value = cache.value /\ cache'.until = cache.until
    BY <1>1
  <1> QED
    BY <1>1, <1>2, <1>3, <1>4, <1>5, <1>6, <1>7, <1>8, <1>9, BudgetFacts, OneAsks

\* Whoever writes last, what it writes was read within the time of its request.
LEMMA KeepStep ==
  ASSUME BudgetInv, NEW a \in Askers, Resolver!Keep(a)
  PROVE  BudgetInv'
  <1> DEFINE v == asker[a].value
             b == IF v = 0 THEN Preset ELSE Resolver!Capped(v)
             x == [step |-> "done", since |-> second, value |-> b]
  <1>1. /\ asker[a].step = "keep"
        /\ cache' = [value |-> v, until |-> second + Ttl]
        /\ asker' = [asker EXCEPT ![a] = x]
        /\ UNCHANGED <<row, second, edits, placed>>
    BY DEF Resolver!Keep, Resolver!NoOverride
  <1>2. /\ v \in Resolver!Values /\ v \in Nat
        /\ placed[v] >= asker[a].since /\ second - asker[a].since <= MaxReading
    BY <1>1, BudgetFacts DEF BudgetInv, AskerInv
  <1>3. asker[a].since \in Nat /\ placed[v] \in Int /\ second \in Nat
    BY <1>2, BudgetFacts DEF AskerRow
  <1>4. b \in Nat /\ b \in Resolver!Values \cup {Preset, MaxOverride}
    BY <1>2, BudgetConstants DEF Resolver!Capped
  <1>5. x \in AskerRow /\ x.step = "done" /\ x.since = second /\ x.value = b
    BY <1>3, <1>4 DEF AskerRow
  <1>6. b \in {Resolver!OrPreset(v), Resolver!Capped(Resolver!OrPreset(v))}
    BY DEF Resolver!OrPreset, Resolver!NoOverride
  <1>7. cache'.value = v /\ cache'.until = second + Ttl
    BY <1>1
  <1> HIDE DEF x, b, v
  <1>8. placed[v] >= second - Ttl - MaxReading /\ placed[v] >= second + Ttl - Ttl - MaxReading
    BY <1>2, <1>3, BudgetConstants
  <1>9. Recent(x.value)
    BY <1>2, <1>5, <1>6, <1>8 DEF Recent
  <1>10. /\ placed \in [Resolver!Values -> Int]
         /\ \A w \in Resolver!Values : placed[w] <= placed[w] /\ placed[w] <= second
    BY BudgetFacts DEF BudgetInv
  <1>11. second <= second /\ second + Ttl \in Nat
    BY <1>3, BudgetConstants
  <1>12. /\ cache'.value \in Resolver!Values /\ cache'.until \in Nat
         /\ placed'[cache'.value] >= cache'.until - Ttl - MaxReading
    <2>0. placed' = placed
      BY <1>1
    <2>1. placed'[cache'.value] = placed[v]
      BY <1>7, <2>0
    <2>2. placed'[cache'.value] >= cache'.until - Ttl - MaxReading
      BY <1>3, <1>7, <1>8, <2>1, BudgetConstants
    <2> QED
      BY <1>2, <1>7, <1>11, <2>2
  <1>13. /\ placed' \in [Resolver!Values -> Int]
         /\ \A w \in Resolver!Values : placed[w] <= placed'[w] /\ placed'[w] <= second
    BY <1>1, <1>10
  <1>14. /\ x.since <= second /\ x.value \in Resolver!Values \cup {Preset, MaxOverride}
         /\ x.step \notin {"read", "keep"}
    BY <1>4, <1>5, <1>11
  <1>15. asker' = [asker EXCEPT ![a] = x] /\ UNCHANGED <<row, second>> /\ x \in AskerRow
    BY <1>1, <1>5
  <1> QED
    BY <1>9, <1>12, <1>13, <1>14, <1>15, OneAsks

LEMMA EditStep ==
  ASSUME BudgetInv, NEW value \in Resolver!Values, Resolver!EditRow(value)
  PROVE  BudgetInv'
  <1>1. /\ row' = value /\ placed' = [placed EXCEPT ![value] = second]
        /\ UNCHANGED <<second, cache, asker>>
    BY DEF Resolver!EditRow
  <1>2. /\ placed' \in [Resolver!Values -> Int] /\ placed'[value] = second
        /\ \A v \in Resolver!Values : placed[v] <= placed'[v] /\ placed'[v] <= second
    BY <1>1, BudgetFacts DEF BudgetInv
  <1>3. Resolver!TypeOK'
    BY <1>1 DEF BudgetInv, Resolver!TypeOK
  <1>4. (\A a \in Askers : AskerInv(a))'
    <2>1. ASSUME NEW a \in Askers, asker[a].step = "keep"
          PROVE  asker[a].value \in Resolver!Values /\ placed'[asker[a].value] >= asker[a].since
      <3>1. asker[a].value \in Resolver!Values /\ placed[asker[a].value] >= asker[a].since
        BY <2>1 DEF BudgetInv, AskerInv
      <3>2. asker[a].since \in Nat
        BY BudgetFacts DEF AskerRow
      <3>3. placed[asker[a].value] <= placed'[asker[a].value] /\ placed[asker[a].value] \in Int
            /\ placed'[asker[a].value] \in Int
        BY <1>2, <3>1, BudgetFacts
      <3> QED
        BY <3>1, <3>2, <3>3
    <2> QED
      BY <1>1, <2>1 DEF BudgetInv, AskerInv
  <1>5. placed'[cache.value] >= cache.until - Ttl - MaxReading
    <2>1. /\ placed'[cache.value] \in Int /\ placed[cache.value] \in Int
          /\ placed[cache.value] <= placed'[cache.value]
      BY <1>2, BudgetFacts
    <2>2. cache.until \in Nat /\ placed[cache.value] >= cache.until - Ttl - MaxReading
      BY BudgetFacts
    <2>3. Ttl \in Nat /\ MaxReading \in Nat
      BY BudgetConstants
    <2> QED
      BY <2>1, <2>2, <2>3
  <1>6. Resolver!BudgetIsRecent'
    <2>1. ASSUME NEW n, Recent(n)
          PROVE  \E v \in Resolver!Values :
                   /\ n \in {Resolver!OrPreset(v), Resolver!Capped(Resolver!OrPreset(v))}
                   /\ placed'[v] >= second - Ttl - MaxReading
      <3>1. PICK v \in Resolver!Values :
              /\ n \in {Resolver!OrPreset(v), Resolver!Capped(Resolver!OrPreset(v))}
              /\ placed[v] >= second - Ttl - MaxReading
        BY <2>1 DEF Recent
      <3>2. placed'[v] \in Int
        BY <1>2
      <3>3. placed'[v] >= second - Ttl - MaxReading
        BY <1>2, <3>1, <3>2, BudgetFacts, BudgetConstants
      <3> QED
        BY <3>1, <3>3
    <2> QED
      BY <1>1, <2>1 DEF BudgetInv, Resolver!BudgetIsRecent, Recent
  <1> QED
    BY <1>1, <1>2, <1>3, <1>4, <1>5, <1>6 DEF BudgetInv

LEMMA SecondStep ==
  ASSUME BudgetInv, Resolver!Second
  PROVE  BudgetInv'
  <1>1. /\ \A a \in Askers :
             asker[a].step \in {"read", "keep"} => second - asker[a].since < MaxReading
        /\ second' = second + 1
        /\ placed' = [placed EXCEPT ![row] = second + 1]
        /\ asker' = [a \in Askers |-> IF asker[a].step = "done" THEN Resolver!Asking ELSE asker[a]]
        /\ UNCHANGED <<row, edits, cache>>
    BY DEF Resolver!Second
  <1>2. /\ Resolver!Asking \in AskerRow /\ Resolver!Asking.step = "ask" /\ Resolver!Asking.since = 0
        /\ Resolver!Asking.value = 0
    BY DEF Resolver!Asking, AskerRow, Resolver!NoOverride
  <1>3. /\ asker' \in [Askers -> AskerRow]
        /\ \A a \in Askers : asker'[a].step # "done"
        /\ \A a \in Askers : asker'[a] = asker[a] \/ asker'[a] = Resolver!Asking
    BY <1>1, <1>2, BudgetFacts
  <1>4. /\ placed' \in [Resolver!Values -> Int] /\ placed'[row] = second + 1
        /\ \A v \in Resolver!Values : placed[v] <= placed'[v] /\ placed'[v] <= second + 1
    BY <1>1, BudgetFacts DEF BudgetInv
  <1>5. \A a \in Askers :
          /\ asker'[a].since \in 0..(second + 1)
          /\ asker'[a].value \in Resolver!Values \cup {Preset, MaxOverride}
    <2>1. \A a \in Askers : asker[a].since \in Nat /\ asker[a].since <= second
      BY BudgetFacts DEF AskerRow
    <2> QED
      BY <1>2, <1>3, <2>1, BudgetFacts, BudgetConstants
  <1>6. Resolver!TypeOK'
    BY <1>1, <1>3, <1>5 DEF BudgetInv, Resolver!TypeOK, AskerRow
  <1>7. (\A a \in Askers : AskerInv(a))'
    <2>1. ASSUME NEW a \in Askers, asker'[a].step \in {"read", "keep"}
          PROVE  second' - asker'[a].since <= MaxReading
      <3>1. asker'[a] = asker[a]
        BY <1>2, <1>3, <2>1
      <3>2. asker[a].since \in Nat
        BY BudgetFacts DEF AskerRow
      <3> QED
        BY <1>1, <2>1, <3>1, <3>2, BudgetFacts, BudgetConstants
    <2>2. ASSUME NEW a \in Askers, asker'[a].step = "keep"
          PROVE  asker'[a].value \in Resolver!Values /\ placed'[asker'[a].value] >= asker'[a].since
      <3>1. asker'[a] = asker[a]
        BY <1>2, <1>3, <2>2
      <3>2. asker[a].value \in Resolver!Values /\ placed[asker[a].value] >= asker[a].since
        BY <2>2, <3>1 DEF BudgetInv, AskerInv
      <3>3. asker[a].since \in Nat
        BY BudgetFacts DEF AskerRow
      <3>4. placed[asker[a].value] <= placed'[asker[a].value] /\ placed[asker[a].value] \in Int
            /\ placed'[asker[a].value] \in Int
        BY <1>4, <3>2, BudgetFacts
      <3> QED
        BY <3>1, <3>2, <3>3, <3>4
    <2>3. ASSUME NEW a \in Askers
          PROVE  AskerInv(a)'
      BY <2>1, <2>2 DEF AskerInv
    <2> QED
      BY <2>3
  <1>8. placed'[cache.value] >= cache.until - Ttl - MaxReading
    <2>1. /\ placed'[cache.value] \in Int /\ placed[cache.value] \in Int
          /\ placed[cache.value] <= placed'[cache.value]
      BY <1>4, BudgetFacts
    <2>2. cache.until \in Nat /\ placed[cache.value] >= cache.until - Ttl - MaxReading
      BY BudgetFacts
    <2>3. Ttl \in Nat /\ MaxReading \in Nat
      BY BudgetConstants
    <2> QED
      BY <2>1, <2>2, <2>3
  <1>9. Resolver!BudgetIsRecent'
    BY <1>3 DEF Resolver!BudgetIsRecent
  <1>10. second' \in Nat
    BY <1>1, BudgetFacts
  <1> QED
    BY <1>1, <1>3, <1>4, <1>6, <1>7, <1>8, <1>9, <1>10 DEF BudgetInv

\* A budget is never older than the cache's time and a request's.
LEMMA BudgetStep == BudgetInv /\ [Resolver!Next]_budgetVars => BudgetInv'
  <1> SUFFICES ASSUME BudgetInv, [Resolver!Next]_budgetVars
               PROVE  BudgetInv'
    OBVIOUS
  <1>1. CASE UNCHANGED budgetVars
    BY <1>1 DEF budgetVars, BudgetInv, Resolver!TypeOK, AskerInv, Resolver!BudgetIsRecent
  <1> QED
    BY <1>1, HitStep, MissStep, FetchStep, KeepStep, EditStep, SecondStep DEF Resolver!Next

-----------------------------------------------------------------------------
(* The limiter: proofs.                                                    *)

LEMMA LimiterCardinality == \A S : Limiter!Cardinality(S) = Cardinality(S)
BY DEF Limiter!Cardinality, Cardinality

LEMMA LimiterFinite == \A S : Limiter!IsFiniteSet(S) <=> IsFiniteSet(S)
BY DEF Limiter!IsFiniteSet, IsFiniteSet

LEMMA LimitConstants ==
  /\ Window \in Nat /\ Window > 0 /\ Budget \in Nat /\ Budget > 0 /\ MaxTime \in Nat
  /\ MaxOutages \in Nat
  /\ IsFiniteSet(Checks)
BY SurroundingsAssumption, LimiterFinite DEF Limiter!LimitAssumption

\* A second belongs to one window.
LEMMA WindowBounds ==
  ASSUME NEW s \in Nat
  PROVE  /\ Limiter!WindowOf(s) \in Nat
         /\ Window * Limiter!WindowOf(s) <= s
         /\ s < Window * Limiter!WindowOf(s) + Window
         /\ s % Window \in Nat /\ s % Window < Window
BY LimitConstants DEF Limiter!WindowOf

LEMMA WindowOnly ==
  ASSUME NEW s \in Nat, NEW w \in Int, Window * w <= s, s < Window * w + Window
  PROVE  Limiter!WindowOf(s) = w
  <1> DEFINE u == Limiter!WindowOf(s)
  <1>1. u \in Nat /\ Window * u <= s /\ s < Window * u + Window
    BY WindowBounds
  <1> HIDE DEF u
  <1>2. ~(u < w)
    <2>1. SUFFICES ASSUME u + 1 <= w PROVE FALSE
      BY <1>1
    <2>2. Window * (u + 1) <= Window * w
      BY <1>1, <2>1, LimitConstants
    <2>3. Window * (u + 1) = Window * u + Window
      BY <1>1, LimitConstants
    <2> QED
      BY <1>1, <2>2, <2>3, LimitConstants
  <1>3. ~(w < u)
    <2>1. SUFFICES ASSUME w + 1 <= u PROVE FALSE
      BY <1>1
    <2>2. Window * (w + 1) <= Window * u
      BY <1>1, <2>1, LimitConstants
    <2>3. Window * (w + 1) = Window * w + Window
      BY <1>1, LimitConstants
    <2> QED
      BY <1>1, <2>2, <2>3, LimitConstants
  <1>4. u = w
    BY <1>1, <1>2, <1>3
  <1> QED
    BY <1>4 DEF u

\* Weighing takes at least what the count says, and more with something before it.
LEMMA WeighedCount ==
  ASSUME NEW n \in Nat, NEW p \in Nat, NEW e \in Nat, e < Window,
         Limiter!Weighted(n, p, e) <= Budget * Window
  PROVE  n <= Budget /\ (p > 0 => n <= Budget - 1)
  <1>1. n * Window + p * (Window - e) <= Budget * Window
    BY DEF Limiter!Weighted
  <1>2. Window - e >= 1 /\ Window - e \in Nat
    BY LimitConstants
  <1>3. p * (Window - e) \in Nat
    BY <1>2
  <1>4. n * Window \in Nat /\ Budget * Window \in Nat
    BY LimitConstants
  <1>5. n <= Budget
    <2>1. SUFFICES ASSUME Budget + 1 <= n PROVE FALSE
      BY LimitConstants
    <2>2. (Budget + 1) * Window <= n * Window
      BY <2>1, LimitConstants
    <2>3. (Budget + 1) * Window = Budget * Window + Window
      BY LimitConstants
    <2> QED
      BY <1>1, <1>3, <1>4, <2>2, <2>3, LimitConstants
  <1>6. ASSUME p > 0, n = Budget PROVE FALSE
    <2>1. p * (Window - e) >= 1
      BY <1>2, <1>6
    <2> QED
      BY <1>1, <1>3, <1>4, <1>6, <2>1
  <1> QED
    BY <1>5, <1>6, LimitConstants

-----------------------------------------------------------------------------

\* The requests of a window are few enough to count.
LEMMA LimitCounts ==
  ASSUME LimitInv
  PROVE  /\ \A w : IsFiniteSet(Grants(w)) /\ Cardinality(Grants(w)) \in Nat
         /\ \A w, n : IsFiniteSet(Weighing(w, n)) /\ Cardinality(Weighing(w, n)) \in Nat
  <1>1. \A w : Grants(w) \in SUBSET granted
    BY DEF Grants
  <1>2. \A w, n : Weighing(w, n) \in SUBSET Checks
    BY DEF Weighing
  <1>3. IsFiniteSet(granted) /\ IsFiniteSet(Checks)
    BY LimitConstants DEF LimitInv
  <1> QED
    BY <1>1, <1>2, <1>3, FS_Subset, FS_CardinalityType

LEMMA LimitFacts ==
  ASSUME LimitInv
  PROVE  /\ clock \in Nat /\ clock <= MaxTime
         /\ \A w \in Limiter!Windows :
              w \in Nat /\ key[w] \in [count : Nat, until : Nat]
         /\ \A c \in Checks :
              /\ check[c] \in CheckRow
              /\ check[c].at \in Nat /\ check[c].at <= MaxTime /\ check[c].count \in Nat
              /\ Limiter!WindowOf(check[c].at) \in Limiter!Windows
              /\ Limiter!WindowOf(check[c].at) \in Nat
         /\ \A g \in granted :
              /\ g.at \in Nat /\ Limiter!WindowOf(g.at) \in Limiter!Windows
  <1>1. Limiter!Seconds = 0..MaxTime
    BY DEF Limiter!Seconds
  <1>2. \A s \in Limiter!Seconds :
          s \in Nat /\ s <= MaxTime /\ Limiter!WindowOf(s) \in Nat
            /\ Limiter!WindowOf(s) \in Limiter!Windows
    BY <1>1, WindowBounds, LimitConstants DEF Limiter!Windows
  <1>3. \A w \in Limiter!Windows : w \in Nat
    BY <1>2 DEF Limiter!Windows
  <1>4. \A c \in Checks : check[c] \in CheckRow
    BY DEF LimitInv
  <1>5. \A c \in Checks : check[c].at \in Limiter!Seconds /\ check[c].count \in Nat
    BY <1>4 DEF CheckRow
  <1>6. clock \in Limiter!Seconds /\ key \in [Limiter!Windows -> [count : Nat, until : Nat]]
        /\ granted \subseteq [at : Limiter!Seconds, number : Nat]
    BY DEF LimitInv, Limiter!TypeOK
  <1>7. \A g \in granted : g.at \in Limiter!Seconds
    BY <1>6
  <1> QED
    BY <1>2, <1>3, <1>4, <1>5, <1>6, <1>7

Sum(w, n) == Cardinality(Grants(w)) + Cardinality(Weighing(w, n))

LEMMA SumOf ==
  ASSUME LimitInv
  PROVE  /\ \A w, n : Sum(w, n) \in Nat
         /\ \A w \in Limiter!Windows :
              /\ Sum(w, Budget) <= key[w].count /\ Sum(w, Budget) <= Budget
              /\ ~straddled /\ w - 1 \in Limiter!Windows /\ key[w - 1].count > 0 =>
                   Sum(w, Budget - 1) <= Budget - 1
BY LimitCounts DEF Sum, LimitInv, WindowInv

\* A check that stops weighing lets nothing more through by that.
LEMMA QuietLimit ==
  ASSUME LimitInv, UNCHANGED <<key, granted>>, straddled => straddled',
         \A w, n : Weighing(w, n)' \subseteq Weighing(w, n)
  PROVE  (\A w \in Limiter!Windows : WindowInv(w))'
  <1>1. ASSUME NEW w, NEW n
        PROVE  /\ Grants(w)' = Grants(w)
               /\ Cardinality(Weighing(w, n)') \in Nat
               /\ Cardinality(Weighing(w, n)') <= Cardinality(Weighing(w, n))
    <2>1. Weighing(w, n)' \in SUBSET Weighing(w, n)
      OBVIOUS
    <2> QED
      BY <2>1, LimitCounts, FS_Subset, FS_CardinalityType DEF Grants
  <1>2. ASSUME NEW w \in Limiter!Windows
        PROVE  WindowInv(w)'
    <2> DEFINE a == Cardinality(Grants(w))
               b == Cardinality(Weighing(w, Budget))
               d == Cardinality(Weighing(w, Budget - 1))
               b2 == Cardinality(Weighing(w, Budget)')
               d2 == Cardinality(Weighing(w, Budget - 1)')
    <2>1. a \in Nat /\ b \in Nat /\ d \in Nat /\ b2 \in Nat /\ d2 \in Nat /\ b2 <= b /\ d2 <= d
      BY <1>1, LimitCounts
    <2>2. /\ a + b <= key[w].count /\ a + b <= Budget
          /\ ~straddled /\ w - 1 \in Limiter!Windows /\ key[w - 1].count > 0 => a + d <= Budget - 1
      BY DEF LimitInv, WindowInv
    <2>3. key[w].count \in Nat /\ Budget \in Nat
      BY LimitFacts, LimitConstants
    <2> HIDE DEF a, b, d, b2, d2
    <2>4. a + b2 <= key[w].count /\ a + b2 <= Budget
      BY <2>1, <2>2, <2>3
    <2>5. a + d <= Budget - 1 => a + d2 <= Budget - 1
      BY <2>1, <2>3
    <2>6. ~straddled' /\ w - 1 \in Limiter!Windows /\ key[w - 1].count > 0 => a + d2 <= Budget - 1
      BY <2>2, <2>5
    <2> QED
      BY <1>1, <2>4, <2>6 DEF WindowInv, a, b2, d2
  <1>3. Limiter!Windows' = Limiter!Windows
    BY DEF Limiter!Windows, Limiter!Seconds, Limiter!WindowOf
  <1> QED
    BY <1>2, <1>3

\* What a check's step does to the checks.
LEMMA CheckMoves ==
  ASSUME LimitInv, NEW c \in Checks, NEW x \in CheckRow, check' = [check EXCEPT ![c] = x]
  PROVE  /\ check' \in [Checks -> CheckRow]
         /\ \A b \in Checks : check'[b] = IF b = c THEN x ELSE check[b]
         /\ \A b \in Checks : check'[b].step \in {"idle", "counting", "weighing"}
                              /\ check'[b].at \in Limiter!Seconds
         /\ x.step # "weighing" => \A w, n : Weighing(w, n)' \subseteq Weighing(w, n)
         /\ \A w, n : w # Limiter!WindowOf(x.at) \/ ~(x.count <= n) =>
                        Weighing(w, n)' \subseteq Weighing(w, n)
         /\ \A w, n : Weighing(w, n)' \subseteq Weighing(w, n) \cup {c}
  <1>1. /\ check' \in [Checks -> CheckRow]
        /\ \A b \in Checks : check'[b] = IF b = c THEN x ELSE check[b]
    BY DEF LimitInv
  <1>2. \A b \in Checks : check'[b] \in CheckRow
    BY <1>1
  <1>3. \A b \in Checks : check'[b].step \in {"idle", "counting", "weighing"}
                          /\ check'[b].at \in Limiter!Seconds
    BY <1>2 DEF CheckRow
  <1>4. \A w, n : Weighing(w, n)' \subseteq Weighing(w, n) \cup {c}
    BY <1>1 DEF Weighing, InWindow, Limiter!WindowOf
  <1>5. x.step # "weighing" => \A w, n : Weighing(w, n)' \subseteq Weighing(w, n)
    BY <1>1 DEF Weighing, InWindow, Limiter!WindowOf
  <1>6. \A w, n : w # Limiter!WindowOf(x.at) \/ ~(x.count <= n) =>
                    Weighing(w, n)' \subseteq Weighing(w, n)
    BY <1>1 DEF Weighing, InWindow, Limiter!WindowOf
  <1> QED
    BY <1>1, <1>3, <1>4, <1>5, <1>6

LEMMA IdleCheck ==
  Limiter!Idle \in CheckRow /\ Limiter!Idle.step = "idle" /\ Limiter!Idle.at = 0
    /\ Limiter!Idle.count = 0
BY LimitConstants DEF Limiter!Idle, CheckRow, Limiter!Seconds

\* The steps of a check that count nothing.
LEMMA QuietCheckStep ==
  ASSUME LimitInv, NEW c \in Checks, Limiter!Begin(c) \/ Limiter!Degrade(c)
  PROVE  LimitInv'
  <1>1. UNCHANGED <<clock, key, reachable, outages, guarded, granted, straddled>>
    BY DEF Limiter!Begin, Limiter!Degrade
  <1>2. PICK x \in CheckRow :
          /\ check' = [check EXCEPT ![c] = x]
          /\ x.step = "idle" \/ (x.step = "counting" /\ x.at = clock)
    <2>1. CASE Limiter!Begin(c)
      <3> DEFINE x == [Limiter!Idle EXCEPT !.step = "counting", !.at = clock]
      <3>1. clock \in Limiter!Seconds
        BY DEF LimitInv, Limiter!TypeOK
      <3>2. x \in CheckRow /\ x.step = "counting" /\ x.at = clock
        BY <3>1, IdleCheck DEF CheckRow
      <3>3. check' = [check EXCEPT ![c] = x]
        BY <2>1 DEF Limiter!Begin
      <3> HIDE DEF x
      <3> QED
        BY <3>2, <3>3
    <2>2. CASE Limiter!Degrade(c)
      BY <2>2, IdleCheck DEF Limiter!Degrade
    <2> QED
      BY <2>1, <2>2
  <1>3. /\ check' \in [Checks -> CheckRow]
        /\ \A b \in Checks : check'[b] = IF b = c THEN x ELSE check[b]
        /\ \A b \in Checks : check'[b].step \in {"idle", "counting", "weighing"}
                             /\ check'[b].at \in Limiter!Seconds
        /\ \A w, n : Weighing(w, n)' \subseteq Weighing(w, n)
    BY <1>2, CheckMoves
  <1>4. (\A w \in Limiter!Windows : WindowInv(w))'
    BY <1>1, <1>3, QuietLimit
  <1>5. (\A w \in Limiter!Windows : KeyInv(w))'
    BY <1>1 DEF LimitInv, KeyInv, Limiter!Windows, Limiter!Seconds, Limiter!WindowOf
  <1>6. x.step # "idle" => x.at <= clock /\ clock - x.at < Window
    BY <1>2, LimitFacts, LimitConstants
  <1>7. (\A b \in Checks : CheckInv(b))'
    BY <1>1, <1>2, <1>3, <1>6 DEF LimitInv, CheckInv, InWindow, Limiter!WindowOf
  <1>8. Limiter!TypeOK'
    BY <1>1, <1>3 DEF LimitInv, Limiter!TypeOK, Limiter!Seconds, Limiter!Windows, Limiter!WindowOf
  <1> QED
    BY <1>1, <1>3, <1>4, <1>5, <1>7, <1>8 DEF LimitInv

\* What GET or INCR find of a window is its count, for the key outlives what asks for it.
LEMMA CountIs ==
  ASSUME LimitInv, NEW w \in Limiter!Windows, clock < Window * w + 2 * Window
  PROVE  Limiter!Count(w) = key[w].count
  <1>1. key[w].count \in Nat /\ key[w].until \in Nat
    BY LimitFacts
  <1>2. key[w].count > 0 => clock < key[w].until
    <2>1. key[w].count > 0 => key[w].until >= Window * w + 2 * Window
      BY DEF LimitInv, KeyInv
    <2>2. Window * w \in Nat /\ 2 * Window \in Nat /\ clock \in Nat
      BY LimitFacts, LimitConstants
    <2> QED
      BY <1>1, <2>1, <2>2
  <1> QED
    BY <1>1, <1>2 DEF Limiter!Count

\* A check ends before the window after its own does.
LEMMA CheckTimes ==
  ASSUME LimitInv, NEW c \in Checks, check[c].step # "idle", NEW w,
         w = Limiter!WindowOf(check[c].at)
  PROVE  /\ w \in Limiter!Windows /\ w \in Nat
         /\ Window * w <= clock /\ clock < Window * w + 2 * Window
         /\ ~straddled => Limiter!WindowOf(clock) = w /\ clock < Window * w + Window
  <1>1. /\ check[c].at \in Nat /\ clock \in Nat
        /\ w \in Limiter!Windows /\ w \in Nat
    BY LimitFacts
  <1>2. check[c].at <= clock /\ clock - check[c].at < Window
    BY DEF LimitInv, CheckInv
  <1>3. Window * w <= check[c].at /\ check[c].at < Window * w + Window
    BY <1>1, WindowBounds
  <1>4. Window * w \in Nat /\ Window \in Nat
    BY <1>1, LimitConstants
  <1>5. Window * w <= clock /\ clock < Window * w + 2 * Window
    BY <1>1, <1>2, <1>3, <1>4
  <1>6. ~straddled => Limiter!WindowOf(clock) = w
    BY DEF LimitInv, CheckInv, InWindow
  <1>7. clock < Window * Limiter!WindowOf(clock) + Window
    BY <1>1, WindowBounds
  <1> QED
    BY <1>1, <1>5, <1>6, <1>7

\* A request of its own count is one more that its window may let through.
LEMMA IncrementStep ==
  ASSUME LimitInv, NEW c \in Checks, Limiter!Increment(c)
  PROVE  LimitInv'
  <1> DEFINE v == Limiter!WindowOf(check[c].at)
             m == key[v].count
             x == [check[c] EXCEPT !.step = "weighing", !.count = m + 1]
             k == [count |-> m + 1, until |-> clock + 2 * Window]
  <1>1. /\ check[c].step = "counting" /\ reachable
        /\ UNCHANGED <<clock, reachable, outages, local, guarded, granted, straddled>>
    BY DEF Limiter!Increment
  <1>2. /\ v \in Limiter!Windows /\ v \in Nat
        /\ Window * v <= clock /\ clock < Window * v + 2 * Window
        /\ ~straddled => clock < Window * v + Window
    BY <1>1, CheckTimes
  <1>3. Limiter!Count(v) = m
    BY <1>2, CountIs
  <1>4. key' = [key EXCEPT ![v] = k] /\ check' = [check EXCEPT ![c] = x]
    BY <1>3 DEF Limiter!Increment
  <1>5. m \in Nat /\ clock \in Nat /\ Window \in Nat /\ Window > 0 /\ Budget \in Nat /\ Budget > 0
    BY <1>2, LimitFacts, LimitConstants
  <1>6. /\ k \in [count : Nat, until : Nat]
        /\ k.count = m + 1 /\ k.until = clock + 2 * Window
    BY <1>5
  <1>7. x \in CheckRow /\ x.step = "weighing" /\ x.at = check[c].at /\ x.count = m + 1
    <2>1. check[c] \in CheckRow /\ m + 1 \in Nat
      BY <1>5, LimitFacts
    <2> HIDE DEF m
    <2> QED
      BY <2>1 DEF CheckRow
  <1>8. v = Limiter!WindowOf(check[c].at) /\ m = key[v].count
    OBVIOUS
  <1> HIDE DEF x, k, m, v
  <1>9. /\ key' \in [Limiter!Windows -> [count : Nat, until : Nat]]
        /\ \A w \in Limiter!Windows : key'[w] = IF w = v THEN k ELSE key[w]
    BY <1>4, <1>6 DEF LimitInv, Limiter!TypeOK
  <1>10. /\ check' \in [Checks -> CheckRow]
         /\ \A b \in Checks : check'[b] = IF b = c THEN x ELSE check[b]
         /\ \A b \in Checks : check'[b].step \in {"idle", "counting", "weighing"}
                              /\ check'[b].at \in Limiter!Seconds
         /\ \A w, n : w # v \/ ~(m + 1 <= n) => Weighing(w, n)' \subseteq Weighing(w, n)
         /\ \A w, n : Weighing(w, n)' \subseteq Weighing(w, n) \cup {c}
    <2>1. v = Limiter!WindowOf(x.at) /\ x.count = m + 1
      BY <1>7, <1>8
    <2>2. \A w, n : w # Limiter!WindowOf(x.at) \/ ~(x.count <= n) =>
                       Weighing(w, n)' \subseteq Weighing(w, n)
      BY <1>4, <1>7, CheckMoves
    <2>3. \A w, n : w # v \/ ~(m + 1 <= n) => Weighing(w, n)' \subseteq Weighing(w, n)
      BY <2>1, <2>2
    <2> QED
      BY <1>4, <1>7, <2>3, CheckMoves
  <1>11. Limiter!TypeOK'
    BY <1>1, <1>9, <1>10
    DEF LimitInv, Limiter!TypeOK, Limiter!Seconds, Limiter!Windows, Limiter!WindowOf
  <1>12. (\A w \in Limiter!Windows : KeyInv(w))'
    <2>1. k.until >= Window * v + 2 * Window /\ Window * v <= clock
      BY <1>2, <1>5, <1>6
    <2>2. ASSUME NEW w \in Limiter!Windows
          PROVE  KeyInv(w)'
      BY <1>1, <1>9, <2>1, <2>2 DEF LimitInv, KeyInv
    <2> QED
      BY <2>2 DEF Limiter!Windows, Limiter!Seconds, Limiter!WindowOf
  <1>13. (\A b \in Checks : CheckInv(b))'
    <2>1. CheckInv(c)'
      BY <1>1, <1>7, <1>10 DEF LimitInv, CheckInv, InWindow, Limiter!WindowOf
    <2>2. ASSUME NEW b \in Checks, b # c
          PROVE  CheckInv(b)'
      BY <1>1, <1>10, <2>2 DEF LimitInv, CheckInv, InWindow, Limiter!WindowOf
    <2> QED
      BY <2>1, <2>2
  <1>14. ASSUME NEW w, NEW n
         PROVE  /\ Grants(w)' = Grants(w)
                /\ Sum(w, n)' \in Nat /\ Sum(w, n) \in Nat /\ Sum(w, n)' <= Sum(w, n) + 1
                /\ w # v \/ ~(m + 1 <= n) => Sum(w, n)' <= Sum(w, n)
    <2> DEFINE a == Cardinality(Grants(w))
               b == Cardinality(Weighing(w, n))
               b2 == Cardinality(Weighing(w, n)')
    <2>1. Grants(w)' = Grants(w)
      BY <1>1 DEF Grants, InWindow, Limiter!WindowOf
    <2>2. IsFiniteSet(Weighing(w, n)) /\ b \in Nat /\ a \in Nat
      BY LimitCounts
    <2>3. /\ IsFiniteSet(Weighing(w, n) \cup {c})
          /\ Cardinality(Weighing(w, n) \cup {c}) \in Nat
          /\ Cardinality(Weighing(w, n) \cup {c}) <= b + 1
      <3>1. /\ IsFiniteSet(Weighing(w, n) \cup {c})
            /\ Cardinality(Weighing(w, n) \cup {c}) = IF c \in Weighing(w, n) THEN b ELSE b + 1
        BY <2>2, FS_AddElement
      <3> HIDE DEF b
      <3> QED
        BY <2>2, <3>1
    <2>4. b2 \in Nat /\ b2 <= Cardinality(Weighing(w, n) \cup {c})
      <3>1. Weighing(w, n)' \in SUBSET (Weighing(w, n) \cup {c})
        BY <1>10
      <3> QED
        BY <2>3, <3>1, FS_Subset, FS_CardinalityType
    <2>5. w # v \/ ~(m + 1 <= n) => b2 <= b
      <3>1. w # v \/ ~(m + 1 <= n) => Weighing(w, n)' \in SUBSET Weighing(w, n)
        BY <1>10
      <3> QED
        BY <2>2, <3>1, FS_Subset
    <2>6. Sum(w, n) = a + b /\ Sum(w, n)' = a + b2
      BY <2>1 DEF Sum
    <2>7. b2 <= b + 1
      BY <2>2, <2>3, <2>4
    <2> HIDE DEF a, b, b2
    <2> QED
      BY <2>1, <2>2, <2>4, <2>5, <2>6, <2>7
  <1>15. ASSUME NEW w \in Limiter!Windows
         PROVE  /\ Sum(w, Budget)' <= key'[w].count
                /\ Sum(w, Budget)' <= Budget
                /\ ~straddled /\ w - 1 \in Limiter!Windows /\ key'[w - 1].count > 0 =>
                     Sum(w, Budget - 1)' <= Budget - 1
    <2>1. /\ Sum(w, Budget) \in Nat /\ Sum(w, Budget)' \in Nat /\ Sum(w, Budget - 1) \in Nat
          /\ Sum(w, Budget - 1)' \in Nat
          /\ Sum(w, Budget)' <= Sum(w, Budget) + 1
          /\ Sum(w, Budget - 1)' <= Sum(w, Budget - 1) + 1
          /\ w # v \/ ~(m + 1 <= Budget) => Sum(w, Budget)' <= Sum(w, Budget)
          /\ w # v \/ ~(m + 1 <= Budget - 1) => Sum(w, Budget - 1)' <= Sum(w, Budget - 1)
      BY <1>14
    <2>2. /\ Sum(w, Budget) <= key[w].count /\ Sum(w, Budget) <= Budget
          /\ ~straddled /\ w - 1 \in Limiter!Windows /\ key[w - 1].count > 0 =>
               Sum(w, Budget - 1) <= Budget - 1
      BY SumOf
    <2>3. Sum(w, Budget - 1) <= Sum(w, Budget)
      <3>1. Weighing(w, Budget - 1) \in SUBSET Weighing(w, Budget)
        <4>1. \A b \in Checks : check[b].count <= Budget - 1 => check[b].count <= Budget
          BY <1>5, LimitFacts
        <4> QED
          BY <4>1 DEF Weighing
      <3>2. Cardinality(Weighing(w, Budget - 1)) <= Cardinality(Weighing(w, Budget))
        BY <3>1, LimitCounts, FS_Subset
      <3> QED
        BY <3>2, LimitCounts DEF Sum
    <2>4. key[w].count \in Nat
      BY LimitFacts
    <2>5. CASE w = v
      <3>1. key'[w].count = m + 1 /\ key[w].count = m
        BY <1>6, <1>8, <1>9, <2>5
      <3>2. Sum(w, Budget)' <= m + 1 /\ Sum(w, Budget)' <= Budget
        <4>1. CASE m + 1 <= Budget
          BY <1>5, <2>1, <2>2, <3>1, <4>1
        <4>2. CASE ~(m + 1 <= Budget)
          BY <1>5, <2>1, <2>2, <3>1, <4>2
        <4> QED
          BY <4>1, <4>2
      <3>3. w - 1 \in Limiter!Windows => key'[w - 1] = key[w - 1]
        BY <1>2, <1>9, <2>5
      <3>4. Sum(w, Budget - 1) <= Budget - 1 => Sum(w, Budget - 1)' <= Budget - 1
        <4>1. CASE m + 1 <= Budget - 1
          BY <1>5, <2>1, <2>2, <2>3, <3>1, <4>1
        <4>2. CASE ~(m + 1 <= Budget - 1)
          BY <1>5, <2>1, <4>2
        <4> QED
          BY <4>1, <4>2
      <3> QED
        BY <2>2, <3>1, <3>2, <3>3, <3>4
    <2>6. CASE w # v
      <3>1. key'[w] = key[w]
        BY <1>9, <2>6
      <3>2. Sum(w, Budget)' <= key[w].count /\ Sum(w, Budget)' <= Budget
        BY <1>5, <2>1, <2>2, <2>4, <2>6
      <3>3. Sum(w, Budget - 1) <= Budget - 1 => Sum(w, Budget - 1)' <= Budget - 1
        BY <1>5, <2>1, <2>6
      <3>4. ASSUME ~straddled, w - 1 = v
            PROVE  Sum(w, Budget - 1)' <= Budget - 1
        <4>0. w \in Nat
          BY LimitFacts
        <4>1. w = v + 1
          BY <1>2, <3>4, <4>0
        <4>2. Window * w = Window * v + Window
          BY <1>2, <1>5, <4>1
        <4>3. ~(Window * w <= clock)
          <5>1. Window * v \in Nat
            BY <1>2, <1>5
          <5> QED
            BY <1>2, <1>5, <3>4, <4>2, <5>1
        <4>4. key[w].count = 0
          BY <2>4, <4>3 DEF LimitInv, KeyInv
        <4> QED
          BY <1>5, <2>1, <2>2, <2>3, <2>6, <4>4
      <3>5. ASSUME w - 1 \in Limiter!Windows, w - 1 # v
            PROVE  key'[w - 1] = key[w - 1]
        BY <1>9, <3>5
      <3> QED
        BY <2>2, <3>1, <3>2, <3>3, <3>4, <3>5
    <2> QED
      BY <2>5, <2>6
  <1>16. (\A w \in Limiter!Windows : WindowInv(w))'
    <2>1. ASSUME NEW w \in Limiter!Windows
          PROVE  WindowInv(w)'
      BY <1>1, <1>15, <2>1 DEF WindowInv, Sum, Limiter!Windows, Limiter!Seconds, Limiter!WindowOf
    <2> QED
      BY <2>1 DEF Limiter!Windows, Limiter!Seconds, Limiter!WindowOf
  <1> QED
    BY <1>1, <1>10, <1>11, <1>12, <1>13, <1>16 DEF LimitInv

\* Of the requests of a window, one that is let through was counted among its first ones.
LEMMA WeighStep ==
  ASSUME LimitInv, NEW c \in Checks, Limiter!Weigh(c)
  PROVE  LimitInv'
  <1> DEFINE at == check[c].at
             v == Limiter!WindowOf(at)
             m == check[c].count
             p == IF reachable THEN Limiter!Count(v - 1) ELSE 0
             g == [at |-> at, number |-> Limiter!GrantedIn({at}) + 1]
  <1>1. /\ check[c].step = "weighing"
        /\ check' = [check EXCEPT ![c] = Limiter!Idle]
        /\ granted' = IF Limiter!Weighted(m, p, at % Window) <= Budget * Window
                        THEN granted \cup {g} ELSE granted
        /\ UNCHANGED <<clock, key, reachable, outages, local, guarded, straddled>>
    BY DEF Limiter!Weigh
  <1>2. /\ v \in Limiter!Windows /\ v \in Nat /\ m \in Nat /\ at \in Nat
        /\ ~straddled => clock < Window * v + Window
    BY <1>1, CheckTimes, LimitFacts
  <1>3. at \in Limiter!Seconds
    <2>1. check[c] \in CheckRow
      BY LimitFacts
    <2> QED
      BY <2>1 DEF CheckRow
  <1>4. at % Window \in Nat /\ at % Window < Window
    BY <1>2, WindowBounds
  <1>5. p \in Nat
    <2>1. v - 1 \in Limiter!Windows => key[v - 1].count \in Nat
      BY LimitFacts
    <2> QED
      BY <2>1 DEF Limiter!Count
  <1>6. ASSUME ~straddled, v - 1 \in Limiter!Windows
        PROVE  p = key[v - 1].count
    <2>1. reachable
      BY <1>1, <1>6 DEF LimitInv, CheckInv
    <2>2. v - 1 \in Nat
      BY <1>6, LimitFacts
    <2>3. Window * (v - 1) = Window * v - Window /\ Window * v \in Nat /\ Window \in Nat
      BY <1>2, LimitConstants
    <2>4. clock \in Nat
      BY LimitFacts
    <2>5. clock < Window * (v - 1) + 2 * Window
      BY <1>2, <1>6, <2>3, <2>4
    <2> QED
      BY <1>6, <2>1, <2>5, CountIs
  <1>7. g \in [at : Limiter!Seconds, number : Nat] /\ g.at = at
    <2>1. {h \in granted : h.at \in {at}} \in SUBSET granted
      OBVIOUS
    <2>2. Cardinality({h \in granted : h.at \in {at}}) \in Nat
      BY <2>1, FS_Subset, FS_CardinalityType DEF LimitInv
    <2>3. Limiter!GrantedIn({at}) \in Nat
      BY <2>2, LimiterCardinality DEF Limiter!GrantedIn
    <2> QED
      BY <1>3, <2>3
  <1>8. ASSUME granted' # granted
        PROVE  /\ granted' = granted \cup {g}
               /\ m <= Budget /\ (p > 0 => m <= Budget - 1)
    BY <1>1, <1>2, <1>4, <1>5, <1>8, WeighedCount
  <1>9. /\ v = Limiter!WindowOf(check[c].at) /\ m = check[c].count /\ at = check[c].at
    OBVIOUS
  <1> HIDE DEF at, v, m, p, g
  <1>10. /\ check' \in [Checks -> CheckRow]
         /\ \A b \in Checks : check'[b] = IF b = c THEN Limiter!Idle ELSE check[b]
         /\ \A b \in Checks : check'[b].step \in {"idle", "counting", "weighing"}
                              /\ check'[b].at \in Limiter!Seconds
         /\ \A w, n : Weighing(w, n)' \subseteq Weighing(w, n)
    BY <1>1, CheckMoves, IdleCheck
  <1>11. /\ IsFiniteSet(granted')
         /\ granted' \subseteq [at : Limiter!Seconds, number : Nat]
    <2>1. IsFiniteSet(granted) /\ granted \subseteq [at : Limiter!Seconds, number : Nat]
      BY DEF LimitInv, Limiter!TypeOK
    <2>2. IsFiniteSet(granted \cup {g})
      BY <2>1, FS_AddElement
    <2> QED
      BY <1>7, <1>8, <2>1, <2>2
  <1>12. Limiter!TypeOK'
    BY <1>1, <1>10, <1>11
    DEF LimitInv, Limiter!TypeOK, Limiter!Seconds, Limiter!Windows, Limiter!WindowOf
  <1>13. (\A b \in Checks : CheckInv(b))'
    BY <1>1, <1>10, IdleCheck DEF LimitInv, CheckInv, InWindow, Limiter!WindowOf
  <1>14. (\A w \in Limiter!Windows : KeyInv(w))'
    BY <1>1 DEF LimitInv, KeyInv, Limiter!Windows, Limiter!Seconds, Limiter!WindowOf
  <1>15. (\A w \in Limiter!Windows : WindowInv(w))'
    <2>1. CASE granted' = granted
      BY <1>1, <1>10, <2>1, QuietLimit
    <2>2. CASE granted' # granted
      <3>1. /\ granted' = granted \cup {g}
            /\ m <= Budget /\ (p > 0 => m <= Budget - 1)
        BY <1>8, <2>2
      <3>2. ASSUME NEW w, NEW n
            PROVE  /\ Sum(w, n) \in Nat /\ Sum(w, n)' \in Nat
                   /\ w # v => Sum(w, n)' <= Sum(w, n)
                   /\ w = v /\ m <= n => Sum(w, n)' <= Sum(w, n)
        <4> DEFINE a == Cardinality(Grants(w))
                   a2 == Cardinality(Grants(w)')
                   b == Cardinality(Weighing(w, n))
                   b2 == Cardinality(Weighing(w, n)')
        <4>1. /\ IsFiniteSet(Grants(w)) /\ IsFiniteSet(Weighing(w, n)) /\ a \in Nat /\ b \in Nat
          BY LimitCounts
        <4>2. b2 \in Nat /\ b2 <= b
          <5>1. Weighing(w, n)' \in SUBSET Weighing(w, n)
            BY <1>10
          <5> QED
            BY <4>1, <5>1, FS_Subset, FS_CardinalityType
        <4>3. a2 \in Nat /\ a2 <= a + 1 /\ (w # v => a2 = a)
          <5>1. Limiter!WindowOf(g.at) = v
            BY <1>7, <1>9
          <5>2. w # v => Grants(w)' = Grants(w)
            BY <3>1, <5>1 DEF Grants, InWindow, Limiter!WindowOf
          <5>3. w = v => Grants(w)' = Grants(w) \cup {g}
            BY <3>1, <5>1 DEF Grants, InWindow, Limiter!WindowOf
          <5>4. /\ Cardinality(Grants(w) \cup {g}) = IF g \in Grants(w) THEN a ELSE a + 1
            BY <4>1, FS_AddElement
          <5>5. w # v => a2 = a
            BY <5>2
          <5>6. w = v => a2 = a \/ a2 = a + 1
            BY <5>3, <5>4
          <5> HIDE DEF a, a2
          <5> QED
            BY <4>1, <5>5, <5>6
        <4>4. w = v /\ m <= n => b2 + 1 <= b
          <5>1. SUFFICES ASSUME w = v, m <= n PROVE b2 + 1 <= b
            OBVIOUS
          <5>2. c \in Weighing(w, n)
            BY <1>1, <1>9, <5>1 DEF Weighing, InWindow
          <5>3. Weighing(w, n)' \in SUBSET (Weighing(w, n) \ {c})
            BY <1>10, IdleCheck DEF Weighing, InWindow, Limiter!WindowOf
          <5>4. /\ IsFiniteSet(Weighing(w, n) \ {c})
                /\ Cardinality(Weighing(w, n) \ {c}) = b - 1
            BY <4>1, <5>2, FS_RemoveElement
          <5>5. b2 <= Cardinality(Weighing(w, n) \ {c})
            BY <5>3, <5>4, FS_Subset
          <5> HIDE DEF b, b2
          <5> QED
            BY <4>1, <4>2, <5>4, <5>5
        <4>5. Sum(w, n) = a + b /\ Sum(w, n)' = a2 + b2
          BY DEF Sum
        <4> HIDE DEF a, b, a2, b2
        <4> QED
          BY <4>1, <4>2, <4>3, <4>4, <4>5
      <3>3. ASSUME NEW w \in Limiter!Windows
            PROVE  WindowInv(w)'
        <4>1. /\ Sum(w, Budget) <= key[w].count /\ Sum(w, Budget) <= Budget
              /\ ~straddled /\ w - 1 \in Limiter!Windows /\ key[w - 1].count > 0 =>
                   Sum(w, Budget - 1) <= Budget - 1
          BY SumOf
        <4>2. /\ Sum(w, Budget) \in Nat /\ Sum(w, Budget)' \in Nat /\ Sum(w, Budget - 1) \in Nat
              /\ Sum(w, Budget - 1)' \in Nat /\ Sum(w, Budget)' <= Sum(w, Budget)
          BY <3>1, <3>2
        <4>3. key[w].count \in Nat /\ Budget \in Nat
          BY LimitFacts, LimitConstants
        <4>4. Sum(w, Budget)' <= key[w].count /\ Sum(w, Budget)' <= Budget
          BY <4>1, <4>2, <4>3
        <4>5. ASSUME ~straddled, w - 1 \in Limiter!Windows, key[w - 1].count > 0
              PROVE  Sum(w, Budget - 1)' <= Budget - 1
          <5>1. w = v => m <= Budget - 1
            BY <1>6, <3>1, <4>5
          <5>2. Sum(w, Budget - 1)' <= Sum(w, Budget - 1)
            BY <3>2, <5>1
          <5> QED
            BY <4>1, <4>2, <4>3, <4>5, <5>2
        <4> QED
          BY <1>1, <4>4, <4>5
          DEF WindowInv, Sum, Limiter!Windows, Limiter!Seconds, Limiter!WindowOf
      <3> QED
        BY <3>3 DEF Limiter!Windows, Limiter!Seconds, Limiter!WindowOf
    <2> QED
      BY <2>1, <2>2
  <1> QED
    BY <1>1, <1>10, <1>11, <1>12, <1>13, <1>14, <1>15 DEF LimitInv

LEMMA Flying ==
  ASSUME NEW c \in Checks, check[c].step # "idle"
  PROVE  c \in Limiter!InFlight
BY IdleCheck DEF Limiter!InFlight

\* Only checks that last into another window, or meet an outage, are an exception.
LEMMA TickStep ==
  ASSUME LimitInv, Limiter!Tick
  PROVE  LimitInv'
  <1>1. /\ clock < MaxTime /\ clock' = clock + 1
        /\ \A c \in Limiter!InFlight : clock + 1 - check[c].at < Window
        /\ straddled' = (straddled \/ \E c \in Limiter!InFlight :
                           Limiter!WindowOf(check[c].at) # Limiter!WindowOf(clock + 1))
        /\ UNCHANGED <<key, reachable, outages, check, local, guarded, granted>>
    BY DEF Limiter!Tick
  <1>2. clock \in Nat /\ clock' \in Nat /\ clock' \in Limiter!Seconds /\ clock <= clock'
    BY <1>1, LimitFacts, LimitConstants DEF Limiter!Seconds
  <1>3. Limiter!TypeOK'
    BY <1>1, <1>2 DEF LimitInv, Limiter!TypeOK, Limiter!Seconds, Limiter!Windows, Limiter!WindowOf
  <1>4. (\A w \in Limiter!Windows : WindowInv(w))'
    <2>1. \A w, n : Weighing(w, n)' \subseteq Weighing(w, n)
      BY <1>1 DEF Weighing, InWindow, Limiter!WindowOf
    <2> QED
      BY <1>1, <2>1, QuietLimit
  <1>5. (\A w \in Limiter!Windows : KeyInv(w))'
    <2>1. ASSUME NEW w \in Limiter!Windows, Window * w <= clock
          PROVE  Window * w <= clock'
      <3>1. Window * w \in Nat
        BY LimitFacts, LimitConstants
      <3> QED
        BY <1>2, <2>1, <3>1
    <2> QED
      BY <1>1, <2>1 DEF LimitInv, KeyInv, Limiter!Windows, Limiter!Seconds, Limiter!WindowOf
  <1>6. ASSUME NEW c \in Checks
        PROVE  CheckInv(c)'
    <2>1. SUFFICES ASSUME check[c].step # "idle" PROVE CheckInv(c)'
      BY <1>1 DEF CheckInv
    <2>2. c \in Limiter!InFlight
      BY <2>1, Flying
    <2>3. check[c].at <= clock' /\ clock' - check[c].at < Window
      BY <1>1, <1>2, <2>1, <2>2, LimitFacts DEF LimitInv, CheckInv
    <2>4. ~straddled' => ~straddled /\ Limiter!WindowOf(check[c].at) = Limiter!WindowOf(clock')
      BY <1>1, <2>2
    <2>5. ~straddled /\ check[c].step = "weighing" => reachable
      BY DEF LimitInv, CheckInv
    <2> QED
      BY <1>1, <2>3, <2>4, <2>5 DEF CheckInv, InWindow, Limiter!WindowOf
  <1>7. straddled' \in BOOLEAN
    BY <1>1
  <1> QED
    BY <1>1, <1>3, <1>4, <1>5, <1>6, <1>7 DEF LimitInv

LEMMA OutageStep ==
  ASSUME LimitInv, Limiter!GoOut \/ Limiter!ComeBack
  PROVE  LimitInv'
  <1>1. /\ straddled' = (straddled \/ Limiter!InFlight # {})
        /\ UNCHANGED <<clock, key, check, local, guarded, granted>>
    BY DEF Limiter!GoOut, Limiter!ComeBack
  <1>2. outages' \in 0..MaxOutages
    <2>1. outages \in 0..MaxOutages
      BY DEF LimitInv, Limiter!TypeOK
    <2>2. outages' = outages \/ (outages < MaxOutages /\ outages' = outages + 1)
      BY DEF Limiter!GoOut, Limiter!ComeBack
    <2> QED
      BY <2>1, <2>2, LimitConstants
  <1>3. Limiter!TypeOK'
    BY <1>1, <1>2 DEF LimitInv, Limiter!TypeOK, Limiter!Seconds, Limiter!Windows, Limiter!WindowOf
  <1>4. (\A w \in Limiter!Windows : WindowInv(w))'
    <2>1. \A w, n : Weighing(w, n)' \subseteq Weighing(w, n)
      BY <1>1 DEF Weighing, InWindow, Limiter!WindowOf
    <2> QED
      BY <1>1, <2>1, QuietLimit
  <1>5. (\A w \in Limiter!Windows : KeyInv(w))'
    BY <1>1 DEF LimitInv, KeyInv, Limiter!Windows, Limiter!Seconds, Limiter!WindowOf
  <1>6. (\A c \in Checks : CheckInv(c))'
    BY <1>1, Flying DEF LimitInv, CheckInv, InWindow, Limiter!WindowOf
  <1>7. straddled' \in BOOLEAN
    BY <1>1
  <1> QED
    BY <1>1, <1>3, <1>4, <1>5, <1>6, <1>7 DEF LimitInv

LEMMA LimitStep == LimitInv /\ [Limiter!Next]_limitVars => LimitInv'
  <1> SUFFICES ASSUME LimitInv, [Limiter!Next]_limitVars
               PROVE  LimitInv'
    OBVIOUS
  <1>1. CASE UNCHANGED limitVars
    BY <1>1
    DEF limitVars, LimitInv, Limiter!TypeOK, KeyInv, WindowInv, CheckInv, InWindow, Grants, Weighing,
        Limiter!Windows, Limiter!Seconds, Limiter!WindowOf
  <1> QED
    BY <1>1, QuietCheckStep, IncrementStep, WeighStep, TickStep, OutageStep DEF Limiter!Next

LEMMA InitLimit == Limiter!Init => LimitInv
  <1> SUFFICES ASSUME Limiter!Init PROVE LimitInv
    OBVIOUS
  <1>1. /\ clock = 0 /\ outages = 0 /\ granted = {} /\ straddled = FALSE
        /\ key = [w \in Limiter!Windows |-> [count |-> 0, until |-> 0]]
        /\ check = [c \in Checks |-> Limiter!Idle]
    BY DEF Limiter!Init, Limiter!NoKey
  <1>2. /\ check \in [Checks -> CheckRow]
        /\ \A c \in Checks : check[c].step = "idle" /\ check[c].at = 0
    BY <1>1, IdleCheck
  <1>3. \A w \in Limiter!Windows : key[w].count = 0
    BY <1>1
  <1>4. 0 \in Limiter!Seconds /\ 0 \in 0..MaxOutages
    BY LimitConstants DEF Limiter!Seconds
  <1>5. Limiter!TypeOK
    BY <1>1, <1>2, <1>4 DEF Limiter!TypeOK
  <1>6. ASSUME NEW w, NEW n
        PROVE  Cardinality(Grants(w)) + Cardinality(Weighing(w, n)) = 0
    <2>1. Grants(w) = {} /\ Weighing(w, n) = {}
      BY <1>1, <1>2 DEF Grants, Weighing
    <2> QED
      BY <2>1, FS_EmptySet
  <1>7. ASSUME NEW w \in Limiter!Windows
        PROVE  KeyInv(w) /\ WindowInv(w)
    <2>1. WindowInv(w)
      BY <1>3, <1>6, LimitConstants DEF WindowInv
    <2> QED
      BY <1>3, <2>1 DEF KeyInv
  <1> QED
    BY <1>1, <1>2, <1>5, <1>7, FS_EmptySet DEF LimitInv, CheckInv

-----------------------------------------------------------------------------

\* Neither a window nor the boundary of two lets more through than GrantsAreBounded says.
LEMMA BoundedGrants == LimitInv => Limiter!GrantsAreBounded
  <1> SUFFICES ASSUME LimitInv PROVE Limiter!GrantsAreBounded
    OBVIOUS
  <1>1. \A S : Limiter!GrantedIn(S) = Cardinality({g \in granted : g.at \in S})
    BY LimiterCardinality DEF Limiter!GrantedIn
  <1>2. \A w \in Limiter!Windows : Cardinality(Grants(w)) <= Budget
    BY LimitCounts, LimitConstants DEF LimitInv, WindowInv
  <1>3. ASSUME NEW w \in Limiter!Windows
        PROVE  Limiter!GrantedIn({s \in Limiter!Seconds : Limiter!WindowOf(s) = w}) <= Budget
    <2> DEFINE G == {g \in granted : g.at \in {s \in Limiter!Seconds : Limiter!WindowOf(s) = w}}
    <2>1. G \in SUBSET Grants(w)
      BY DEF Grants, InWindow
    <2>2. Cardinality(G) <= Cardinality(Grants(w)) /\ Cardinality(G) \in Nat
      BY <2>1, LimitCounts, FS_Subset, FS_CardinalityType
    <2>3. Cardinality(G) <= Budget
      <3> HIDE DEF G
      <3> QED
        BY <1>2, <2>2, LimitCounts, LimitConstants
    <2> QED
      BY <1>1, <2>3
  <1>4. ASSUME ~straddled, NEW s \in 0..(MaxTime - Window + 1)
        PROVE  Limiter!GrantedIn(s..(s + Window - 1)) < 2 * Budget
    <2> DEFINE G == {g \in granted : g.at \in s..(s + Window - 1)}
               w == Limiter!WindowOf(s)
    <2>1. s \in Nat /\ s \in Limiter!Seconds
      BY LimitConstants DEF Limiter!Seconds
    <2>2. w \in Limiter!Windows /\ w \in Nat /\ Window * w <= s /\ s < Window * w + Window
      BY <2>1, WindowBounds DEF Limiter!Windows
    <2>3. Window * (w + 1) = Window * w + Window /\ Window * w \in Nat /\ Window \in Nat /\ Window > 0
      BY <2>2, LimitConstants
    <2>4. ASSUME NEW g \in G
          PROVE  g \in Grants(w) \/ g \in Grants(w + 1)
      <3>1. g \in granted /\ g.at \in Nat /\ s <= g.at /\ g.at < s + Window
        BY <2>1, <2>3, LimitFacts
      <3> HIDE DEF G, w
      <3>2. CASE g.at < Window * w + Window
        <4>1. Limiter!WindowOf(g.at) = w
          BY <2>1, <2>2, <2>3, <3>1, <3>2, WindowOnly
        <4> QED
          BY <3>1, <4>1 DEF Grants, InWindow
      <3>3. CASE ~(g.at < Window * w + Window)
        <4>1. /\ Window * (w + 1) <= g.at /\ g.at < Window * (w + 1) + Window
          BY <2>1, <2>2, <2>3, <3>1, <3>3
        <4>2. Limiter!WindowOf(g.at) = w + 1
          BY <2>2, <3>1, <4>1, WindowOnly
        <4> QED
          BY <3>1, <4>2 DEF Grants, InWindow
      <3> QED
        BY <3>2, <3>3
    <2> DEFINE a == Cardinality(Grants(w))
               b == Cardinality(Grants(w + 1))
    <2>5. /\ IsFiniteSet(Grants(w)) /\ IsFiniteSet(Grants(w + 1)) /\ a \in Nat /\ b \in Nat
      BY LimitCounts
    <2>6. Cardinality(G) \in Nat /\ Cardinality(G) <= a + b
      <3>1. G \in SUBSET (Grants(w) \cup Grants(w + 1))
        BY <2>4
      <3>2. /\ IsFiniteSet(Grants(w) \cup Grants(w + 1))
            /\ Cardinality(Grants(w) \cup Grants(w + 1)) =
                 a + b - Cardinality(Grants(w) \cap Grants(w + 1))
        BY <2>5, FS_Union
      <3>3. Cardinality(Grants(w) \cap Grants(w + 1)) \in Nat
        BY <2>5, FS_Intersection, FS_CardinalityType
      <3>4. Cardinality(G) \in Nat /\ Cardinality(G) <= Cardinality(Grants(w) \cup Grants(w + 1))
        BY <3>1, <3>2, FS_Subset, FS_CardinalityType
      <3> HIDE DEF G, a, b
      <3> QED
        BY <2>5, <3>2, <3>3, <3>4
    <2>7. a <= Budget
      BY <1>2, <2>2
    <2>8. a + b < 2 * Budget
      <3>1. CASE w + 1 \notin Limiter!Windows
        <4>1. Grants(w + 1) = {}
          BY <3>1, LimitFacts DEF Grants, InWindow
        <4>2. b = 0
          BY <4>1, FS_EmptySet
        <4> HIDE DEF a, b
        <4> QED
          BY <2>5, <2>7, <4>2, LimitConstants
      <3>2. CASE w + 1 \in Limiter!Windows /\ key[w].count > 0
        <4>1. Sum(w + 1, Budget - 1) <= Budget - 1
          <5>1. (w + 1) - 1 = w
            BY <2>2
          <5> QED
            BY <1>4, <2>2, <3>2, <5>1, SumOf
        <4>2. b <= Sum(w + 1, Budget - 1) /\ Sum(w + 1, Budget - 1) \in Nat
          BY LimitCounts DEF Sum
        <4> HIDE DEF a, b
        <4> QED
          BY <2>5, <2>7, <4>1, <4>2, LimitConstants
      <3>3. CASE w + 1 \in Limiter!Windows /\ ~(key[w].count > 0)
        <4>1. a <= key[w].count
          <5>1. a <= Sum(w, Budget) /\ Sum(w, Budget) <= key[w].count /\ Sum(w, Budget) \in Nat
            BY <2>2, LimitCounts, SumOf DEF Sum
          <5>2. key[w].count \in Nat
            BY <2>2, LimitFacts
          <5> HIDE DEF a
          <5> QED
            BY <2>5, <5>1, <5>2
        <4>2. b <= Budget /\ key[w].count \in Nat
          BY <1>2, <2>2, <3>3, LimitFacts
        <4> HIDE DEF a, b
        <4> QED
          BY <2>5, <3>3, <4>1, <4>2, LimitConstants
      <3> QED
        BY <3>1, <3>2, <3>3
    <2> HIDE DEF G, a, b
    <2>9. Cardinality(G) < 2 * Budget
      BY <2>5, <2>6, <2>8, LimitConstants
    <2> QED
      BY <1>1, <2>9 DEF G
  <1> QED
    BY <1>3, <1>4 DEF Limiter!GrantsAreBounded

-----------------------------------------------------------------------------
(* The answer of a vendor: proofs.                                         *)

LEMMA VendorFrames ==
  ASSUME Stream!TypeOK
  PROVE  /\ vendor \in {"openai", "anthropic", "gemini"}
         /\ vendor = "openai" =>
              /\ Stream!Needed = 2
              /\ Stream!FramesOfCall[vendor][1] = "first" /\ Stream!FramesOfCall[vendor][2] = "more"
         /\ vendor = "anthropic" =>
              /\ Stream!Needed = 4
              /\ Stream!FramesOfCall[vendor][1] = "start" /\ Stream!FramesOfCall[vendor][2] = "delta"
              /\ Stream!FramesOfCall[vendor][3] = "delta" /\ Stream!FramesOfCall[vendor][4] = "stop"
         /\ vendor = "gemini" => Stream!Needed = 1 /\ Stream!FramesOfCall[vendor][1] = "call"
         /\ Stream!Needed \in 1..4
  <1>1. vendor \in {"openai", "anthropic", "gemini"}
    BY DEF Stream!TypeOK, Stream!FramesOfCall
  <1>2. CASE vendor = "openai"
    BY <1>2 DEF Stream!Needed, Stream!FramesOfCall
  <1>3. CASE vendor = "anthropic"
    BY <1>3 DEF Stream!Needed, Stream!FramesOfCall
  <1>4. CASE vendor = "gemini"
    BY <1>4 DEF Stream!Needed, Stream!FramesOfCall
  <1> QED
    BY <1>1, <1>2, <1>3, <1>4

LEMMA FrameKinds ==
  ASSUME Stream!TypeOK, NEW n \in 1..Stream!Needed
  PROVE  Stream!FramesOfCall[vendor][n] \in Pieces
BY VendorFrames DEF Pieces

LEMMA ArgsGrow ==
  /\ Append(<<>>, 1) = <<1>> /\ Append(<<1>>, 2) = <<1, 2>>
  /\ Len(<<>>) = 0 /\ Len(<<1>>) = 1 /\ Len(<<1, 2>>) = 2
  /\ <<>> # <<1, 2>> /\ <<1>> # <<1, 2>> /\ <<>> # <<1>>
  <1>1. Len(<<>>) = 0 /\ Len(<<1>>) = 1 /\ Len(<<1, 2>>) = 2
    OBVIOUS
  <1>2. Append(<<>>, 1) = <<1>>
    OBVIOUS
  <1>3. Append(<<1>>, 2) = <<1, 2>>
    <2>1. <<1>> \in Seq(Nat) /\ <<1, 2>> \in Seq(Nat)
      OBVIOUS
    <2> DEFINE a == Append(<<1>>, 2)
               b == <<1, 2>>
    <2>2. a \in Seq(Nat) /\ Len(a) = 2 /\ a[1] = 1 /\ a[2] = 2
      BY <2>1
    <2>3. b \in Seq(Nat) /\ Len(b) = 2 /\ b[1] = 1 /\ b[2] = 2
      BY <2>1
    <2> HIDE DEF a, b
    <2>4. \A i \in 1..Len(a) : a[i] = b[i]
      BY <2>2, <2>3
    <2>5. a = b
      BY <2>2, <2>3, <2>4, SeqEqual
    <2> QED
      BY <2>5 DEF a, b
  <1> QED
    BY <1>1, <1>2, <1>3

\* What a frame at the end adds to the wire.
LEMMA WireGrows ==
  ASSUME AnswerTypes, NEW f \in FrameRow, wire' = Append(wire, f)
  PROVE  /\ wire' \in Seq(FrameRow)
         /\ Len(wire) \in Nat /\ Len(wire') = Len(wire) + 1
         /\ DOMAIN wire = 1..Len(wire) /\ DOMAIN wire' = 1..(Len(wire) + 1)
         /\ \A i \in DOMAIN wire : wire'[i] = wire[i]
         /\ wire'[Len(wire) + 1] = f
BY DEF AnswerTypes

LEMMA PiecesGrow ==
  ASSUME AnswerTypes, NEW f \in FrameRow, wire' = Append(wire, f)
  PROVE  /\ \A i, s, n : IsPiece(i, s, n)' <=>
              \/ IsPiece(i, s, n)
              \/ i = Len(wire) + 1 /\ f.kind \in Pieces /\ f.slot = s /\ f.n = n
         /\ \A i : IsEnd(i)' <=>
              \/ IsEnd(i)
              \/ i = Len(wire) + 1 /\ f.kind \in {"finish", "end"}
         /\ \A i, s, n : IsPiece(i, s, n) => i \in Nat /\ i <= Len(wire)
         /\ \A i : IsEnd(i) => i \in Nat /\ i <= Len(wire)
BY WireGrows DEF IsPiece, IsEnd

\* The events of a frame come behind those before it.
LEMMA OutExtends ==
  ASSUME AnswerTypes, NEW es \in Seq(EventRow), out' = out \o es
  PROVE  /\ out' \in Seq(EventRow)
         /\ Len(out) \in Nat /\ Len(es) \in Nat /\ Len(out') = Len(out) + Len(es)
         /\ DOMAIN out = 1..Len(out) /\ DOMAIN es = 1..Len(es)
         /\ DOMAIN out' = 1..(Len(out) + Len(es))
         /\ \A i \in DOMAIN out : i \in DOMAIN out' /\ out'[i] = out[i]
         /\ \A k \in DOMAIN es : Len(out) + k \in DOMAIN out' /\ out'[Len(out) + k] = es[k]
         /\ \A i \in DOMAIN out' : i \in DOMAIN out \/ \E k \in DOMAIN es : i = Len(out) + k
  <1>1. out \in Seq(EventRow)
    BY DEF AnswerTypes
  <1>2. /\ out' \in Seq(EventRow)
        /\ Len(out) \in Nat /\ Len(es) \in Nat /\ Len(out') = Len(out) + Len(es)
        /\ \A i \in 1..(Len(out) + Len(es)) :
             out'[i] = IF i <= Len(out) THEN out[i] ELSE es[i - Len(out)]
    BY <1>1, ConcatProperties, LenProperties
  <1>3. /\ DOMAIN out = 1..Len(out) /\ DOMAIN es = 1..Len(es)
        /\ DOMAIN out' = 1..(Len(out) + Len(es))
    BY <1>1, <1>2, LenProperties
  <1>4. \A i \in DOMAIN out : i \in DOMAIN out' /\ out'[i] = out[i]
    BY <1>2, <1>3
  <1>5. \A k \in DOMAIN es : Len(out) + k \in DOMAIN out' /\ out'[Len(out) + k] = es[k]
    <2>1. ASSUME NEW k \in 1..Len(es)
          PROVE  Len(out) + k \in 1..(Len(out) + Len(es)) /\ ~(Len(out) + k <= Len(out))
                   /\ (Len(out) + k) - Len(out) = k
      BY <1>2
    <2> QED
      BY <1>2, <1>3, <2>1
  <1>6. \A i \in DOMAIN out' : i \in DOMAIN out \/ \E k \in DOMAIN es : i = Len(out) + k
    <2>1. ASSUME NEW i \in 1..(Len(out) + Len(es)), i \notin 1..Len(out)
          PROVE  i - Len(out) \in 1..Len(es) /\ i = Len(out) + (i - Len(out))
      BY <1>2, <2>1
    <2> QED
      BY <1>3, <2>1
  <1> QED
    BY <1>2, <1>3, <1>4, <1>5, <1>6

LEMMA CalledGrows ==
  ASSUME AnswerTypes, NEW es \in Seq(EventRow), out' = out \o es
  PROVE  \A s : Called(s)' <=> (Called(s) \/ \E k \in DOMAIN es : es[k].kind = "call" /\ es[k].slot = s)
  <1> DEFINE n == Len(out)
  <1>1. /\ \A i \in DOMAIN out : i \in DOMAIN out' /\ out'[i] = out[i]
        /\ \A k \in DOMAIN es : n + k \in DOMAIN out' /\ out'[n + k] = es[k]
        /\ \A i \in DOMAIN out' : i \in DOMAIN out \/ \E k \in DOMAIN es : i = n + k
    BY OutExtends
  <1> HIDE DEF n
  <1> TAKE s
  <1>2. Called(s)' <=> \E i \in DOMAIN out' : out'[i].kind = "call" /\ out'[i].slot = s
    BY DEF Called
  <1>3. Called(s) <=> \E i \in DOMAIN out : out[i].kind = "call" /\ out[i].slot = s
    BY DEF Called
  <1>4. ASSUME NEW i \in DOMAIN out', out'[i].kind = "call", out'[i].slot = s
        PROVE  Called(s) \/ \E k \in DOMAIN es : es[k].kind = "call" /\ es[k].slot = s
    <2>1. CASE i \in DOMAIN out
      BY <1>1, <1>3, <1>4, <2>1
    <2>2. CASE \E k \in DOMAIN es : i = n + k
      BY <1>1, <1>4, <2>2
    <2> QED
      BY <1>1, <2>1, <2>2
  <1>5. ASSUME Called(s) PROVE Called(s)'
    BY <1>1, <1>2, <1>3, <1>5
  <1>6. ASSUME NEW k \in DOMAIN es, es[k].kind = "call", es[k].slot = s PROVE Called(s)'
    <2>1. n + k \in DOMAIN out' /\ out'[n + k] = es[k]
      BY <1>1
    <2> QED
      BY <1>2, <1>6, <2>1
  <1> QED
    BY <1>2, <1>4, <1>5, <1>6

\* Calls leave once and whole, and before an end that is told for them, if each frame adds only
\* calls that have not left, and nothing but an end behind an end.
LEMMA OutGrows ==
  ASSUME AnswerInv, NEW es \in Seq(EventRow), out' = out \o es, UNCHANGED <<vendor, progress>>,
         \/ \A k \in DOMAIN es : es[k].kind \in {"done", "error"}
         \/ \A i \in DOMAIN out : out[i].kind # "done",
         \A k \in DOMAIN es : es[k].kind = "call" =>
           /\ ~Called(es[k].slot)
           /\ \/ Stream!Parses(es[k].args)
              \/ es[k].args = <<>> /\ progress[es[k].slot] < Stream!Needed
           /\ \A l \in DOMAIN es : es[l].kind = "call" /\ es[l].slot = es[k].slot => l = k,
         \A k \in DOMAIN es : es[k].kind = "done" =>
           /\ k = Len(es)
           /\ es[k].reason = "tool_use" => \A s \in Stream!Begun : Called(s)
  PROVE  /\ Stream!CallsArriveWhole'
         /\ \A s : Called(s)' <=> (Called(s) \/ \E k \in DOMAIN es : es[k].kind = "call" /\ es[k].slot = s)
  <1> DEFINE n == Len(out)
  <1>1. /\ n \in Nat /\ Len(es) \in Nat
        /\ DOMAIN out = 1..n /\ DOMAIN es = 1..Len(es)
        /\ Len(out') = n + Len(es)
        /\ DOMAIN out' = 1..(n + Len(es))
        /\ \A i \in DOMAIN out : i \in DOMAIN out' /\ out'[i] = out[i]
        /\ \A k \in DOMAIN es : n + k \in DOMAIN out' /\ out'[n + k] = es[k]
        /\ \A i \in DOMAIN out' : i \in DOMAIN out \/ \E k \in DOMAIN es : i = n + k
    BY OutExtends DEF AnswerInv
  <1> HIDE DEF n
  <1>2. /\ Stream!Needed' = Stream!Needed /\ Stream!Begun' = Stream!Begun
    BY DEF Stream!Needed, Stream!Begun
  <1>3. /\ \A i, j \in DOMAIN out : out[i].kind = "call" /\ out[j].kind = "call"
                                      /\ out[i].slot = out[j].slot => i = j
        /\ \A i \in DOMAIN out : out[i].kind = "call" =>
             \/ Stream!Parses(out[i].args)
             \/ out[i].args = <<>> /\ progress[out[i].slot] < Stream!Needed
        /\ \A i \in DOMAIN out : out[i].kind = "done" =>
             /\ \A j \in (i + 1)..n : out[j].kind \in {"done", "error"}
             /\ out[i].reason = "tool_use" =>
                  \A s \in Stream!Begun : \E j \in DOMAIN out :
                    out[j].kind = "call" /\ j < i /\ out[j].slot = s
    BY DEF AnswerInv, Stream!CallsArriveWhole, Stream!CallsIn, n
  <1>4. \A s : Called(s)' <=> (Called(s) \/ \E k \in DOMAIN es : es[k].kind = "call" /\ es[k].slot = s)
    BY CalledGrows DEF AnswerInv
  <1>5. ASSUME NEW i \in DOMAIN out', NEW j \in DOMAIN out',
               out'[i].kind = "call", out'[j].kind = "call", out'[i].slot = out'[j].slot
        PROVE  i = j
    <2>1. CASE i \in DOMAIN out /\ j \in DOMAIN out
      BY <1>1, <1>3, <1>5, <2>1
    <2>2. ASSUME i \in DOMAIN out, j \notin DOMAIN out PROVE FALSE
      BY <1>1, <1>5, <2>2 DEF Called
    <2>3. ASSUME i \notin DOMAIN out, j \in DOMAIN out PROVE FALSE
      BY <1>1, <1>5, <2>3 DEF Called
    <2>4. CASE i \notin DOMAIN out /\ j \notin DOMAIN out
      BY <1>1, <1>5, <2>4
    <2> QED
      BY <2>1, <2>2, <2>3, <2>4
  <1>6. ASSUME NEW i \in DOMAIN out', out'[i].kind = "call"
        PROVE  \/ Stream!Parses(out'[i].args)
               \/ out'[i].args = <<>> /\ progress[out'[i].slot] < Stream!Needed
    BY <1>1, <1>3, <1>6
  <1>7. ASSUME NEW i \in DOMAIN out', out'[i].kind = "done"
        PROVE  /\ \A j \in (i + 1)..Len(out') : out'[j].kind \in {"done", "error"}
               /\ out'[i].reason = "tool_use" =>
                    \A s \in Stream!Begun : \E j \in DOMAIN out' :
                      out'[j].kind = "call" /\ j < i /\ out'[j].slot = s
    <2>1. CASE i \in DOMAIN out
      <3>1. out[i].kind = "done" /\ out'[i] = out[i]
        BY <1>1, <1>7, <2>1
      <3>2. ASSUME NEW j \in (i + 1)..Len(out')
            PROVE  out'[j].kind \in {"done", "error"}
        <4>1. j \in DOMAIN out' /\ i \in 1..n
          BY <1>1, <2>1
        <4>2. CASE j \in DOMAIN out
          <5>1. j \in (i + 1)..n
            BY <1>1, <4>1, <4>2
          <5> QED
            BY <1>1, <1>3, <2>1, <3>1, <4>2, <5>1
        <4>3. CASE j \notin DOMAIN out
          BY <1>1, <2>1, <3>1, <4>1, <4>3
        <4> QED
          BY <4>2, <4>3
      <3> QED
        BY <1>1, <1>3, <2>1, <3>1, <3>2
    <2>2. CASE i \notin DOMAIN out
      <3>1. PICK k \in DOMAIN es : i = n + k /\ out'[i] = es[k]
        BY <1>1, <2>2
      <3>2. k = Len(es) /\ (out'[i].reason = "tool_use" => \A s \in Stream!Begun : Called(s))
        BY <1>7, <3>1
      <3>3. i = Len(out')
        BY <1>1, <3>1, <3>2
      <3>4. \A j \in DOMAIN out : j < i
        BY <1>1, <3>1
      <3>5. (i + 1)..Len(out') = {}
        BY <1>1, <3>3
      <3> QED
        BY <1>1, <3>2, <3>4, <3>5 DEF Called
    <2> QED
      BY <2>1, <2>2
  <1>8. Stream!CallsArriveWhole'
    <2> DEFINE calls == {i \in DOMAIN out' : out'[i].kind = "call"}
    <2>1. Stream!CallsIn' = calls
      BY DEF Stream!CallsIn
    <2>2. \A i, j \in calls : out'[i].slot = out'[j].slot => i = j
      BY <1>5
    <2>3. \A i \in calls :
            Stream!Parses(out'[i].args) \/ (out'[i].args = <<>> /\ progress[out'[i].slot] < Stream!Needed)
      BY <1>6
    <2>4. \A i \in DOMAIN out' : out'[i].kind = "done" =>
            /\ \A j \in (i + 1)..Len(out') : out'[j].kind \in {"done", "error"}
            /\ out'[i].reason = "tool_use" =>
                 \A s \in Stream!Begun : \E j \in calls : j < i /\ out'[j].slot = s
      <3> TAKE i \in DOMAIN out'
      <3> HAVE out'[i].kind = "done"
      <3>1. \A j \in (i + 1)..Len(out') : out'[j].kind \in {"done", "error"}
        BY <1>7
      <3>2. ASSUME out'[i].reason = "tool_use", NEW s \in Stream!Begun
            PROVE  \E j \in calls : j < i /\ out'[j].slot = s
        <4>1. PICK j \in DOMAIN out' : out'[j].kind = "call" /\ j < i /\ out'[j].slot = s
          BY <1>7, <3>2
        <4>2. j \in calls
          BY <4>1
        <4> QED
          BY <4>1, <4>2
      <3> QED
        BY <3>1, <3>2
    <2> HIDE DEF calls
    <2> QED
      BY <1>2, <2>1, <2>2, <2>3, <2>4 DEF Stream!CallsArriveWhole, Stream!Parses
  <1> QED
    BY <1>4, <1>8

LEMMA StreamCardinality == \A S : Stream!Cardinality(S) = Cardinality(S)
BY DEF Stream!Cardinality, Cardinality

LEMMA StreamFinite == \A S : Stream!IsFiniteSet(S) <=> IsFiniteSet(S)
BY DEF Stream!IsFiniteSet, IsFiniteSet

LEMMA StreamConstants ==
  /\ IsFiniteSet(Slots) /\ Slots \subseteq Nat \ {0} /\ 1 \in Slots
  /\ MaxTexts \in Nat
  <1>1. /\ IsFiniteSet(Slots) /\ Slots # {} /\ Slots = 1..Cardinality(Slots)
        /\ MaxTexts \in Nat
    BY SurroundingsAssumption, StreamFinite, StreamCardinality DEF Stream!StreamsAssumption
  <1> DEFINE n == Cardinality(Slots)
  <1>2. n \in Nat
    BY <1>1, FS_CardinalityType
  <1> HIDE DEF n
  <1>3. Slots = 1..n
    BY <1>1 DEF n
  <1> QED
    BY <1>1, <1>2, <1>3

\* The slot of a set that has as many below it as the place says.
Below(S, s) == {q \in S : q < s}
At(S, i) == CHOOSE s \in S : Cardinality(Below(S, s)) = i - 1

\* Every slot of a set has one place among its slots, and every place one slot.
LEMMA Ranked ==
  ASSUME NEW S \in SUBSET Slots
  PROVE  /\ Cardinality(S) \in Nat
         /\ \A i \in 1..Cardinality(S) : At(S, i) \in S /\ Cardinality(Below(S, At(S, i))) = i - 1
         /\ \A i, j \in 1..Cardinality(S) : At(S, i) = At(S, j) => i = j
         /\ \A s \in S : \E i \in 1..Cardinality(S) : At(S, i) = s
  <1> DEFINE n == Cardinality(S)
             rank == [s \in S |-> Cardinality(Below(S, s)) + 1]
  <1>1. IsFiniteSet(S) /\ n \in Nat
    BY StreamConstants, FS_Subset, FS_CardinalityType
  <1>2. S \subseteq Nat
    BY StreamConstants
  <1>3. \A s \in S : IsFiniteSet(Below(S, s)) /\ Cardinality(Below(S, s)) \in Nat
    <2> TAKE s \in S
    <2>1. Below(S, s) \in SUBSET S
      BY DEF Below
    <2> QED
      BY <1>1, <2>1, FS_Subset, FS_CardinalityType
  <1>4. ASSUME NEW s \in S, NEW T \in SUBSET S, Below(S, s) \subseteq T, s \in T
        PROVE  Cardinality(Below(S, s)) + 1 <= Cardinality(T)
    <2>1. s \notin Below(S, s)
      BY <1>2 DEF Below
    <2>2. Cardinality(Below(S, s) \cup {s}) = Cardinality(Below(S, s)) + 1
      BY <1>3, <2>1, FS_AddElement
    <2>3. Below(S, s) \cup {s} \in SUBSET T /\ IsFiniteSet(T)
      BY <1>1, <1>4, FS_Subset
    <2> QED
      BY <2>2, <2>3, FS_Subset
  <1>5. \A s \in S : Cardinality(Below(S, s)) + 1 <= n
    <2> TAKE s \in S
    <2>1. Below(S, s) \subseteq S /\ S \in SUBSET S
      BY DEF Below
    <2> QED
      BY <1>4, <2>1
  <1>6. rank \in [S -> 1..n]
    BY <1>1, <1>3, <1>5
  <1>7. ASSUME NEW s \in S, NEW t \in S, s < t
        PROVE  rank[s] < rank[t]
    <2>1. Below(S, s) \subseteq Below(S, t) /\ s \in Below(S, t) /\ Below(S, t) \in SUBSET S
      <3>1. \A q \in S : q < s => q < t
        BY <1>2, <1>7
      <3> QED
        BY <1>7, <3>1, Zenon DEF Below
    <2>2. Cardinality(Below(S, s)) + 1 <= Cardinality(Below(S, t))
      BY <1>4, <2>1
    <2> QED
      BY <1>3, <2>2
  <1>8. \A s, t \in S : rank[s] = rank[t] => s = t
    <2> SUFFICES ASSUME NEW s \in S, NEW t \in S, rank[s] = rank[t], s # t
                 PROVE  FALSE
      OBVIOUS
    <2>1. s < t \/ t < s
      BY <1>2
    <2>2. rank[s] \in Nat /\ rank[t] \in Nat
      BY <1>6
    <2> HIDE DEF rank
    <2> QED
      BY <1>7, <2>1, <2>2
  <1>9. \A i \in 1..n : \E s \in S : rank[s] = i
    <2>1. IsFiniteSet(1..n) /\ Cardinality(1..n) = n
      BY <1>1, FS_Interval
    <2> HIDE DEF rank
    <2>2. rank \in Injection(S, 1..n)
      BY <1>6, <1>8, Fun_IsInj
    <2>3. rank \in Surjection(S, 1..n)
      BY <2>1, <2>2, FS_Injection DEF n
    <2> QED
      BY <2>3, Fun_SurjectionProperties
  <1>10. \A i \in 1..n : At(S, i) \in S /\ Cardinality(Below(S, At(S, i))) = i - 1
    <2> TAKE i \in 1..n
    <2>1. PICK s \in S : rank[s] = i
      BY <1>9
    <2>2. Cardinality(Below(S, s)) = i - 1
      BY <1>3, <2>1
    <2> QED
      BY <2>2 DEF At
  <1>11. \A i, j \in 1..n : At(S, i) = At(S, j) => i = j
    <2> SUFFICES ASSUME NEW i \in 1..n, NEW j \in 1..n, At(S, i) = At(S, j)
                 PROVE  i = j
      OBVIOUS
    <2>1. i - 1 = j - 1
      BY <1>10
    <2> QED
      BY <1>1, <2>1
  <1>12. \A s \in S : \E i \in 1..n : At(S, i) = s
    <2> TAKE s \in S
    <2>1. rank[s] \in 1..n /\ rank[s] = Cardinality(Below(S, s)) + 1
      BY <1>6
    <2>2. At(S, rank[s]) \in S /\ Cardinality(Below(S, At(S, rank[s]))) = rank[s] - 1
      BY <1>10, <2>1
    <2>3. rank[At(S, rank[s])] = rank[s]
      BY <1>1, <1>3, <2>1, <2>2
    <2>4. At(S, rank[s]) = s
      BY <1>8, <2>2, <2>3
    <2> QED
      BY <2>1, <2>4
  <1> QED
    BY <1>1, <1>10, <1>11, <1>12

LEMMA HadTyped ==
  ASSUME AnswerTypes
  PROVE  \A s \in Slots :
           /\ Had(s) \in Nat /\ Len(acc[s].args) \in Nat
           /\ Called(s) => Had(s) = Stream!Needed
  <1> TAKE s \in Slots
  <1>1. acc[s].args \in {<<>>, <<1>>, <<1, 2>>}
    BY DEF AnswerTypes, AccRow
  <1>2. Len(acc[s].args) \in Nat
    BY <1>1, ArgsGrow
  <1>3. Stream!Needed \in Nat
    BY VendorFrames DEF AnswerTypes
  <1> QED
    BY <1>2, <1>3 DEF Had

LEMMA FramesAreTyped ==
  ASSUME NEW w \in Seq(FrameRow)
  PROVE  \A i \in DOMAIN w : w[i] \in FrameRow /\ w[i].slot \in Slots /\ w[i].n \in Nat
  <1>1. \A i \in DOMAIN w : w[i] \in FrameRow
    OBVIOUS
  <1> QED
    BY <1>1 DEF FrameRow

LEMMA EventsAreTyped ==
  ASSUME NEW o \in Seq(EventRow)
  PROVE  \A i \in DOMAIN o : o[i] \in EventRow /\ o[i].kind \in {"text", "call", "done", "error"}
  <1>1. \A i \in DOMAIN o : o[i] \in EventRow
    OBVIOUS
  <1> QED
    BY <1>1 DEF EventRow

\* What the reader has had changes only as it reads.
LEMMA NothingRead ==
  ASSUME UNCHANGED <<vendor, acc, out>>
  PROVE  /\ \A s : (Called(s)' <=> Called(s)) /\ Had(s)' = Had(s)
         /\ Stream!Needed' = Stream!Needed
         /\ Stream!CallsIn' = Stream!CallsIn
         /\ \A n : Stream!FramesOfCall[vendor'][n] = Stream!FramesOfCall[vendor][n]
BY DEF Called, Had, Stream!Needed, Stream!CallsIn


LEMMA SendTextStep ==
  ASSUME AnswerInv, Stream!SendText
  PROVE  AnswerInv'
  <1> DEFINE f == Stream!Frame("text", 1, texts')
  <1>1. /\ AnswerTypes /\ Stream!TypeOK
        /\ ending = "none" /\ texts \in Nat /\ texts < MaxTexts /\ texts' = texts + 1
        /\ wire' = Append(wire, f)
        /\ UNCHANGED <<vendor, progress, ending, half, acc, finish, out>>
    BY StreamConstants DEF AnswerInv, AnswerTypes, Stream!SendText, Stream!TypeOK
  <1>2. f \in FrameRow /\ f.kind = "text"
    BY <1>1, StreamConstants DEF FrameRow, Stream!Frame
  <1> HIDE DEF f
  <1>3. /\ wire' \in Seq(FrameRow)
        /\ \A i, s, n : IsPiece(i, s, n)' <=> IsPiece(i, s, n)
        /\ \A i : IsEnd(i)' <=> IsEnd(i)
        /\ \A i, s, n : IsPiece(i, s, n) => wire'[i] = wire[i]
        /\ \A i : ~IsEnd(i)
    <2>1. f.kind \notin Pieces \cup {"finish", "end"}
      BY <1>2 DEF Pieces
    <2>2. \A i : ~IsEnd(i)
      <3> TAKE i
      <3>1. CASE i \in Nat
        BY <1>1, <3>1 DEF AnswerInv, EndInv
      <3>2. CASE i \notin Nat
        BY <1>1, <3>2 DEF IsEnd, AnswerTypes
      <3> QED
        BY <3>1, <3>2
    <2> QED
      BY <1>1, <1>2, <2>1, <2>2, WireGrows, PiecesGrow DEF IsPiece
  <1>4. AnswerTypes'
    <2>1. /\ \A i \in DOMAIN wire' : wire'[i].slot \in Slots
          /\ texts' \in 0..MaxTexts
      BY <1>1, <1>3, StreamConstants, FramesAreTyped
    <2>2. Stream!TypeOK'
      BY <1>1, <2>1 DEF Stream!TypeOK
    <2> QED
      BY <1>1, <1>3, <2>2, NothingRead DEF AnswerTypes
  <1>5. ASSUME NEW i \in Nat, NEW n \in Nat, NEW s \in Slots
        PROVE  PieceInv(i, s, n)'
    <2>1. PieceInv(i, s, n)
      BY DEF AnswerInv
    <2> QED
      BY <1>1, <1>3, <2>1, NothingRead DEF PieceInv
  <1>6. ASSUME NEW s \in Slots
        PROVE  SlotInv(s)'
    <2>1. SlotInv(s)
      BY DEF AnswerInv
    <2> QED
      BY <1>1, <1>3, <2>1, NothingRead DEF SlotInv, Stream!NoAcc
  <1>7. ASSUME NEW i \in Nat
        PROVE  EndInv(i)'
    BY <1>3 DEF EndInv
  <1>8. DoneInv'
    BY <1>1, NothingRead DEF AnswerInv, DoneInv, Stream!Parses, Stream!Begun
  <1>9. Stream!CallsArriveWhole'
    BY <1>1, NothingRead DEF AnswerInv, Stream!CallsArriveWhole, Stream!Parses, Stream!Begun
  <1> QED
    BY <1>4, <1>5, <1>6, <1>7, <1>8, <1>9 DEF AnswerInv

\* A piece goes behind those of its call that are on their way.
LEMMA SendCallStep ==
  ASSUME AnswerInv, NEW c \in Slots, Stream!SendCall(c)
  PROVE  AnswerInv'
  <1> DEFINE p == progress[c] + 1
             f == Stream!Frame(Stream!FramesOfCall[vendor][p], c, p)
             last == Len(wire) + 1
  <1>1. /\ AnswerTypes /\ Stream!TypeOK
        /\ ending = "none" /\ progress[c] < Stream!Needed
        /\ progress' = [progress EXCEPT ![c] = progress[c] + 1]
        /\ wire' = Append(wire, Stream!Frame(Stream!FramesOfCall[vendor][progress'[c]], c, progress'[c]))
        /\ UNCHANGED <<vendor, texts, ending, half, acc, finish, out>>
    BY DEF AnswerInv, AnswerTypes, Stream!SendCall
  <1>2. /\ progress \in [Slots -> Nat] /\ \A s \in Slots : progress[s] <= Stream!Needed
        /\ Stream!Needed \in 1..4
    BY <1>1, VendorFrames DEF AnswerTypes
  <1>3. /\ p \in Nat /\ p \in 1..Stream!Needed /\ p = progress[c] + 1
        /\ progress' \in [Slots -> Nat] /\ progress'[c] = p
        /\ \A s \in Slots : s # c => progress'[s] = progress[s]
    BY <1>1, <1>2
  <1>4. /\ f \in FrameRow /\ f.kind = Stream!FramesOfCall[vendor][p] /\ f.kind \in Pieces
        /\ f.slot = c /\ f.n = p
        /\ wire' = Append(wire, f)
    <2>1. Stream!FramesOfCall[vendor][p] \in Pieces
      BY <1>1, <1>3, FrameKinds
    <2>2. Stream!FramesOfCall[vendor][p] # "finish"
      BY <2>1 DEF Pieces
    <2> QED
      BY <1>1, <1>3, <2>1, <2>2 DEF Stream!Frame, FrameRow
  <1> HIDE DEF p, f
  <1>5. /\ wire' \in Seq(FrameRow) /\ Len(wire) \in Nat /\ last \in Nat
        /\ \A i, s, n : IsPiece(i, s, n)' <=> (IsPiece(i, s, n) \/ (i = last /\ s = c /\ n = p))
        /\ \A i : IsEnd(i)' <=> IsEnd(i)
        /\ \A i, s, n : IsPiece(i, s, n) => wire'[i] = wire[i] /\ i < last /\ i \in Nat
        /\ wire'[last] = f
        /\ \A i : ~IsEnd(i)
    <2>1. f.kind \notin {"finish", "end"}
      BY <1>4 DEF Pieces
    <2>2. \A i : ~IsEnd(i)
      <3> TAKE i
      <3>1. CASE i \in Nat
        BY <1>1, <3>1 DEF AnswerInv, EndInv
      <3>2. CASE i \notin Nat
        BY <1>1, <3>2 DEF IsEnd, AnswerTypes
      <3> QED
        BY <3>1, <3>2
    <2>3. /\ wire' \in Seq(FrameRow) /\ Len(wire) \in Nat
          /\ \A i \in DOMAIN wire : wire'[i] = wire[i]
          /\ wire'[Len(wire) + 1] = f
      BY <1>1, <1>4, WireGrows
    <2>4. /\ \A i, s, n : IsPiece(i, s, n)' <=>
               \/ IsPiece(i, s, n)
               \/ i = Len(wire) + 1 /\ f.kind \in Pieces /\ f.slot = s /\ f.n = n
          /\ \A i : IsEnd(i)' <=>
               \/ IsEnd(i)
               \/ i = Len(wire) + 1 /\ f.kind \in {"finish", "end"}
          /\ \A i, s, n : IsPiece(i, s, n) => i \in Nat /\ i <= Len(wire)
      BY <1>1, <1>4, PiecesGrow
    <2>5. \A i, s, n : IsPiece(i, s, n) => wire'[i] = wire[i]
      BY <2>3 DEF IsPiece
    <2>6. \A i, s, n : IsPiece(i, s, n)' <=> (IsPiece(i, s, n) \/ (i = last /\ s = c /\ n = p))
      BY <1>4, <2>4
    <2>7. \A i, s, n : IsPiece(i, s, n) => i < last /\ i \in Nat
      BY <2>3, <2>4
    <2>8. last \in Nat
      BY <2>3
    <2> QED
      BY <2>1, <2>2, <2>3, <2>4, <2>5, <2>6, <2>7, <2>8
  <1> HIDE DEF last
  <1>6. /\ \A s : (Called(s)' <=> Called(s)) /\ Had(s)' = Had(s)
        /\ Stream!Needed' = Stream!Needed
        /\ Stream!CallsIn' = Stream!CallsIn
        /\ Stream!FramesOfCall[vendor'] = Stream!FramesOfCall[vendor]
    BY <1>1, NothingRead
  <1>7. ~Called(c) /\ Had(c) < p /\ Had(c) <= progress[c]
        /\ (Had(c) = progress[c] \/ \E i \in Nat : IsPiece(i, c, progress[c]))
    <2>1. SlotInv(c) /\ Had(c) <= progress[c]
          /\ (Had(c) = progress[c] \/ \E i \in Nat : IsPiece(i, c, progress[c]))
      BY <1>1 DEF AnswerInv, SlotInv
    <2>2. Had(c) \in Nat /\ (Called(c) => Had(c) = Stream!Needed)
      BY <1>1, HadTyped
    <2> QED
      BY <1>1, <1>2, <1>3, <2>1, <2>2
  <1>8. AnswerTypes'
    <2>1. \A i \in DOMAIN wire' : wire'[i].slot \in Slots
      BY <1>5, FramesAreTyped
    <2>2. progress' \in [Slots -> 0..4] /\ \A s \in Slots : progress'[s] <= Stream!Needed
      BY <1>2, <1>3
    <2>3. Stream!TypeOK'
      BY <1>1, <2>1, <2>2 DEF Stream!TypeOK
    <2> QED
      BY <1>1, <1>3, <1>5, <1>6, <2>2, <2>3 DEF AnswerTypes
  <1>9. ASSUME NEW i \in Nat, NEW n \in Nat, NEW s \in Slots
        PROVE  PieceInv(i, s, n)'
    <2> SUFFICES ASSUME IsPiece(i, s, n)'
                 PROVE  PieceInv(i, s, n)'
      BY DEF PieceInv
    <2>1. CASE IsPiece(i, s, n)
      <3>1. PieceInv(i, s, n) /\ IsPiece(i, s, n)
        BY <2>1 DEF AnswerInv
      <3>2. /\ n \in 1..Stream!Needed /\ wire[i].kind = Stream!FramesOfCall[vendor][n]
            /\ progress[s] > 0 /\ n <= progress[s]
            /\ ~Called(s) /\ Had(s) < n
            /\ \A j, m \in Nat : IsPiece(j, s, m) /\ i < j => n < m
            /\ Had(s) = n - 1 \/ \E j \in Nat : j < i /\ IsPiece(j, s, n - 1)
        BY <1>1, <3>1 DEF PieceInv
      <3>3. wire'[i] = wire[i] /\ i < last
        BY <1>5, <3>1
      <3>4. progress'[s] > 0 /\ n <= progress'[s] /\ (s = c => n < p)
        BY <1>2, <1>3, <3>2
      <3>5. \A j, m \in Nat : IsPiece(j, s, m)' /\ i < j => n < m
        BY <1>5, <3>2, <3>4
      <3>6. Had(s) = n - 1 \/ \E j \in Nat : j < i /\ IsPiece(j, s, n - 1)'
        BY <1>5, <3>2
      <3> QED
        BY <1>6, <3>2, <3>3, <3>4, <3>5, <3>6 DEF PieceInv
    <2>2. CASE i = last /\ s = c /\ n = p
      <3>1. wire'[i].kind = Stream!FramesOfCall[vendor][n]
        BY <1>4, <1>5, <2>2
      <3>2. progress'[s] > 0 /\ n <= progress'[s] /\ n \in 1..Stream!Needed
        BY <1>2, <1>3, <2>2
      <3>3. \A j, m \in Nat : ~(IsPiece(j, s, m)' /\ i < j)
        BY <1>5, <2>2
      <3>4. Had(s) = n - 1 \/ \E j \in Nat : j < i /\ IsPiece(j, s, n - 1)'
        <4>1. n - 1 = progress[c]
          BY <1>2, <1>3, <2>2
        <4> QED
          BY <1>5, <1>7, <2>2, <4>1
      <3> QED
        BY <1>6, <1>7, <2>2, <3>1, <3>2, <3>3, <3>4 DEF PieceInv
    <2> QED
      BY <1>5, <2>1, <2>2
  <1>10. ASSUME NEW s \in Slots
         PROVE  SlotInv(s)'
    <2>1. SlotInv(s)
      BY DEF AnswerInv
    <2>2. Had(s) <= progress'[s] /\ (Had(s) = progress'[s] \/ \E i \in Nat : IsPiece(i, s, progress[s])')
      <3>1. CASE s = c
        <4>1. Had(c) \in Nat
          BY <1>1, HadTyped
        <4>2. Had(c) <= p
          <5>1. \A h, n \in Nat : h < n => h <= n
            OBVIOUS
          <5>2. p \in Nat /\ Had(c) < p
            BY <1>3, <1>7
          <5> QED
            BY <4>1, <5>1, <5>2
        <4>3. \A i, n : i = last /\ n = p => IsPiece(i, c, n)'
          BY <1>5
        <4>4. \A i : i = last => IsPiece(i, c, progress[c])'
          BY <1>3, <4>3
        <4> QED
          BY <1>3, <1>5, <3>1, <4>2, <4>4
      <3>2. CASE s # c
        <4>1. progress'[s] = progress[s]
          BY <1>3, <3>2
        <4>2. Had(s) <= progress[s] /\ (Had(s) = progress[s] \/ \E i \in Nat : IsPiece(i, s, progress[s]))
          BY <1>1, <2>1 DEF SlotInv
        <4>3. \A i \in Nat : IsPiece(i, s, progress[s]) => IsPiece(i, s, progress[s])'
          BY <1>5, <4>1
        <4> QED
          BY <4>1, <4>2, <4>3
      <3> QED
        BY <3>1, <3>2
    <2>3. Had(s) > 0 => progress'[s] > 0
      BY <1>2, <1>3, <2>1 DEF SlotInv
    <2>4. /\ ending' = "none" => Had(s)' <= progress'[s]
          /\ ending' = "none" => Had(s)' = progress'[s] \/ \E i \in Nat : IsPiece(i, s, progress[s])'
          /\ Had(s)' > 0 => progress'[s] > 0
      BY <1>6, <2>2, <2>3
    <2> QED
      BY <1>1, <1>6, <2>1, <2>4 DEF SlotInv, Stream!NoAcc
  <1>11. ASSUME NEW i \in Nat
         PROVE  EndInv(i)'
    BY <1>5 DEF EndInv
  <1>12. finish # "tool_use" /\ \A i \in DOMAIN out : out[i].kind # "done"
    BY <1>1 DEF AnswerInv, DoneInv
  <1>13. \A i \in Stream!CallsIn : out[i].slot \in Slots /\ Stream!Parses(out[i].args)
    BY <1>1 DEF AnswerInv, DoneInv
  <1>14. DoneInv'
    BY <1>1, <1>6, <1>12, <1>13 DEF DoneInv, Stream!Parses
  <1>15. Stream!CallsArriveWhole'
    BY <1>1, <1>6, <1>12, <1>13 DEF AnswerInv, Stream!CallsArriveWhole, Stream!Parses
  <1> QED
    BY <1>8, <1>10, <1>11, <1>14, <1>15, <1>9 DEF AnswerInv

LEMMA WireExtends ==
  ASSUME AnswerTypes, NEW es \in Seq(FrameRow), wire' = wire \o es
  PROVE  /\ wire' \in Seq(FrameRow)
         /\ Len(wire) \in Nat /\ Len(es) \in Nat /\ Len(wire') = Len(wire) + Len(es)
         /\ DOMAIN es = 1..Len(es)
         /\ \A i, s, n : IsPiece(i, s, n) => i \in Nat /\ i <= Len(wire) /\ wire'[i] = wire[i]
         /\ \A i, s, n : IsPiece(i, s, n) => IsPiece(i, s, n)'
         /\ \A i, s, n : IsPiece(i, s, n)' =>
              \/ IsPiece(i, s, n)
              \/ \E k \in DOMAIN es :
                   /\ i = Len(wire) + k /\ wire'[i] = es[k]
                   /\ es[k].kind \in Pieces /\ es[k].slot = s /\ es[k].n = n
         /\ \A i : IsEnd(i) => i \in Nat /\ i <= Len(wire) /\ wire'[i] = wire[i]
         /\ \A i : IsEnd(i)' =>
              \/ IsEnd(i)
              \/ \E k \in DOMAIN es :
                   i = Len(wire) + k /\ wire'[i] = es[k] /\ es[k].kind \in {"finish", "end"}
  <1>1. wire \in Seq(FrameRow)
    BY DEF AnswerTypes
  <1>2. /\ wire' \in Seq(FrameRow)
        /\ Len(wire) \in Nat /\ Len(es) \in Nat /\ Len(wire') = Len(wire) + Len(es)
        /\ \A i \in 1..(Len(wire) + Len(es)) :
             wire'[i] = IF i <= Len(wire) THEN wire[i] ELSE es[i - Len(wire)]
    BY <1>1, ConcatProperties, LenProperties
  <1>3. /\ DOMAIN wire = 1..Len(wire) /\ DOMAIN es = 1..Len(es)
        /\ DOMAIN wire' = 1..(Len(wire) + Len(es))
    BY <1>1, <1>2, LenProperties
  <1>4. \A i \in DOMAIN wire : i \in Nat /\ i <= Len(wire) /\ i \in DOMAIN wire' /\ wire'[i] = wire[i]
    BY <1>2, <1>3
  <1>5. \A i \in DOMAIN wire' :
          i \in DOMAIN wire \/ \E k \in DOMAIN es : i = Len(wire) + k /\ wire'[i] = es[k]
    <2>1. ASSUME NEW i \in 1..(Len(wire) + Len(es)), i \notin 1..Len(wire)
          PROVE  /\ i - Len(wire) \in 1..Len(es) /\ i = Len(wire) + (i - Len(wire))
                 /\ ~(i <= Len(wire))
      BY <1>2, <2>1
    <2> QED
      BY <1>2, <1>3, <2>1
  <1>6. \A i, s, n : IsPiece(i, s, n) => IsPiece(i, s, n)'
    BY <1>4 DEF IsPiece
  <1>7. ASSUME NEW i, NEW s, NEW n, IsPiece(i, s, n)', ~IsPiece(i, s, n)
        PROVE  \E k \in DOMAIN es :
                 /\ i = Len(wire) + k /\ wire'[i] = es[k]
                 /\ es[k].kind \in Pieces /\ es[k].slot = s /\ es[k].n = n
    BY <1>4, <1>5, <1>7 DEF IsPiece
  <1>8. ASSUME NEW i, IsEnd(i)', ~IsEnd(i)
        PROVE  \E k \in DOMAIN es :
                 i = Len(wire) + k /\ wire'[i] = es[k] /\ es[k].kind \in {"finish", "end"}
    BY <1>4, <1>5, <1>8 DEF IsEnd
  <1>9. /\ \A i, s, n : IsPiece(i, s, n) => i \in Nat /\ i <= Len(wire) /\ wire'[i] = wire[i]
        /\ \A i : IsEnd(i) => i \in Nat /\ i <= Len(wire) /\ wire'[i] = wire[i]
    BY <1>4 DEF IsPiece, IsEnd
  <1>10. \A i, s, n : IsPiece(i, s, n)' =>
           \/ IsPiece(i, s, n)
           \/ \E k \in DOMAIN es :
                /\ i = Len(wire) + k /\ wire'[i] = es[k]
                /\ es[k].kind \in Pieces /\ es[k].slot = s /\ es[k].n = n
    BY <1>7
  <1>11. \A i : IsEnd(i)' =>
           \/ IsEnd(i)
           \/ \E k \in DOMAIN es :
                i = Len(wire) + k /\ wire'[i] = es[k] /\ es[k].kind \in {"finish", "end"}
    BY <1>8
  <1> QED
    BY <1>2, <1>3, <1>6, <1>9, <1>10, <1>11

\* The frames by which an answer is finished: the open blocks' stops, and the reason.
LEMMA FinishFrames ==
  ASSUME AnswerTypes, Stream!SendFinish
  PROVE  \E es \in Seq(FrameRow) :
           /\ wire' = wire \o es
           /\ Len(es) > 0 /\ es[Len(es)].kind = "finish" /\ es[Len(es)].reason = ending'
           /\ \A k \in DOMAIN es : k # Len(es) =>
                /\ vendor = "anthropic" /\ es[k].kind = "stop"
                /\ es[k].slot \in Stream!Open /\ es[k].n = Stream!Needed
                /\ \A l \in DOMAIN es : l # Len(es) /\ es[l].slot = es[k].slot => l = k
  <1> DEFINE cut == IF vendor = "anthropic" THEN Stream!Open ELSE {}
             n == Cardinality(cut)
             stops == [i \in 1..n |-> Stream!Frame("stop", At(cut, i), Stream!Needed)]
             fin == Stream!Finish(ending')
             es == stops \o <<fin>>
  <1>1. wire' = (wire \o stops) \o <<fin>>
    BY DEF Stream!SendFinish, Stream!Cardinality, Cardinality, At, Below
  <1>2. /\ cut \in SUBSET Slots /\ cut \subseteq Stream!Open
        /\ cut # {} => vendor = "anthropic"
    BY DEF Stream!Open, Stream!Begun
  <1> HIDE DEF cut
  <1>3. /\ n \in Nat
        /\ \A i \in 1..n : At(cut, i) \in cut
        /\ \A i, j \in 1..n : At(cut, i) = At(cut, j) => i = j
    BY <1>2, Ranked
  <1>4. Stream!Needed \in Nat
    BY VendorFrames DEF AnswerTypes
  <1>5. /\ fin \in FrameRow /\ fin.kind = "finish" /\ fin.reason = ending'
    <2>1. 1 \in Slots
      BY StreamConstants
    <2>2. ending' \in {"stop", "tool_use", "length"}
      BY DEF Stream!SendFinish
    <2> QED
      BY <2>1, <2>2 DEF Stream!Finish, Stream!Frame, FrameRow
  <1> HIDE DEF n, fin
  <1>6. \A i \in 1..n :
          /\ stops[i] \in FrameRow /\ stops[i].kind = "stop"
          /\ stops[i].slot = At(cut, i) /\ stops[i].n = Stream!Needed
    <2> TAKE i \in 1..n
    <2>1. At(cut, i) \in Slots
      BY <1>2, <1>3
    <2> QED
      BY <1>4, <2>1 DEF Stream!Frame, FrameRow, Pieces
  <1>7. stops \in Seq(FrameRow) /\ Len(stops) = n
    BY <1>3, <1>6
  <1> HIDE DEF stops
  <1>8. <<fin>> \in Seq(FrameRow) /\ Len(<<fin>>) = 1 /\ <<fin>>[1] = fin
    BY <1>5
  <1>9. /\ es \in Seq(FrameRow) /\ Len(es) = n + 1
        /\ \A i \in 1..(n + 1) : es[i] = IF i <= n THEN stops[i] ELSE <<fin>>[i - n]
    BY <1>7, <1>8, ConcatProperties
  <1>10. wire' = wire \o es
    BY <1>1, <1>7, <1>8, ConcatAssociative DEF AnswerTypes
  <1> HIDE DEF es
  <1>11. DOMAIN es = 1..(n + 1)
    BY <1>3, <1>9
  <1>12. es[Len(es)] = fin /\ Len(es) > 0
    <2>1. ~(n + 1 <= n) /\ (n + 1) - n = 1 /\ n + 1 \in 1..(n + 1)
      BY <1>3
    <2> QED
      BY <1>3, <1>8, <1>9, <2>1
  <1>13. \A k \in DOMAIN es : k # Len(es) => k \in 1..n /\ es[k] = stops[k]
    BY <1>3, <1>9, <1>11
  <1>14. \A k \in DOMAIN es : k # Len(es) =>
           /\ vendor = "anthropic" /\ es[k].kind = "stop"
           /\ es[k].slot \in Stream!Open /\ es[k].n = Stream!Needed
           /\ \A l \in DOMAIN es : l # Len(es) /\ es[l].slot = es[k].slot => l = k
    BY <1>2, <1>3, <1>6, <1>13
  <1> QED
    BY <1>5, <1>9, <1>10, <1>12, <1>14

LEMMA NoEndYet ==
  ASSUME AnswerInv, ending = "none"
  PROVE  /\ \A i : ~IsEnd(i)
         /\ finish # "tool_use"
         /\ \A i \in DOMAIN out : out[i].kind # "done"
         /\ \A i \in Stream!CallsIn : out[i].slot \in Slots /\ Stream!Parses(out[i].args)
  <1>1. \A i : ~IsEnd(i)
    <2> TAKE i
    <2>1. CASE i \in Nat
      BY <2>1 DEF AnswerInv, EndInv
    <2>2. CASE i \notin Nat
      BY <2>2 DEF IsEnd, AnswerInv, AnswerTypes
    <2> QED
      BY <2>1, <2>2
  <1> QED
    BY <1>1 DEF AnswerInv, DoneInv

\* Behind the finish reason comes nothing but the end, and what it cuts is open.
LEMMA SendFinishStep ==
  ASSUME AnswerInv, Stream!SendFinish
  PROVE  AnswerInv'
  <1>1. /\ AnswerTypes /\ Stream!TypeOK /\ ending = "none"
        /\ ending' \in {"stop", "tool_use", "length"}
        /\ ending' = "tool_use" => Stream!Open = {}
        /\ UNCHANGED <<vendor, progress, texts, half, acc, finish, out>>
    BY DEF AnswerInv, AnswerTypes, Stream!SendFinish
  <1>2. PICK es \in Seq(FrameRow) :
          /\ wire' = wire \o es
          /\ Len(es) > 0 /\ es[Len(es)].kind = "finish" /\ es[Len(es)].reason = ending'
          /\ \A k \in DOMAIN es : k # Len(es) =>
               /\ vendor = "anthropic" /\ es[k].kind = "stop"
               /\ es[k].slot \in Stream!Open /\ es[k].n = Stream!Needed
               /\ \A l \in DOMAIN es : l # Len(es) /\ es[l].slot = es[k].slot => l = k
    BY <1>1, FinishFrames
  <1> DEFINE L == Len(wire)
  <1>3. /\ wire' \in Seq(FrameRow)
        /\ L \in Nat /\ Len(es) \in Nat /\ Len(wire') = L + Len(es)
        /\ DOMAIN es = 1..Len(es)
        /\ \A i, s, n : IsPiece(i, s, n) => i \in Nat /\ i <= L /\ wire'[i] = wire[i]
        /\ \A i, s, n : IsPiece(i, s, n) => IsPiece(i, s, n)'
    BY <1>1, <1>2, WireExtends
  <1>4. \A i, s, n : IsPiece(i, s, n)' =>
          \/ IsPiece(i, s, n)
          \/ \E k \in DOMAIN es :
               /\ i = L + k /\ wire'[i] = es[k]
               /\ es[k].kind \in Pieces /\ es[k].slot = s /\ es[k].n = n
    BY <1>1, <1>2, WireExtends
  <1>5. \A i : IsEnd(i)' => i = L + Len(es) /\ wire'[i] = es[Len(es)]
    <2>1. \A i : IsEnd(i)' =>
            \/ IsEnd(i)
            \/ \E k \in DOMAIN es :
                 i = L + k /\ wire'[i] = es[k] /\ es[k].kind \in {"finish", "end"}
      BY <1>1, <1>2, WireExtends
    <2>2. \A i : ~IsEnd(i)
      BY <1>1, NoEndYet
    <2>3. \A k \in DOMAIN es : es[k].kind \in {"finish", "end"} => k = Len(es)
      BY <1>2
    <2> QED
      BY <2>1, <2>2, <2>3
  <1> HIDE DEF L
  <1>6. /\ \A s : (Called(s)' <=> Called(s)) /\ Had(s)' = Had(s)
        /\ Stream!Needed' = Stream!Needed
        /\ Stream!CallsIn' = Stream!CallsIn
        /\ Stream!FramesOfCall[vendor'] = Stream!FramesOfCall[vendor]
        /\ Stream!Begun' = Stream!Begun
    BY <1>1, NothingRead DEF Stream!Begun
  <1>7. /\ \A s \in Slots : progress[s] \in Nat /\ progress[s] <= Stream!Needed
        /\ Stream!Needed \in 1..4
        /\ vendor = "anthropic" => Stream!Needed = 4 /\ Stream!FramesOfCall[vendor][4] = "stop"
    BY <1>1, VendorFrames DEF AnswerTypes
  <1>8. \A s \in Slots : Had(s) \in Nat /\ (Called(s) => Had(s) = Stream!Needed) /\ Had(s) <= progress[s]
                          /\ (Had(s) = progress[s] \/ \E i \in Nat : IsPiece(i, s, progress[s]))
    BY <1>1, HadTyped DEF AnswerInv, SlotInv
  <1>9. AnswerTypes'
    <2>1. \A i \in DOMAIN wire' : wire'[i].slot \in Slots
      BY <1>3, FramesAreTyped
    <2>2. Stream!TypeOK'
      BY <1>1, <2>1 DEF Stream!TypeOK
    <2> QED
      BY <1>1, <1>3, <1>6, <2>2 DEF AnswerTypes
  \* A piece that is new stops a block that is open.
  <1>10. \A i, s, n : IsPiece(i, s, n)' /\ ~IsPiece(i, s, n) =>
           /\ vendor = "anthropic" /\ s \in Stream!Open /\ n = 4 /\ wire'[i].kind = "stop"
           /\ i > L
    <2> SUFFICES ASSUME NEW i, NEW s, NEW n, IsPiece(i, s, n)', ~IsPiece(i, s, n)
                 PROVE  /\ vendor = "anthropic" /\ s \in Stream!Open /\ n = 4 /\ wire'[i].kind = "stop"
                        /\ i > L
      OBVIOUS
    <2>1. PICK k \in DOMAIN es :
            /\ i = L + k /\ wire'[i] = es[k]
            /\ es[k].kind \in Pieces /\ es[k].slot = s /\ es[k].n = n
      BY <1>4
    <2>2. k # Len(es)
      BY <1>2, <2>1 DEF Pieces
    <2>3. L + k > L
      BY <1>3
    <2>4. /\ vendor = "anthropic" /\ es[k].kind = "stop"
          /\ es[k].slot \in Stream!Open /\ es[k].n = Stream!Needed
      BY <1>2, <2>2
    <2> QED
      BY <1>7, <2>1, <2>3, <2>4
  <1>11. \A i, j, s, n, m : IsPiece(i, s, n)' /\ ~IsPiece(i, s, n) /\ IsPiece(j, s, m)' /\ ~IsPiece(j, s, m)
           => i = j
    <2> SUFFICES ASSUME NEW i, NEW j, NEW s, NEW n, NEW m,
                        IsPiece(i, s, n)', ~IsPiece(i, s, n), IsPiece(j, s, m)', ~IsPiece(j, s, m)
                 PROVE  i = j
      OBVIOUS
    <2>1. PICK k \in DOMAIN es : i = L + k /\ es[k].kind \in Pieces /\ es[k].slot = s
      BY <1>4
    <2>2. PICK l \in DOMAIN es : j = L + l /\ es[l].kind \in Pieces /\ es[l].slot = s
      BY <1>4
    <2>3. k # Len(es) /\ l # Len(es)
      BY <1>2, <2>1, <2>2 DEF Pieces
    <2>4. l = k
      BY <1>2, <2>1, <2>2, <2>3
    <2> QED
      BY <2>1, <2>2, <2>4
  <1>12. \A s \in Stream!Open : s \in Slots /\ progress[s] > 0 /\ progress[s] < Stream!Needed
    BY DEF Stream!Open, Stream!Begun
  <1>13. ASSUME NEW i \in Nat, NEW n \in Nat, NEW s \in Slots
         PROVE  PieceInv(i, s, n)'
    <2> SUFFICES ASSUME IsPiece(i, s, n)'
                 PROVE  PieceInv(i, s, n)'
      BY DEF PieceInv
    <2>1. CASE IsPiece(i, s, n)
      <3>1. /\ n \in 1..Stream!Needed /\ wire[i].kind = Stream!FramesOfCall[vendor][n]
            /\ progress[s] > 0 /\ n <= progress[s]
            /\ ~Called(s) /\ Had(s) < n
            /\ \A j, m \in Nat : IsPiece(j, s, m) /\ i < j => n < m
            /\ Had(s) = n - 1 \/ \E j \in Nat : j < i /\ IsPiece(j, s, n - 1)
        BY <1>1, <2>1 DEF AnswerInv, PieceInv
      <3>2. wire'[i] = wire[i]
        BY <1>3, <2>1
      <3>3. s \in Stream!Open => n < 4
        BY <1>7, <1>12, <3>1
      <3>4. \A j, m \in Nat : IsPiece(j, s, m)' /\ i < j => n < m
        <4>1. ASSUME NEW j \in Nat, NEW m \in Nat, IsPiece(j, s, m)', i < j PROVE n < m
          <5>1. CASE IsPiece(j, s, m)
            BY <3>1, <4>1, <5>1
          <5>2. CASE ~IsPiece(j, s, m)
            BY <1>10, <3>3, <4>1, <5>2
          <5> QED
            BY <5>1, <5>2
        <4> QED
          BY <4>1
      <3>5. Had(s) = n - 1 \/ \E j \in Nat : j < i /\ IsPiece(j, s, n - 1)'
        BY <1>3, <3>1
      <3> QED
        BY <1>1, <1>6, <3>1, <3>2, <3>4, <3>5 DEF PieceInv
    <2>2. CASE ~IsPiece(i, s, n)
      <3>1. vendor = "anthropic" /\ s \in Stream!Open /\ n = 4 /\ wire'[i].kind = "stop" /\ i > L
        BY <1>10, <2>2
      <3>2. progress[s] > 0 /\ progress[s] < 4 /\ Stream!Needed = 4
            /\ wire'[i].kind = Stream!FramesOfCall[vendor][n]
        BY <1>7, <1>12, <3>1
      <3>3. Had(s) < 4
        <4>1. Had(s) \in Nat /\ progress[s] \in Nat /\ Had(s) <= progress[s]
          BY <1>7, <1>8
        <4> QED
          BY <3>2, <4>1
      <3>4. ~Called(s)
        <4>1. Called(s) => Had(s) = 4
          BY <1>8, <3>2
        <4>2. Had(s) \in Nat
          BY <1>8
        <4> QED
          BY <3>3, <4>1, <4>2
      <3>5. \A j, m \in Nat : ~(IsPiece(j, s, m)' /\ i < j)
        <4>1. ASSUME NEW j \in Nat, NEW m \in Nat, IsPiece(j, s, m)', i < j PROVE FALSE
          <5>1. CASE IsPiece(j, s, m)
            BY <1>3, <3>1, <4>1, <5>1
          <5>2. CASE ~IsPiece(j, s, m)
            BY <1>11, <2>2, <4>1, <5>2
          <5> QED
            BY <5>1, <5>2
        <4> QED
          BY <4>1
      <3>6. n \in 1..Stream!Needed /\ ~(n <= progress[s])
        BY <1>7, <3>1, <3>2
      <3> QED
        BY <1>1, <1>6, <3>1, <3>2, <3>3, <3>4, <3>5, <3>6 DEF PieceInv
    <2> QED
      BY <2>1, <2>2
  <1>14. ASSUME NEW s \in Slots
         PROVE  SlotInv(s)'
    <2>1. SlotInv(s)
      BY DEF AnswerInv
    <2> QED
      BY <1>1, <1>6, <2>1 DEF SlotInv, Stream!NoAcc
  <1>15. ASSUME NEW i \in Nat
         PROVE  EndInv(i)'
    <2> SUFFICES ASSUME IsEnd(i)'
                 PROVE  EndInv(i)'
      BY DEF EndInv
    <2>1. i = Len(wire') /\ wire'[i].kind = "finish" /\ wire'[i].reason = ending'
      BY <1>2, <1>3, <1>5
    <2>2. \A j \in Nat : ~(i < j /\ j \in DOMAIN wire')
      BY <1>3, <2>1
    <2>3. ASSUME ending' = "tool_use", NEW s \in Stream!Begun
          PROVE  /\ progress[s] = Stream!Needed
                 /\ Had(s) = Stream!Needed \/ \E j \in Nat : j < i /\ IsPiece(j, s, Stream!Needed)'
      <3>1. s \in Slots /\ ~(progress[s] < Stream!Needed)
        BY <1>1, <2>3 DEF Stream!Open, Stream!Begun
      <3>2. progress[s] = Stream!Needed
        BY <1>7, <3>1
      <3>3. L < i
        BY <1>2, <1>3, <2>1
      <3>4. \A j \in Nat : IsPiece(j, s, progress[s]) => IsPiece(j, s, progress[s])' /\ j < i
        <4>1. \A j \in Nat : j <= L => j < i
          BY <1>3, <3>3
        <4> QED
          BY <1>1, <1>3, <4>1
      <3>5. \A j \in Nat : IsPiece(j, s, progress[s])' => IsPiece(j, s, Stream!Needed)'
        BY <1>1, <1>6, <3>2
      <3> QED
        BY <1>8, <3>1, <3>2, <3>4, <3>5
    <2> QED
      BY <1>1, <1>6, <2>1, <2>2, <2>3 DEF EndInv
  <1>16. DoneInv'
    <2>1. /\ finish # "tool_use" /\ \A i \in DOMAIN out : out[i].kind # "done"
          /\ \A i \in Stream!CallsIn : out[i].slot \in Slots /\ Stream!Parses(out[i].args)
      BY <1>1, NoEndYet
    <2> QED
      BY <1>1, <1>6, <2>1 DEF DoneInv, Stream!Parses
  <1>17. Stream!CallsArriveWhole'
    BY <1>1, <1>6 DEF AnswerInv, Stream!CallsArriveWhole, Stream!Parses
  <1> QED
    BY <1>9, <1>13, <1>14, <1>15, <1>16, <1>17 DEF AnswerInv

LEMMA SendEndStep ==
  ASSUME AnswerInv, Stream!SendEnd
  PROVE  AnswerInv'
  <1> DEFINE f == Stream!Frame("end", 1, 1)
  <1>1. /\ AnswerTypes /\ Stream!TypeOK
        /\ ending \notin {"none", "over"} /\ ending' = "over"
        /\ wire' = Append(wire, f)
        /\ UNCHANGED <<vendor, progress, texts, half, acc, finish, out>>
    BY DEF AnswerInv, AnswerTypes, Stream!SendEnd
  <1>2. f \in FrameRow /\ f.kind = "end"
    BY StreamConstants DEF FrameRow, Stream!Frame
  <1> HIDE DEF f
  <1>3. /\ wire' \in Seq(FrameRow) /\ Len(wire) \in Nat /\ Len(wire') = Len(wire) + 1
        /\ DOMAIN wire = 1..Len(wire) /\ DOMAIN wire' = 1..(Len(wire) + 1)
        /\ \A i \in DOMAIN wire : wire'[i] = wire[i]
        /\ wire'[Len(wire) + 1] = f
    BY <1>1, <1>2, WireGrows
  <1>4. /\ \A i, s, n : IsPiece(i, s, n)' <=> IsPiece(i, s, n)
        /\ \A i : IsEnd(i)' <=> IsEnd(i) \/ i = Len(wire) + 1
        /\ \A i, s, n : IsPiece(i, s, n) => wire'[i] = wire[i]
        /\ \A i : IsEnd(i) => wire'[i] = wire[i] /\ i \in DOMAIN wire
    <2>1. f.kind \notin Pieces
      BY <1>2 DEF Pieces
    <2> QED
      BY <1>1, <1>2, <1>3, <2>1, PiecesGrow DEF IsPiece, IsEnd
  <1>5. /\ \A s : (Called(s)' <=> Called(s)) /\ Had(s)' = Had(s)
        /\ Stream!Needed' = Stream!Needed
        /\ Stream!CallsIn' = Stream!CallsIn
        /\ Stream!FramesOfCall[vendor'] = Stream!FramesOfCall[vendor]
        /\ Stream!Begun' = Stream!Begun
    BY <1>1, NothingRead DEF Stream!Begun
  <1>6. AnswerTypes'
    <2>1. \A i \in DOMAIN wire' : wire'[i].slot \in Slots
      BY <1>3, FramesAreTyped
    <2>2. Stream!TypeOK'
      BY <1>1, <2>1 DEF Stream!TypeOK
    <2> QED
      BY <1>1, <1>3, <1>5, <2>2 DEF AnswerTypes
  <1>7. ASSUME NEW i \in Nat, NEW n \in Nat, NEW s \in Slots
        PROVE  PieceInv(i, s, n)'
    <2>1. PieceInv(i, s, n)
      BY DEF AnswerInv
    <2> QED
      BY <1>1, <1>4, <1>5, <2>1 DEF PieceInv
  <1>8. ASSUME NEW s \in Slots
        PROVE  SlotInv(s)'
    <2>1. SlotInv(s)
      BY DEF AnswerInv
    <2> QED
      BY <1>1, <1>5, <2>1 DEF SlotInv, Stream!NoAcc
  <1>9. ASSUME NEW i \in Nat
        PROVE  EndInv(i)'
    <2>1. CASE IsEnd(i)
      <3>1. EndInv(i) /\ wire'[i] = wire[i]
        BY <1>4, <2>1 DEF AnswerInv
      <3>2. \A j \in Nat : i < j /\ j \in DOMAIN wire' => IsEnd(j)'
        BY <1>3, <1>4, <2>1, <3>1 DEF EndInv
      <3>3. wire[i].kind # "end"
        BY <1>1, <2>1, <3>1 DEF EndInv
      <3>4. wire[i].reason = "tool_use" /\ wire[i].kind = "finish" =>
              \A s \in Stream!Begun :
                /\ progress[s] = Stream!Needed
                /\ Had(s) = Stream!Needed \/ \E j \in Nat : j < i /\ IsPiece(j, s, Stream!Needed)
        BY <2>1, <3>1 DEF EndInv
      <3> QED
        BY <1>1, <1>4, <1>5, <3>1, <3>2, <3>3, <3>4 DEF EndInv
    <2>2. CASE i = Len(wire) + 1
      <3>1. wire'[i].kind = "end" /\ i = Len(wire')
        BY <1>2, <1>3, <2>2
      <3>2. \A j \in Nat : ~(i < j /\ j \in DOMAIN wire')
        BY <1>3, <2>2
      <3> QED
        BY <1>1, <3>1, <3>2 DEF EndInv
    <2>3. CASE ~IsEnd(i) /\ i # Len(wire) + 1
      BY <1>4, <2>3 DEF EndInv
    <2> QED
      BY <2>1, <2>2, <2>3
  <1>10. DoneInv'
    <2>1. \A i \in DOMAIN out : out[i].kind = "done" =>
            vendor = "gemini" /\ \A j \in DOMAIN wire : IsEnd(j)
      BY <1>1 DEF AnswerInv, DoneInv
    <2>2. \A i \in DOMAIN out : out[i].kind = "done" =>
            vendor = "gemini" /\ \A j \in DOMAIN wire' : IsEnd(j)'
      BY <1>3, <1>4, <2>1
    <2>3. /\ finish = "tool_use" => \A s \in Stream!Begun : Called(s)
          /\ \A i \in Stream!CallsIn : out[i].slot \in Slots
      BY DEF AnswerInv, DoneInv
    <2> QED
      BY <1>1, <1>5, <2>2, <2>3 DEF DoneInv
  <1>11. Stream!CallsArriveWhole'
    BY <1>1, <1>5 DEF AnswerInv, Stream!CallsArriveWhole, Stream!Parses
  <1> QED
    BY <1>6, <1>7, <1>8, <1>9, <1>10, <1>11 DEF AnswerInv

LEMMA BreakStep ==
  ASSUME AnswerInv, Stream!Break
  PROVE  AnswerInv'
  <1> DEFINE e == Stream!Event("error", 1, <<>>, "unavailable")
  <1>1. /\ AnswerTypes /\ Stream!TypeOK
        /\ ending' = "over" /\ wire' = <<>> /\ half' = FALSE
        /\ out' \in {out, Append(out, e)} /\ out \in Seq(EventRow)
        /\ UNCHANGED <<vendor, progress, texts, acc, finish>>
    BY DEF AnswerInv, AnswerTypes, Stream!Break
  <1>2. e \in EventRow /\ e.kind = "error"
    BY DEF EventRow, Stream!Event
  <1> HIDE DEF e
  <1>3. PICK es \in Seq(EventRow) : out' = out \o es /\ \A k \in DOMAIN es : es[k].kind = "error"
    <2>1. CASE out' = out
      <3>1. out' = out \o <<>> /\ <<>> \in Seq(EventRow) /\ DOMAIN <<>> = {}
        BY <1>1, <2>1, ConcatEmptySeq
      <3> QED
        BY <3>1
    <2>2. CASE out' = Append(out, e)
      <3>1. out' = out \o <<e>> /\ <<e>> \in Seq(EventRow)
        BY <1>1, <1>2, <2>2
      <3>2. \A k \in DOMAIN <<e>> : <<e>>[k].kind = "error"
        BY <1>2
      <3> QED
        BY <3>1, <3>2
    <2> QED
      BY <1>1, <2>1, <2>2
  <1>4. /\ Stream!CallsArriveWhole'
        /\ \A s : Called(s)' <=> (Called(s) \/ \E k \in DOMAIN es : es[k].kind = "call" /\ es[k].slot = s)
    <2>1. /\ \A k \in DOMAIN es : es[k].kind \in {"done", "error"}
          /\ \A k \in DOMAIN es : es[k].kind # "call" /\ es[k].kind # "done"
      BY <1>3
    <2> QED
      BY <1>1, <1>3, <2>1, OutGrows
  <1>5. /\ \A s : (Called(s)' <=> Called(s)) /\ Had(s)' = Had(s)
        /\ Stream!Needed' = Stream!Needed /\ Stream!Begun' = Stream!Begun
    <2>1. \A s : Called(s)' <=> Called(s)
      BY <1>3, <1>4
    <2> QED
      BY <1>1, <2>1 DEF Had, Stream!Needed, Stream!Begun
  <1>6. /\ out' \in Seq(EventRow)
        /\ \A i \in DOMAIN out' : out'[i].kind # "error" => i \in DOMAIN out /\ out'[i] = out[i]
    BY <1>1, <1>3, OutExtends
  <1>7. \A i, s, n : ~IsPiece(i, s, n)' /\ ~IsEnd(i)'
    BY <1>1 DEF IsPiece, IsEnd
  <1>8. AnswerTypes'
    <2>1. \A i \in DOMAIN out' : out'[i].kind \in {"text", "call", "done", "error"}
      BY <1>6, EventsAreTyped
    <2>3. wire' \in Seq(FrameRow) /\ DOMAIN wire' = {} /\ half' \in BOOLEAN
      <3>1. <<>> \in Seq(FrameRow) /\ DOMAIN <<>> = {}
        OBVIOUS
      <3>2. FALSE \in BOOLEAN
        OBVIOUS
      <3> QED
        BY <1>1, <3>1, <3>2, Zenon
    <2>2. Stream!TypeOK'
      BY <1>1, <2>1, <2>3 DEF Stream!TypeOK
    <2> QED
      BY <1>1, <1>5, <1>6, <2>2, <2>3 DEF AnswerTypes
  <1>9. ASSUME NEW i \in Nat, NEW n \in Nat, NEW s \in Slots
        PROVE  PieceInv(i, s, n)' /\ EndInv(i)'
    BY <1>7 DEF PieceInv, EndInv
  <1>10. ASSUME NEW s \in Slots
         PROVE  SlotInv(s)'
    <2>1. SlotInv(s)
      BY DEF AnswerInv
    <2> QED
      BY <1>1, <1>5, <2>1 DEF SlotInv, Stream!NoAcc
  <1>11. DoneInv'
    <2>1. /\ finish = "tool_use" => \A s \in Stream!Begun : Called(s)
          /\ \A i \in DOMAIN out : out[i].kind = "call" => out[i].slot \in Slots
      BY DEF AnswerInv, DoneInv, Stream!CallsIn
    <2>2. \A j : j \notin DOMAIN wire'
      BY <1>1
    <2> QED
      BY <1>1, <1>5, <1>6, <2>1, <2>2 DEF DoneInv, Stream!CallsIn
  <1>12. \A i \in Nat : EndInv(i)'
    BY <1>7 DEF EndInv
  <1> QED
    BY <1>4, <1>8, <1>9, <1>10, <1>11, <1>12 DEF AnswerInv

\* Frames are the same to the reader however the chunks cut them.
LEMMA ReadPartStep ==
  ASSUME AnswerInv, \/ Stream!ReadPart
                    \/ UNCHANGED Stream!streamVars
  PROVE  AnswerInv'
  <1>1. /\ AnswerTypes /\ Stream!TypeOK
        /\ half' \in BOOLEAN
        /\ UNCHANGED <<vendor, progress, texts, ending, wire, acc, finish, out>>
    <2>1. CASE Stream!ReadPart
      BY <2>1 DEF AnswerInv, AnswerTypes, Stream!ReadPart
    <2>2. CASE UNCHANGED Stream!streamVars
      BY <2>2 DEF AnswerInv, AnswerTypes, Stream!TypeOK, Stream!streamVars
    <2> QED
      BY <2>1, <2>2
  <1>2. /\ \A s : (Called(s)' <=> Called(s)) /\ Had(s)' = Had(s)
        /\ Stream!Needed' = Stream!Needed
        /\ Stream!CallsIn' = Stream!CallsIn
        /\ Stream!FramesOfCall[vendor'] = Stream!FramesOfCall[vendor]
        /\ Stream!Begun' = Stream!Begun
    BY <1>1, NothingRead DEF Stream!Begun
  <1>3. /\ \A i, s, n : IsPiece(i, s, n)' <=> IsPiece(i, s, n)
        /\ \A i : IsEnd(i)' <=> IsEnd(i)
    BY <1>1 DEF IsPiece, IsEnd
  <1>4. AnswerTypes'
    <2>1. Stream!TypeOK'
      BY <1>1 DEF Stream!TypeOK
    <2> QED
      BY <1>1, <1>2, <2>1 DEF AnswerTypes
  <1>5. ASSUME NEW i \in Nat, NEW n \in Nat, NEW s \in Slots
        PROVE  PieceInv(i, s, n)'
    <2>1. PieceInv(i, s, n)
      BY DEF AnswerInv
    <2> QED
      BY <1>1, <1>2, <1>3, <2>1 DEF PieceInv
  <1>6. ASSUME NEW s \in Slots
        PROVE  SlotInv(s)'
    <2>1. SlotInv(s)
      BY DEF AnswerInv
    <2> QED
      BY <1>1, <1>2, <1>3, <2>1 DEF SlotInv, Stream!NoAcc
  <1>7. ASSUME NEW i \in Nat
        PROVE  EndInv(i)'
    <2>1. EndInv(i)
      BY DEF AnswerInv
    <2> QED
      BY <1>1, <1>2, <1>3, <2>1 DEF EndInv
  <1>8. DoneInv'
    BY <1>1, <1>2, <1>3 DEF AnswerInv, DoneInv, Stream!Parses
  <1>9. Stream!CallsArriveWhole'
    BY <1>1, <1>2 DEF AnswerInv, Stream!CallsArriveWhole, Stream!Parses
  <1> QED
    BY <1>4, <1>5, <1>6, <1>7, <1>8, <1>9 DEF AnswerInv

\* The frames that are read, one by one, as the wire gets shorter.
LEMMA WireShrinks ==
  ASSUME AnswerTypes, wire # <<>>, wire' = Tail(wire)
  PROVE  /\ wire' \in Seq(FrameRow)
         /\ Len(wire) \in Nat /\ Len(wire') + 1 = Len(wire) /\ Len(wire') \in Nat
         /\ DOMAIN wire = 1..Len(wire) /\ DOMAIN wire' = 1..Len(wire')
         /\ 1 \in DOMAIN wire /\ Head(wire) = wire[1] /\ Head(wire) \in FrameRow
         /\ \A i \in Nat : i > 0 => wire'[i] = wire[i + 1] \/ i \notin DOMAIN wire'
         /\ \A i \in Nat : \A s, n : IsPiece(i, s, n)' <=> i > 0 /\ IsPiece(i + 1, s, n)
         /\ \A i \in Nat : IsEnd(i)' <=> i > 0 /\ IsEnd(i + 1)
         /\ \A i, s, n : IsPiece(i, s, n) => i \in Nat /\ i > 0
         /\ \A i : IsEnd(i) => i \in Nat /\ i > 0
  <1>1. wire \in Seq(FrameRow)
    BY DEF AnswerTypes
  <1>2. /\ wire' \in Seq(FrameRow)
        /\ Len(wire') = Len(wire) - 1
        /\ \A i \in 1..Len(wire') : wire'[i] = wire[i + 1]
        /\ Len(wire) \in Nat /\ Len(wire) > 0
        /\ Head(wire) = wire[1] /\ Head(wire) \in FrameRow
    BY <1>1, HeadTailProperties
  <1>3. /\ DOMAIN wire = 1..Len(wire) /\ DOMAIN wire' = 1..Len(wire')
        /\ Len(wire') \in Nat /\ Len(wire') + 1 = Len(wire)
        /\ 1 \in DOMAIN wire
    BY <1>1, <1>2
  <1>4. \A i \in Nat : i \in DOMAIN wire' <=> i > 0 /\ i + 1 \in DOMAIN wire
    BY <1>2, <1>3
  <1>5. \A i \in Nat : i \in DOMAIN wire' => wire'[i] = wire[i + 1]
    BY <1>2, <1>3
  <1>6. \A i \in DOMAIN wire : i \in Nat /\ i > 0
    BY <1>3
  <1>7. ASSUME NEW i \in Nat, NEW s, NEW n
        PROVE  IsPiece(i, s, n)' <=> i > 0 /\ IsPiece(i + 1, s, n)
    BY <1>4, <1>5 DEF IsPiece
  <1>8. ASSUME NEW i \in Nat
        PROVE  IsEnd(i)' <=> i > 0 /\ IsEnd(i + 1)
    BY <1>4, <1>5 DEF IsEnd
  <1>9. /\ \A i, s, n : IsPiece(i, s, n) => i \in Nat /\ i > 0
        /\ \A i : IsEnd(i) => i \in Nat /\ i > 0
    BY <1>6 DEF IsPiece, IsEnd
  <1>10. \A i \in Nat : i > 0 => wire'[i] = wire[i + 1] \/ i \notin DOMAIN wire'
    BY <1>5
  <1> QED
    BY <1>2, <1>3, <1>7, <1>8, <1>9, <1>10

\* If a piece that is read counts as had, or was one that the vendor had cut, and no piece of a
\* call is read after it has left, what is still on its way remains as it should be.
LEMMA Consumed ==
  ASSUME AnswerInv, wire # <<>>, wire' = Tail(wire),
         UNCHANGED <<vendor, progress, texts, ending>>,
         \A s \in Slots : Had(s)' \in Nat,
         \A s \in Slots : \A n \in Nat : IsPiece(1, s, n) =>
           Had(s)' = n \/ (n > progress[s] /\ Had(s)' = Had(s)),
         \A s \in Slots : (\A n \in Nat : ~IsPiece(1, s, n)) => Had(s)' = Had(s),
         \A s \in Slots : Called(s)' =>
           Called(s) \/ \A j, m \in Nat : IsPiece(j, s, m) => j = 1
  PROVE  /\ \A i, n \in Nat : \A s \in Slots : PieceInv(i, s, n)'
         /\ \A i \in Nat : EndInv(i)'
         /\ \A s \in Slots :
              /\ ending' = "none" =>
                   /\ Had(s)' <= progress'[s]
                   /\ Had(s)' = progress'[s] \/ \E i \in Nat : IsPiece(i, s, progress[s])'
              /\ Had(s)' > 0 => progress'[s] > 0
  <1>1. AnswerTypes /\ Stream!TypeOK
    BY DEF AnswerInv, AnswerTypes
  <1>2. /\ wire' \in Seq(FrameRow)
        /\ Len(wire) \in Nat /\ Len(wire') + 1 = Len(wire) /\ Len(wire') \in Nat
        /\ DOMAIN wire = 1..Len(wire) /\ DOMAIN wire' = 1..Len(wire')
        /\ \A i \in Nat : i > 0 => wire'[i] = wire[i + 1] \/ i \notin DOMAIN wire'
    BY <1>1, WireShrinks
  <1>3. /\ \A i \in Nat : \A s, n : IsPiece(i, s, n)' <=> i > 0 /\ IsPiece(i + 1, s, n)
        /\ \A i \in Nat : IsEnd(i)' <=> i > 0 /\ IsEnd(i + 1)
        /\ \A i, s, n : IsPiece(i, s, n) => i \in Nat /\ i > 0
        /\ \A i : IsEnd(i) => i \in Nat /\ i > 0
    BY <1>1, WireShrinks
  <1>4. /\ Stream!Needed' = Stream!Needed /\ Stream!Begun' = Stream!Begun
        /\ Stream!FramesOfCall[vendor'] = Stream!FramesOfCall[vendor]
        /\ Stream!Needed \in 1..4
        /\ \A s \in Slots : progress[s] \in Nat /\ progress[s] <= Stream!Needed
    BY <1>1, VendorFrames DEF AnswerTypes, Stream!Needed, Stream!Begun
  <1>5. \A s \in Slots : Had(s) \in Nat /\ (Called(s) => Had(s) = Stream!Needed)
    BY <1>1, HadTyped
  \* What the frames behind the first know of it.
  <1>6. ASSUME NEW i \in Nat, NEW n \in Nat, NEW s \in Slots, i > 0, IsPiece(i + 1, s, n)
        PROVE  /\ n \in 1..Stream!Needed /\ wire[i + 1].kind = Stream!FramesOfCall[vendor][n]
               /\ progress[s] > 0
               /\ n <= progress[s] \/ (vendor = "anthropic" /\ n = 4 /\ ending # "none")
               /\ ~Called(s) /\ Had(s) < n
               /\ \A j, m \in Nat : IsPiece(j, s, m) /\ i + 1 < j => n < m
               /\ n <= progress[s] =>
                    Had(s) = n - 1 \/ \E j \in Nat : j < i + 1 /\ IsPiece(j, s, n - 1)
    <2>1. i + 1 \in Nat
      OBVIOUS
    <2>2. PieceInv(i + 1, s, n)
      BY <2>1 DEF AnswerInv
    <2> QED
      BY <1>6, <2>2 DEF PieceInv
  <1>7. ASSUME NEW s \in Slots, NEW m \in Nat, IsPiece(1, s, m)
        PROVE  /\ m \in 1..Stream!Needed /\ progress[s] > 0 /\ Had(s) < m
               /\ m <= progress[s] \/ ending # "none"
               /\ \A j, n \in Nat : IsPiece(j, s, n) /\ 1 < j => m < n
    <2>1. PieceInv(1, s, m)
      BY DEF AnswerInv
    <2> QED
      BY <1>7, <2>1 DEF PieceInv
  \* A piece that is the next counts as had when it is read.
  <1>8. ASSUME NEW s \in Slots, NEW n \in Nat, n <= progress[s], IsPiece(1, s, n)
        PROVE  Had(s)' = n
    <2>1. ~(n > progress[s])
      BY <1>4, <1>8
    <2> QED
      BY <1>8, <2>1
  <1>9. ASSUME NEW i \in Nat, NEW n \in Nat, NEW s \in Slots
        PROVE  PieceInv(i, s, n)'
    <2> SUFFICES ASSUME IsPiece(i, s, n)'
                 PROVE  PieceInv(i, s, n)'
      BY DEF PieceInv
    <2>1. i > 0 /\ IsPiece(i + 1, s, n) /\ i + 1 > 1
      BY <1>3
    <2>2. /\ n \in 1..Stream!Needed /\ wire[i + 1].kind = Stream!FramesOfCall[vendor][n]
          /\ progress[s] > 0
          /\ n <= progress[s] \/ (vendor = "anthropic" /\ n = 4 /\ ending # "none")
          /\ ~Called(s) /\ Had(s) < n
      BY <1>6, <2>1
    <2>3. wire'[i].kind = Stream!FramesOfCall[vendor][n]
      <3>1. i \in DOMAIN wire'
        BY DEF IsPiece
      <3> QED
        BY <1>2, <2>1, <2>2, <3>1
    <2>4. ~Called(s)'
      <3>1. i + 1 \in Nat /\ i + 1 # 1
        BY <2>1
      <3> QED
        BY <2>1, <2>2, <3>1
    <2>5. Had(s)' < n
      <3>1. ASSUME NEW m \in Nat, IsPiece(1, s, m) PROVE Had(s)' < n
        <4>1. m < n
          BY <1>7, <2>1, <3>1
        <4> QED
          BY <2>2, <3>1, <4>1
      <3>2. CASE \A m \in Nat : ~IsPiece(1, s, m)
        <4>1. Had(s)' = Had(s)
          BY <3>2
        <4> QED
          BY <2>2, <4>1
      <3> QED
        BY <3>1, <3>2
    <2>6. ASSUME NEW j \in Nat, NEW m \in Nat, IsPiece(j, s, m)', i < j
          PROVE  n < m
      <3>1. j > 0 /\ IsPiece(j + 1, s, m) /\ j + 1 \in Nat /\ i + 1 < j + 1
        BY <1>3, <2>6
      <3> QED
        BY <1>6, <2>1, <3>1
    <2>7. ASSUME n <= progress[s]
          PROVE  Had(s)' = n - 1 \/ \E j \in Nat : j < i /\ IsPiece(j, s, n - 1)'
      <3>1. n - 1 \in Nat /\ n - 1 <= progress[s]
        BY <1>4, <2>2, <2>7
      <3>2. CASE Had(s) = n - 1
        <4>1. ASSUME NEW m \in Nat, IsPiece(1, s, m) PROVE FALSE
          <5>1. m < n /\ Had(s) < m
            BY <1>7, <2>1, <4>1
          <5> QED
            BY <3>1, <3>2, <5>1
        <4> QED
          BY <3>2, <4>1
      <3>3. ASSUME NEW j \in Nat, j < i + 1, IsPiece(j, s, n - 1)
            PROVE  Had(s)' = n - 1 \/ \E k \in Nat : k < i /\ IsPiece(k, s, n - 1)'
        <4>1. j > 0
          BY <1>3, <3>3
        <4>2. CASE j = 1
          BY <1>8, <3>1, <3>3, <4>2
        <4>3. CASE j # 1
          <5>1. j - 1 \in Nat /\ j - 1 > 0 /\ j - 1 < i /\ (j - 1) + 1 = j
            BY <3>3, <4>1, <4>3
          <5>2. IsPiece(j - 1, s, n - 1)'
            BY <1>3, <3>3, <5>1
          <5> QED
            BY <5>1, <5>2
        <4> QED
          BY <4>2, <4>3
      <3>4. Had(s) = n - 1 \/ \E j \in Nat : j < i + 1 /\ IsPiece(j, s, n - 1)
        BY <1>6, <2>1, <2>7
      <3> QED
        BY <3>2, <3>3, <3>4
    <2> QED
      BY <1>4, <2>2, <2>3, <2>4, <2>5, <2>6, <2>7 DEF PieceInv
  <1>10. ASSUME NEW i \in Nat
         PROVE  EndInv(i)'
    <2> SUFFICES ASSUME IsEnd(i)'
                 PROVE  EndInv(i)'
      BY DEF EndInv
    <2>1. i > 0 /\ IsEnd(i + 1) /\ i + 1 \in Nat
      BY <1>3
    <2>2. EndInv(i + 1)
      BY <2>1 DEF AnswerInv
    <2>3. wire'[i] = wire[i + 1]
      <3>1. i \in DOMAIN wire'
        BY DEF IsEnd
      <3> QED
        BY <1>2, <2>1, <3>1
    <2>4. ASSUME NEW j \in Nat, i < j, j \in DOMAIN wire'
          PROVE  IsEnd(j)'
      <3>1. j + 1 \in Nat /\ i + 1 < j + 1 /\ j + 1 \in DOMAIN wire /\ j > 0
        BY <1>2, <2>4
      <3>2. IsEnd(j + 1)
        BY <2>1, <2>2, <3>1 DEF EndInv
      <3> QED
        BY <1>3, <3>1, <3>2
    <2>5. ending # "none" /\ (wire'[i].kind = "end" => ending = "over" /\ i = Len(wire'))
      <3>1. ending # "none" /\ (wire[i + 1].kind = "end" => ending = "over" /\ i + 1 = Len(wire))
        BY <2>1, <2>2 DEF EndInv
      <3>2. i + 1 = Len(wire) => i = Len(wire')
        <4>1. \A a, b \in Nat : i + 1 = b /\ a + 1 = b => i = a
          OBVIOUS
        <4>2. Len(wire) \in Nat /\ Len(wire') \in Nat /\ Len(wire') + 1 = Len(wire)
          BY <1>2
        <4> QED
          BY <4>1, <4>2
      <3>3. wire'[i].kind = wire[i + 1].kind
        BY <2>3
      <3> QED
        BY <3>1, <3>2, <3>3
    <2>6. ASSUME wire'[i].reason = "tool_use", wire'[i].kind = "finish", NEW s \in Stream!Begun
          PROVE  /\ progress[s] = Stream!Needed
                 /\ Had(s)' = Stream!Needed \/ \E j \in Nat : j < i /\ IsPiece(j, s, Stream!Needed)'
      <3>1. /\ s \in Slots /\ progress[s] = Stream!Needed
            /\ Had(s) = Stream!Needed \/ \E j \in Nat : j < i + 1 /\ IsPiece(j, s, Stream!Needed)
        BY <2>1, <2>2, <2>3, <2>6 DEF EndInv, Stream!Begun
      <3>2. CASE Had(s) = Stream!Needed
        <4>1. ASSUME NEW m \in Nat, IsPiece(1, s, m) PROVE FALSE
          <5>1. m \in 1..Stream!Needed /\ Had(s) < m
            BY <1>7, <3>1, <4>1
          <5> QED
            BY <1>4, <3>2, <5>1
        <4> QED
          BY <3>1, <3>2, <4>1
      <3>3. ASSUME NEW j \in Nat, j < i + 1, IsPiece(j, s, Stream!Needed)
            PROVE  Had(s)' = Stream!Needed \/ \E k \in Nat : k < i /\ IsPiece(k, s, Stream!Needed)'
        <4>1. j > 0
          BY <1>3, <3>3
        <4>2. CASE j = 1
          <5>1. Stream!Needed \in Nat /\ Stream!Needed <= progress[s]
            BY <1>4, <3>1
          <5> QED
            BY <1>8, <3>1, <3>3, <4>2, <5>1
        <4>3. CASE j # 1
          <5>1. j - 1 \in Nat /\ j - 1 > 0 /\ j - 1 < i /\ (j - 1) + 1 = j
            BY <3>3, <4>1, <4>3
          <5>2. \A n : n = Stream!Needed => IsPiece(j - 1, s, n)'
            BY <1>3, <3>3, <5>1
          <5>3. IsPiece(j - 1, s, Stream!Needed)'
            BY <1>4, <5>2
          <5> QED
            BY <5>1, <5>3
        <4> QED
          BY <4>2, <4>3
      <3> QED
        BY <3>1, <3>2, <3>3
    <2> QED
      BY <1>4, <2>4, <2>5, <2>6 DEF EndInv
  <1>11. ASSUME NEW s \in Slots
         PROVE  /\ ending' = "none" =>
                     /\ Had(s)' <= progress'[s]
                     /\ Had(s)' = progress'[s] \/ \E i \in Nat : IsPiece(i, s, progress[s])'
                /\ Had(s)' > 0 => progress'[s] > 0
    <2>1. SlotInv(s)
      BY DEF AnswerInv
    <2>2. Had(s)' > 0 => progress'[s] > 0
      <3>1. ASSUME NEW m \in Nat, IsPiece(1, s, m) PROVE progress'[s] > 0
        BY <1>7, <3>1
      <3>2. CASE \A m \in Nat : ~IsPiece(1, s, m)
        BY <2>1, <3>2 DEF SlotInv
      <3> QED
        BY <3>1, <3>2
    <2>3. ASSUME ending = "none"
          PROVE  /\ Had(s)' <= progress[s]
                 /\ Had(s)' = progress[s] \/ \E i \in Nat : IsPiece(i, s, progress[s])'
      <3>1. /\ Had(s) <= progress[s]
            /\ Had(s) = progress[s] \/ \E i \in Nat : IsPiece(i, s, progress[s])
        BY <2>1, <2>3 DEF SlotInv
      <3>2. \A m \in Nat : IsPiece(1, s, m) => m <= progress[s] /\ Had(s)' = m /\ Had(s) < m
        BY <1>7, <1>8, <2>3
      <3>3. Had(s)' <= progress[s]
        <4>1. ASSUME NEW m \in Nat, IsPiece(1, s, m) PROVE Had(s)' <= progress[s]
          BY <3>2, <4>1
        <4>2. CASE \A m \in Nat : ~IsPiece(1, s, m)
          BY <3>1, <4>2
        <4> QED
          BY <4>1, <4>2
      <3>4. CASE Had(s) = progress[s]
        <4>1. ASSUME NEW m \in Nat, IsPiece(1, s, m) PROVE FALSE
          <5>1. m <= progress[s] /\ Had(s) < m /\ progress[s] \in Nat
            BY <1>4, <3>2, <4>1
          <5> QED
            BY <3>4, <5>1
        <4> QED
          BY <3>3, <3>4, <4>1
      <3>5. ASSUME NEW i \in Nat, IsPiece(i, s, progress[s])
            PROVE  Had(s)' = progress[s] \/ \E k \in Nat : IsPiece(k, s, progress[s])'
        <4>1. i > 0
          BY <1>3, <3>5
        <4>2. CASE i = 1
          <5>1. progress[s] \in Nat
            BY <1>4
          <5> QED
            BY <3>2, <3>5, <4>2, <5>1
        <4>3. CASE i # 1
          <5>1. i - 1 \in Nat /\ i - 1 > 0 /\ (i - 1) + 1 = i
            BY <3>5, <4>1, <4>3
          <5>2. \A n : n = progress[s] => IsPiece(i - 1, s, n)'
            BY <1>3, <3>5, <5>1
          <5>3. IsPiece(i - 1, s, progress[s])'
            BY <5>2
          <5> QED
            BY <5>1, <5>3
        <4> QED
          BY <4>2, <4>3
      <3> QED
        BY <3>1, <3>3, <3>4, <3>5
    <2> QED
      BY <2>2, <2>3
  <1> QED
    BY <1>9, <1>10, <1>11

\* What is known of the frame that is read.
LEMMA HeadFacts ==
  ASSUME AnswerInv, wire # <<>>, NEW f, f = Head(wire)
  PROVE  /\ f \in FrameRow /\ f.slot \in Slots /\ f.n \in Nat /\ f = wire[1]
         /\ \A s, n : IsPiece(1, s, n) <=> f.kind \in Pieces /\ f.slot = s /\ f.n = n
         /\ IsEnd(1) <=> f.kind \in {"finish", "end"}
         /\ f.kind \in Pieces =>
              /\ f.n \in 1..Stream!Needed /\ f.kind = Stream!FramesOfCall[vendor][f.n]
              /\ progress[f.slot] > 0
              /\ f.n <= progress[f.slot] \/ (vendor = "anthropic" /\ f.n = 4 /\ ending # "none")
              /\ ~Called(f.slot) /\ Had(f.slot) < f.n
              /\ f.n <= progress[f.slot] => Had(f.slot) = f.n - 1
              /\ f.n = Stream!Needed => \A j, m \in Nat : IsPiece(j, f.slot, m) => j = 1
         /\ IsEnd(1) =>
              /\ ending # "none" /\ \A j \in DOMAIN wire : IsEnd(j)
              /\ \A j, s, m : ~IsPiece(j, s, m)
              /\ f.kind = "end" => ending = "over" /\ Len(wire) = 1
              /\ f.reason = "tool_use" /\ f.kind = "finish" =>
                   \A s \in Stream!Begun : s \in Slots /\ Had(s) = Stream!Needed
         /\ vendor # "gemini" \/ ~IsEnd(1) => \A i \in DOMAIN out : out[i].kind # "done"
  <1>1. AnswerTypes /\ Stream!TypeOK /\ wire \in Seq(FrameRow)
    BY DEF AnswerInv, AnswerTypes
  <1>2. /\ f \in FrameRow /\ f = wire[1] /\ 1 \in DOMAIN wire
        /\ DOMAIN wire = 1..Len(wire) /\ Len(wire) \in Nat
    BY <1>1, HeadTailProperties
  <1>3. f.slot \in Slots /\ f.n \in Nat
    BY <1>1, <1>2, FramesAreTyped
  <1>4. /\ \A s, n : IsPiece(1, s, n) <=> f.kind \in Pieces /\ f.slot = s /\ f.n = n
        /\ IsEnd(1) <=> f.kind \in {"finish", "end"}
    BY <1>2 DEF IsPiece, IsEnd
  <1>5. /\ \A s, m : \A i : IsPiece(i, s, m) => i \in Nat /\ i > 0 /\ i \in DOMAIN wire /\ ~IsEnd(i)
    BY <1>2 DEF IsPiece, IsEnd, Pieces
  <1>6. ASSUME f.kind \in Pieces
        PROVE  /\ f.n \in 1..Stream!Needed /\ f.kind = Stream!FramesOfCall[vendor][f.n]
               /\ progress[f.slot] > 0
               /\ f.n <= progress[f.slot] \/ (vendor = "anthropic" /\ f.n = 4 /\ ending # "none")
               /\ ~Called(f.slot) /\ Had(f.slot) < f.n
               /\ f.n <= progress[f.slot] => Had(f.slot) = f.n - 1
               /\ f.n = Stream!Needed => \A j, m \in Nat : IsPiece(j, f.slot, m) => j = 1
    <2>1. PieceInv(1, f.slot, f.n) /\ IsPiece(1, f.slot, f.n)
      BY <1>3, <1>4, <1>6 DEF AnswerInv
    <2>2. /\ f.n \in 1..Stream!Needed /\ f.kind = Stream!FramesOfCall[vendor][f.n]
          /\ progress[f.slot] > 0
          /\ f.n <= progress[f.slot] \/ (vendor = "anthropic" /\ f.n = 4 /\ ending # "none")
          /\ ~Called(f.slot) /\ Had(f.slot) < f.n
          /\ \A j, m \in Nat : IsPiece(j, f.slot, m) /\ 1 < j => f.n < m
          /\ f.n <= progress[f.slot] =>
               Had(f.slot) = f.n - 1 \/ \E j \in Nat : j < 1 /\ IsPiece(j, f.slot, f.n - 1)
      BY <1>2, <2>1 DEF PieceInv
    <2>3. f.n <= progress[f.slot] => Had(f.slot) = f.n - 1
      BY <1>5, <2>2
    <2>4. ASSUME f.n = Stream!Needed, NEW j \in Nat, NEW m \in Nat, IsPiece(j, f.slot, m)
          PROVE  j = 1
      <3>1. PieceInv(j, f.slot, m)
        BY <1>3 DEF AnswerInv
      <3>2. m \in 1..Stream!Needed /\ j > 0
        BY <1>5, <2>4, <3>1 DEF PieceInv
      <3>3. ~(1 < j)
        BY <2>2, <2>4, <3>2
      <3> QED
        BY <3>2, <3>3
    <2> QED
      BY <2>2, <2>3, <2>4
  <1>7. ASSUME IsEnd(1)
        PROVE  /\ ending # "none" /\ \A j \in DOMAIN wire : IsEnd(j)
               /\ \A j, s, m : ~IsPiece(j, s, m)
               /\ f.kind = "end" => ending = "over" /\ Len(wire) = 1
               /\ f.reason = "tool_use" /\ f.kind = "finish" =>
                    \A s \in Stream!Begun : s \in Slots /\ Had(s) = Stream!Needed
    <2>1. EndInv(1)
      BY DEF AnswerInv
    <2>2. ending # "none" /\ \A j \in Nat : 1 < j /\ j \in DOMAIN wire => IsEnd(j)
      BY <1>7, <2>1 DEF EndInv
    <2>3. \A j \in DOMAIN wire : IsEnd(j)
      <3>1. \A j \in DOMAIN wire : j \in Nat /\ (j = 1 \/ 1 < j)
        BY <1>2
      <3> QED
        BY <1>7, <2>2, <3>1
    <2>4. \A j, s, m : ~IsPiece(j, s, m)
      BY <1>5, <2>3
    <2>5. f.kind = "end" => ending = "over" /\ Len(wire) = 1
      BY <1>2, <1>7, <2>1 DEF EndInv
    <2>6. ASSUME f.reason = "tool_use", f.kind = "finish", NEW s \in Stream!Begun
          PROVE  s \in Slots /\ Had(s) = Stream!Needed
      BY <1>2, <1>7, <2>1, <2>4, <2>6 DEF EndInv, Stream!Begun
    <2> QED
      BY <2>2, <2>3, <2>4, <2>5, <2>6
  <1>8. vendor # "gemini" \/ ~IsEnd(1) => \A i \in DOMAIN out : out[i].kind # "done"
    BY <1>2 DEF AnswerInv, DoneInv
  <1> QED
    BY <1>2, <1>3, <1>4, <1>6, <1>7, <1>8

\* A frame is read as it should be if it adds the events, the pieces and the reason it bears.
LEMMA FrameRead ==
  ASSUME AnswerInv, wire # <<>>, wire' = Tail(wire), half' = FALSE,
         UNCHANGED <<vendor, progress, texts, ending>>,
         NEW es \in Seq(EventRow), out' = out \o es,
         acc' \in [Slots -> AccRow], finish' \in {"other", "stop", "tool_use", "length"},
         \A s \in Slots : \A n \in Nat : IsPiece(1, s, n) =>
           Had(s)' = n \/ (n > progress[s] /\ Had(s)' = Had(s)),
         \A s \in Slots : (\A n \in Nat : ~IsPiece(1, s, n)) => Had(s)' = Had(s),
         \A s \in Slots :
           /\ acc'[s].args # <<>> => acc'[s].held
           /\ vendor = "openai" /\ acc'[s].held => acc'[s].args # <<>>
           /\ Called(s)' \/ vendor = "gemini" => acc'[s] = Stream!NoAcc,
         \A k \in DOMAIN es : es[k].kind = "call" =>
           /\ es[k].slot \in Slots /\ ~Called(es[k].slot)
           /\ \A j, m \in Nat : IsPiece(j, es[k].slot, m) => j = 1
           /\ \/ Stream!Parses(es[k].args)
              \/ es[k].args = <<>> /\ progress[es[k].slot] < Stream!Needed /\ ending # "none"
           /\ \A l \in DOMAIN es : es[l].kind = "call" /\ es[l].slot = es[k].slot => l = k,
         \A k \in DOMAIN es : es[k].kind \in {"done", "error"} \/ vendor # "gemini" \/ ~IsEnd(1),
         \A k \in DOMAIN es : es[k].kind = "done" =>
           /\ k = Len(es) /\ IsEnd(1) /\ (vendor # "gemini" => wire[1].kind = "end")
           /\ es[k].reason = "tool_use" => \A s \in Stream!Begun : Called(s),
         finish' = "tool_use" => ending # "none" /\ \A s \in Stream!Begun : Called(s)'
  PROVE  AnswerInv'
  <1>1. AnswerTypes /\ Stream!TypeOK
    BY DEF AnswerInv, AnswerTypes
  <1>2. /\ 1 \in DOMAIN wire /\ Head(wire) = wire[1]
        /\ IsEnd(1) => /\ ending # "none" /\ \A j \in DOMAIN wire : IsEnd(j)
                       /\ wire[1].kind = "end" => ending = "over" /\ Len(wire) = 1
        /\ vendor # "gemini" \/ ~IsEnd(1) => \A i \in DOMAIN out : out[i].kind # "done"
    BY <1>1, WireShrinks, HeadFacts
  <1>3. \A s : Called(s)' <=> (Called(s) \/ \E k \in DOMAIN es : es[k].kind = "call" /\ es[k].slot = s)
    BY <1>1, CalledGrows
  <1>4. Stream!CallsArriveWhole'
    <2>1. \/ \A k \in DOMAIN es : es[k].kind \in {"done", "error"}
          \/ \A i \in DOMAIN out : out[i].kind # "done"
      BY <1>2
    <2> QED
      BY <2>1, OutGrows
  <1>5. /\ out' \in Seq(EventRow)
        /\ \A i \in DOMAIN out' :
             \/ i \in DOMAIN out /\ out'[i] = out[i]
             \/ \E k \in DOMAIN es : out'[i] = es[k]
    <2>1. /\ out' \in Seq(EventRow)
          /\ \A i \in DOMAIN out : i \in DOMAIN out' /\ out'[i] = out[i]
          /\ \A k \in DOMAIN es : Len(out) + k \in DOMAIN out' /\ out'[Len(out) + k] = es[k]
          /\ \A i \in DOMAIN out' : i \in DOMAIN out \/ \E k \in DOMAIN es : i = Len(out) + k
      BY <1>1, OutExtends
    <2> QED
      BY <2>1
  <1>6. /\ Stream!Needed' = Stream!Needed /\ Stream!Begun' = Stream!Begun
    BY DEF Stream!Needed, Stream!Begun
  <1>7. AnswerTypes'
    <2>1. wire' \in Seq(FrameRow)
      BY <1>1, WireShrinks
    <2>2. /\ \A i \in DOMAIN wire' : wire'[i].slot \in Slots
          /\ \A i \in DOMAIN out' : out'[i].kind \in {"text", "call", "done", "error"}
          /\ \A s \in Slots : acc'[s].held \in BOOLEAN
      <3>1. \A s \in Slots : acc'[s] \in AccRow
        OBVIOUS
      <3>2. \A s \in Slots : acc'[s].held \in BOOLEAN
        BY <3>1 DEF AccRow
      <3> QED
        BY <1>5, <2>1, <3>2, FramesAreTyped, EventsAreTyped
    <2>3. half' \in BOOLEAN
      OBVIOUS
    <2>4. Stream!TypeOK'
      BY <1>1, <2>2, <2>3 DEF Stream!TypeOK
    <2> QED
      BY <1>1, <1>5, <1>6, <2>1, <2>4 DEF AnswerTypes
  <1>8. \A s \in Slots : Had(s)' \in Nat
    <2> TAKE s \in Slots
    <2>1. acc'[s].args \in {<<>>, <<1>>, <<1, 2>>}
      BY DEF AccRow
    <2>2. Len(acc'[s].args) \in Nat
      BY <2>1, ArgsGrow
    <2>3. Stream!Needed' \in Nat
      BY <1>1, <1>6, VendorFrames
    <2> QED
      BY <2>2, <2>3 DEF Had
  <1>9. \A s \in Slots : Called(s)' => Called(s) \/ \A j, m \in Nat : IsPiece(j, s, m) => j = 1
    BY <1>3
  <1>10. /\ \A i, n \in Nat : \A s \in Slots : PieceInv(i, s, n)'
         /\ \A i \in Nat : EndInv(i)'
         /\ \A s \in Slots :
              /\ ending' = "none" =>
                   /\ Had(s)' <= progress'[s]
                   /\ Had(s)' = progress'[s] \/ \E i \in Nat : IsPiece(i, s, progress[s])'
              /\ Had(s)' > 0 => progress'[s] > 0
    BY <1>8, <1>9, Consumed
  <1>11. ASSUME NEW s \in Slots
         PROVE  SlotInv(s)'
    BY <1>10 DEF SlotInv, Stream!NoAcc
  <1>12. DoneInv'
    <2>1. \A j \in DOMAIN wire' : (\A i \in DOMAIN wire : IsEnd(i)) => IsEnd(j)'
      <3>1. /\ Len(wire) \in Nat /\ Len(wire') + 1 = Len(wire) /\ Len(wire') \in Nat
            /\ DOMAIN wire = 1..Len(wire) /\ DOMAIN wire' = 1..Len(wire')
            /\ \A i \in Nat : IsEnd(i)' <=> i > 0 /\ IsEnd(i + 1)
        BY <1>1, WireShrinks
      <3>2. \A j \in DOMAIN wire' : j \in Nat /\ j > 0 /\ j + 1 \in DOMAIN wire
        BY <3>1
      <3> QED
        BY <3>1, <3>2
    <2>2. Len(wire) = 1 => wire' = <<>>
      <3>1. wire' \in Seq(FrameRow) /\ Len(wire') + 1 = Len(wire) /\ Len(wire') \in Nat
        BY <1>1, WireShrinks
      <3> QED
        BY <3>1, EmptySeq
    <2>3. ASSUME NEW i \in DOMAIN out', out'[i].kind = "done"
          PROVE  /\ ending # "none" /\ \A j \in DOMAIN wire' : IsEnd(j)'
                 /\ vendor # "gemini" => ending = "over" /\ wire' = <<>>
      <3>1. CASE i \in DOMAIN out /\ out'[i] = out[i]
        <4>1. vendor = "gemini" /\ ending # "none" /\ \A j \in DOMAIN wire : IsEnd(j)
          BY <1>2, <2>3, <3>1 DEF AnswerInv, DoneInv
        <4> QED
          BY <2>1, <4>1
      <3>2. CASE \E k \in DOMAIN es : out'[i] = es[k]
        <4>1. IsEnd(1) /\ (vendor # "gemini" => wire[1].kind = "end")
          BY <2>3, <3>2
        <4> QED
          BY <1>2, <2>1, <2>2, <4>1
      <3> QED
        BY <1>5, <3>1, <3>2
    <2>4. ASSUME NEW i \in DOMAIN out', out'[i].kind = "call"
          PROVE  out'[i].slot \in Slots /\ (~Stream!Parses(out'[i].args) => ending # "none")
      <3>1. CASE i \in DOMAIN out /\ out'[i] = out[i]
        BY <2>4, <3>1 DEF AnswerInv, DoneInv, Stream!CallsIn
      <3>2. CASE \E k \in DOMAIN es : out'[i] = es[k]
        BY <2>4, <3>2
      <3> QED
        BY <1>5, <3>1, <3>2
    <2> QED
      BY <1>6, <2>3, <2>4 DEF DoneInv, Stream!CallsIn, Stream!Parses
  <1> QED
    BY <1>4, <1>7, <1>10, <1>11, <1>12 DEF AnswerInv

LEMMA OneEvent ==
  ASSUME AnswerTypes, NEW e \in EventRow
  PROVE  /\ <<e>> \in Seq(EventRow) /\ Append(out, e) = out \o <<e>>
         /\ Len(<<e>>) = 1 /\ DOMAIN <<e>> = {1} /\ <<e>>[1] = e
  <1>1. out \in Seq(EventRow)
    BY DEF AnswerTypes
  <1>2. Append(out, e) = out \o <<e>>
    BY <1>1
  <1>3. <<e>> \in Seq(EventRow) /\ Len(<<e>>) = 1 /\ <<e>>[1] = e
    OBVIOUS
  <1>4. DOMAIN <<e>> = {1}
    BY <1>3
  <1> QED
    BY <1>2, <1>3, <1>4

LEMMA NoEvent ==
  ASSUME AnswerTypes
  PROVE  <<>> \in Seq(EventRow) /\ out \o <<>> = out /\ DOMAIN <<>> = {}
  <1>1. out \in Seq(EventRow)
    BY DEF AnswerTypes
  <1> QED
    BY <1>1, ConcatEmptySeq

\* A frame that bears no piece of a call.
LEMMA OtherRead ==
  ASSUME AnswerInv, wire # <<>>, wire' = Tail(wire), half' = FALSE,
         UNCHANGED <<vendor, progress, texts, ending, acc>>,
         NEW f, f = Head(wire), f.kind \notin Pieces,
         NEW es \in Seq(EventRow), out' = out \o es,
         \A k \in DOMAIN es : es[k].kind \in {"text", "done"},
         \A k \in DOMAIN es : es[k].kind = "text" => ~IsEnd(1),
         \A k \in DOMAIN es : es[k].kind = "done" =>
           /\ k = Len(es) /\ IsEnd(1) /\ (vendor # "gemini" => f.kind = "end")
           /\ es[k].reason = "tool_use" => \A s \in Stream!Begun : Called(s),
         finish' \in {"other", "stop", "tool_use", "length"},
         finish' = "tool_use" => ending # "none" /\ \A s \in Stream!Begun : Called(s)
  PROVE  AnswerInv'
  <1>1. AnswerTypes /\ acc' \in [Slots -> AccRow]
    BY DEF AnswerInv, AnswerTypes
  <1>2. \A s : Called(s)' <=> Called(s)
    BY <1>1, CalledGrows
  <1>3. \A s : Had(s)' = Had(s)
    BY <1>2 DEF Had, Stream!Needed
  <1>4. f = wire[1] /\ \A s, n : ~IsPiece(1, s, n)
    BY HeadFacts
  <1>5. \A s \in Slots :
          /\ acc'[s].args # <<>> => acc'[s].held
          /\ vendor = "openai" /\ acc'[s].held => acc'[s].args # <<>>
          /\ Called(s)' \/ vendor = "gemini" => acc'[s] = Stream!NoAcc
    BY <1>2 DEF AnswerInv, SlotInv
  <1>6. finish' = "tool_use" => ending # "none" /\ \A s \in Stream!Begun : Called(s)'
    BY <1>2
  <1>7. \A k \in DOMAIN es : es[k].kind # "call"
    OBVIOUS
  <1>8. \A k \in DOMAIN es : es[k].kind \in {"done", "error"} \/ vendor # "gemini" \/ ~IsEnd(1)
    OBVIOUS
  <1>9. \A k \in DOMAIN es : es[k].kind = "done" =>
           /\ k = Len(es) /\ IsEnd(1) /\ (vendor # "gemini" => wire[1].kind = "end")
           /\ es[k].reason = "tool_use" => \A s \in Stream!Begun : Called(s)
    BY <1>4
  <1> QED
    BY <1>1, <1>3, <1>4, <1>5, <1>6, <1>7, <1>8, <1>9, FrameRead

LEMMA TextRead ==
  ASSUME AnswerInv, wire # <<>>, wire' = Tail(wire), half' = FALSE,
         UNCHANGED <<vendor, progress, texts, ending>>,
         NEW f, f = Head(wire), Stream!Text(f)
  PROVE  AnswerInv'
  <1> DEFINE e == Stream!Event("text", f.n, <<>>, "none")
  <1>1. /\ AnswerTypes /\ f.kind = "text" /\ out' = Append(out, e) /\ UNCHANGED <<acc, finish>>
    BY DEF AnswerInv, Stream!Text
  <1>2. f.n \in Nat /\ ~IsEnd(1) /\ f.kind \notin Pieces
    BY <1>1, HeadFacts DEF Pieces
  <1>3. e \in EventRow /\ e.kind = "text"
    BY <1>2 DEF Stream!Event, EventRow
  <1> HIDE DEF e
  <1>4. /\ finish' \in {"other", "stop", "tool_use", "length"}
        /\ finish' = "tool_use" => ending # "none" /\ \A s \in Stream!Begun : Called(s)
    BY <1>1 DEF AnswerInv, AnswerTypes, DoneInv, Stream!TypeOK
  <1>5. out' = out \o <<e>> /\ <<e>> \in Seq(EventRow) /\ \A k \in DOMAIN <<e>> : <<e>>[k].kind = "text"
    BY <1>1, <1>3, OneEvent
  <1> QED
    BY <1>1, <1>2, <1>4, <1>5, OtherRead

\* The frame that ends the answer of openai and anthropic.
LEMMA DoneRead ==
  ASSUME AnswerInv, wire # <<>>, wire' = Tail(wire), half' = FALSE,
         UNCHANGED <<vendor, progress, texts, ending, acc, finish>>,
         NEW f, f = Head(wire), f.kind = "end", Stream!Done(finish)
  PROVE  AnswerInv'
  <1> DEFINE e == Stream!Event("done", 1, <<>>, finish)
  <1>1. AnswerTypes /\ out' = Append(out, e) /\ f.kind \notin Pieces
    BY DEF AnswerInv, Stream!Done, Pieces
  <1>2. IsEnd(1)
    BY HeadFacts
  <1>3. /\ finish' \in {"other", "stop", "tool_use", "length"}
        /\ finish = "tool_use" => ending # "none" /\ \A s \in Stream!Begun : Called(s)
    BY DEF AnswerInv, AnswerTypes, DoneInv, Stream!TypeOK
  <1>4. e \in EventRow /\ e.kind = "done" /\ e.reason = finish
    BY <1>3 DEF Stream!Event, EventRow
  <1> HIDE DEF e
  <1>5. /\ out' = out \o <<e>> /\ <<e>> \in Seq(EventRow) /\ Len(<<e>>) = 1
        /\ \A k \in DOMAIN <<e>> : k = 1 /\ <<e>>[k] = e
    BY <1>1, <1>4, OneEvent
  <1>6. /\ \A k \in DOMAIN <<e>> : <<e>>[k].kind = "done"
        /\ \A k \in DOMAIN <<e>> : /\ k = Len(<<e>>)
                                   /\ <<e>>[k].reason = "tool_use" => \A s \in Stream!Begun : Called(s)
    BY <1>3, <1>4, <1>5
  <1> QED
    BY <1>1, <1>2, <1>3, <1>5, <1>6, OtherRead

LEMMA GeminiFinishRead ==
  ASSUME AnswerInv, wire # <<>>, wire' = Tail(wire), half' = FALSE,
         UNCHANGED <<vendor, progress, texts, ending>>,
         NEW f, f = Head(wire), vendor = "gemini", Stream!GeminiFinish(f)
  PROVE  AnswerInv'
  <1> DEFINE r == IF f.kind = "end" THEN "stop" ELSE f.reason
             e == Stream!Event("done", 1, <<>>, r)
  <1>1. /\ AnswerTypes /\ out' = Append(out, e) /\ f.kind \in {"finish", "end"}
        /\ f.kind \notin Pieces /\ UNCHANGED <<acc, finish>>
    BY DEF AnswerInv, Stream!GeminiFinish, Stream!Done, Pieces
  <1>2. IsEnd(1) /\ f \in FrameRow
    BY <1>1, HeadFacts
  <1>3. /\ finish' \in {"other", "stop", "tool_use", "length"}
        /\ finish = "tool_use" => ending # "none" /\ \A s \in Stream!Begun : Called(s)
    BY <1>1 DEF AnswerInv, AnswerTypes, DoneInv, Stream!TypeOK
  <1>4. r \in {"none", "stop", "tool_use", "length"}
    BY <1>2 DEF FrameRow
  <1>5. ASSUME r = "tool_use", NEW s \in Stream!Begun PROVE Called(s)
    <2>1. f.kind = "finish" /\ f.reason = "tool_use"
      BY <1>1, <1>5
    <2>2. Had(s) = Stream!Needed
      BY <1>2, <2>1, HeadFacts
    <2>3. Stream!Needed = 1
      BY VendorFrames DEF AnswerInv, AnswerTypes
    <2> QED
      BY <2>2, <2>3 DEF Had
  <1> HIDE DEF r
  <1>6. e \in EventRow /\ e.kind = "done" /\ e.reason = r
    BY <1>4 DEF Stream!Event, EventRow
  <1> HIDE DEF e
  <1>7. /\ out' = out \o <<e>> /\ <<e>> \in Seq(EventRow) /\ Len(<<e>>) = 1
        /\ \A k \in DOMAIN <<e>> : k = 1 /\ <<e>>[k] = e
    BY <1>1, <1>6, OneEvent
  <1>8. /\ \A k \in DOMAIN <<e>> : <<e>>[k].kind = "done"
        /\ \A k \in DOMAIN <<e>> : /\ k = Len(<<e>>)
                                   /\ <<e>>[k].reason = "tool_use" => \A s \in Stream!Begun : Called(s)
    BY <1>5, <1>6, <1>7
  <1> QED
    BY <1>1, <1>2, <1>3, <1>7, <1>8, OtherRead

\* The finish reason of anthropic, and of openai where it is not for calls.
LEMMA ReasonRead ==
  ASSUME AnswerInv, wire # <<>>, wire' = Tail(wire), half' = FALSE,
         UNCHANGED <<vendor, progress, texts, ending, acc, out>>,
         NEW f, f = Head(wire), f.kind = "finish", finish' = f.reason,
         vendor = "anthropic" \/ f.reason # "tool_use"
  PROVE  AnswerInv'
  <1>1. AnswerTypes /\ f.kind \notin Pieces
    BY DEF AnswerInv, Pieces
  <1>2. /\ IsEnd(1) /\ f \in FrameRow
    BY HeadFacts
  <1>3. finish' \in {"other", "stop", "tool_use", "length"}
    BY <1>2 DEF FrameRow
  <1>4. ASSUME finish' = "tool_use", NEW s \in Stream!Begun
        PROVE  Called(s)
    <2>1. s \in Slots /\ Had(s) = Stream!Needed /\ vendor = "anthropic"
      BY <1>2, <1>4, HeadFacts
    <2>2. Stream!Needed = 4
      BY <2>1, VendorFrames DEF AnswerInv, AnswerTypes
    <2>3. acc[s].args \in {<<>>, <<1>>, <<1, 2>>}
      BY <1>1, <2>1 DEF AnswerTypes, AccRow
    <2>4. Len(acc[s].args) \in 0..2
      BY <2>3, ArgsGrow
    <2>5. Called(s) \/ Had(s) = Len(acc[s].args) + 1 \/ Had(s) = 0
      BY <2>1, Zenon DEF Had
    <2>6. ASSUME ~Called(s) PROVE FALSE
      <3>1. Had(s) = Len(acc[s].args) + 1 \/ Had(s) = 0
        BY <2>5, <2>6
      <3>2. \A a \in 0..2 : a + 1 # 4
        OBVIOUS
      <3>3. Had(s) = 4
        BY <2>1, <2>2
      <3>4. Len(acc[s].args) + 1 # 4
        BY <2>4, <3>2
      <3> QED
        BY <3>1, <3>3, <3>4
    <2> QED
      BY <2>6
  <1>5. ending # "none"
    BY <1>2, HeadFacts
  <1>6. <<>> \in Seq(EventRow) /\ out' = out \o <<>> /\ \A k \in DOMAIN <<>> : FALSE
    BY <1>1, NoEvent
  <1> QED
    BY <1>1, <1>3, <1>4, <1>5, <1>6, OtherRead

LEMMA BlockFrames ==
  ASSUME Stream!TypeOK, vendor = "anthropic", NEW n \in 1..Stream!Needed
  PROVE  /\ Stream!FramesOfCall[vendor][n] = "start" => n = 1
         /\ Stream!FramesOfCall[vendor][n] = "delta" => n = 2 \/ n = 3
         /\ Stream!FramesOfCall[vendor][n] = "stop" => n = 4
  <1>1. /\ Stream!Needed = 4
        /\ Stream!FramesOfCall[vendor][1] = "start" /\ Stream!FramesOfCall[vendor][2] = "delta"
        /\ Stream!FramesOfCall[vendor][3] = "delta" /\ Stream!FramesOfCall[vendor][4] = "stop"
    BY VendorFrames
  <1>2. n = 1 \/ n = 2 \/ n = 3 \/ n = 4
    BY <1>1
  <1> QED
    BY <1>1, <1>2, Zenon

\* A piece that is added to what its index holds.
LEMMA PieceRead ==
  ASSUME AnswerInv, wire # <<>>, wire' = Tail(wire), half' = FALSE,
         UNCHANGED <<vendor, progress, texts, ending, finish, out>>,
         NEW f, f = Head(wire), f.kind \in Pieces, vendor # "gemini",
         NEW a \in AccRow, a.held, acc' = [acc EXCEPT ![f.slot] = a],
         vendor = "openai" => a.args # <<>> /\ Len(a.args) = f.n,
         vendor = "anthropic" => Len(a.args) + 1 = f.n
  PROVE  AnswerInv'
  <1> DEFINE c == f.slot
  <1>1. AnswerTypes /\ acc \in [Slots -> AccRow] /\ vendor \in {"openai", "anthropic"}
    BY VendorFrames DEF AnswerInv, AnswerTypes
  <1>2. /\ c \in Slots /\ f.n \in Nat /\ ~Called(c)
        /\ \A s, n : IsPiece(1, s, n) <=> s = c /\ n = f.n
    BY HeadFacts
  <1>3. /\ acc' \in [Slots -> AccRow] /\ acc'[c] = a
        /\ \A s \in Slots : s # c => acc'[s] = acc[s]
    BY <1>1, <1>2
  <1> HIDE DEF c
  <1>4. /\ \A s : Called(s)' <=> Called(s)
        /\ Stream!Needed' = Stream!Needed
    BY DEF Called, Stream!Needed
  <1>5. \A s \in Slots : s # c => Had(s)' = Had(s)
    BY <1>3, <1>4 DEF Had
  <1>6. \A s : s = c => Had(s)' = f.n
    BY <1>1, <1>2, <1>3, <1>4 DEF Had
  <1>7. \A s \in Slots :
          /\ acc'[s].args # <<>> => acc'[s].held
          /\ vendor = "openai" /\ acc'[s].held => acc'[s].args # <<>>
          /\ Called(s)' \/ vendor = "gemini" => acc'[s] = Stream!NoAcc
    <2> TAKE s \in Slots
    <2>1. CASE s = c
      BY <1>2, <1>3, <1>4, <2>1
    <2>2. CASE s # c
      BY <1>3, <1>4, <2>2 DEF AnswerInv, SlotInv
    <2> QED
      BY <2>1, <2>2
  <1>8. <<>> \in Seq(EventRow) /\ out' = out \o <<>> /\ \A k \in DOMAIN <<>> : FALSE
    BY <1>1, NoEvent
  <1>9. /\ finish' \in {"other", "stop", "tool_use", "length"}
        /\ finish' = "tool_use" => ending # "none" /\ \A s \in Stream!Begun : Called(s)'
    BY <1>4 DEF AnswerInv, AnswerTypes, DoneInv, Stream!TypeOK
  <1>10. \A s \in Slots : \A n \in Nat : IsPiece(1, s, n) =>
           Had(s)' = n \/ (n > progress[s] /\ Had(s)' = Had(s))
    BY <1>2, <1>6
  <1>11. \A s \in Slots : (\A n \in Nat : ~IsPiece(1, s, n)) => Had(s)' = Had(s)
    BY <1>2, <1>5
  <1> QED
    BY <1>3, <1>7, <1>8, <1>9, <1>10, <1>11, FrameRead

LEMMA OpenAiPieceRead ==
  ASSUME AnswerInv, wire # <<>>, wire' = Tail(wire), half' = FALSE,
         UNCHANGED <<vendor, progress, texts, ending>>,
         NEW f, f = Head(wire), vendor = "openai", Stream!OpenAiPiece(f)
  PROVE  AnswerInv'
  <1> DEFINE c == f.slot
             a == [held |-> TRUE, args |-> Append(acc[c].args, f.n)]
  <1>1. /\ AnswerTypes /\ f.kind \in Pieces /\ acc' = [acc EXCEPT ![c] = a]
        /\ UNCHANGED <<finish, out>>
    BY DEF AnswerInv, Stream!OpenAiPiece, Stream!SlotOf, Pieces
  <1>2. /\ c \in Slots /\ f.n \in Nat /\ ~Called(c)
        /\ f.n \in 1..Stream!Needed /\ f.n <= progress[c] /\ Had(c) = f.n - 1
    BY <1>1, HeadFacts
  <1>3. Stream!Needed = 2
    BY <1>1, VendorFrames DEF AnswerTypes
  <1>4. Had(c) = Len(acc[c].args) /\ acc[c].args \in {<<>>, <<1>>, <<1, 2>>}
    BY <1>1, <1>2 DEF Had, AnswerTypes, AccRow
  <1>5. \/ f.n = 1 /\ acc[c].args = <<>>
        \/ f.n = 2 /\ acc[c].args = <<1>>
    BY <1>2, <1>3, <1>4, ArgsGrow
  <1>6. \/ f.n = 1 /\ Append(acc[c].args, f.n) = <<1>>
        \/ f.n = 2 /\ Append(acc[c].args, f.n) = <<1, 2>>
    BY <1>5, ArgsGrow
  <1>7. a \in AccRow /\ a.held /\ a.args # <<>> /\ Len(a.args) = f.n
    BY <1>6, ArgsGrow DEF AccRow
  <1> HIDE DEF a
  <1> QED
    BY <1>1, <1>7, PieceRead

LEMMA BlockStartRead ==
  ASSUME AnswerInv, wire # <<>>, wire' = Tail(wire), half' = FALSE,
         UNCHANGED <<vendor, progress, texts, ending>>,
         NEW f, f = Head(wire), vendor = "anthropic", Stream!BlockStart(f)
  PROVE  AnswerInv'
  <1> DEFINE a == [held |-> TRUE, args |-> <<>>]
  <1>1. /\ AnswerTypes /\ f.kind = "start" /\ f.kind \in Pieces /\ acc' = [acc EXCEPT ![f.slot] = a]
        /\ UNCHANGED <<finish, out>>
    BY DEF AnswerInv, Stream!BlockStart, Stream!SlotOf, Pieces
  <1>2. f.n \in 1..Stream!Needed /\ f.kind = Stream!FramesOfCall[vendor][f.n]
    BY <1>1, HeadFacts
  <1>3. f.n = 1
    BY <1>1, <1>2, BlockFrames DEF AnswerTypes
  <1>4. a \in AccRow /\ a.held /\ Len(a.args) + 1 = f.n
    BY <1>3, ArgsGrow DEF AccRow
  <1> HIDE DEF a
  <1> QED
    BY <1>1, <1>4, PieceRead

LEMMA BlockDeltaRead ==
  ASSUME AnswerInv, wire # <<>>, wire' = Tail(wire), half' = FALSE,
         UNCHANGED <<vendor, progress, texts, ending>>,
         NEW f, f = Head(wire), vendor = "anthropic", Stream!BlockDelta(f)
  PROVE  AnswerInv'
  <1> DEFINE c == f.slot
             a == [held |-> acc[c].held, args |-> Append(acc[c].args, f.n - 1)]
  <1>1. /\ AnswerTypes /\ f.kind = "delta" /\ f.kind \in Pieces
        /\ acc' = [acc EXCEPT ![c].args =
                     IF acc[c].held THEN Append(acc[c].args, f.n - 1) ELSE acc[c].args]
        /\ UNCHANGED <<finish, out>>
    BY DEF AnswerInv, Stream!BlockDelta, Stream!SlotOf, Pieces
  <1>2. /\ c \in Slots /\ f.n \in Nat /\ ~Called(c)
        /\ f.n \in 1..Stream!Needed /\ f.kind = Stream!FramesOfCall[vendor][f.n]
        /\ f.n <= progress[c] \/ f.n = 4
        /\ f.n <= progress[c] => Had(c) = f.n - 1
    BY <1>1, HeadFacts
  <1>3. f.n \in {2, 3}
    BY <1>1, <1>2, BlockFrames DEF AnswerTypes
  <1>4. Had(c) = f.n - 1 /\ Had(c) # 0
    BY <1>2, <1>3
  <1>5. /\ acc[c].held /\ acc[c].held = TRUE /\ Had(c) = Len(acc[c].args) + 1
        /\ acc[c].args \in {<<>>, <<1>>, <<1, 2>>}
        /\ acc[c] \in AccRow
    <2>1. acc[c] \in AccRow
      BY <1>1, <1>2 DEF AnswerTypes
    <2>2. acc[c].held /\ Had(c) = Len(acc[c].args) + 1
      BY <1>2, <1>4, Zenon DEF Had
    <2> QED
      BY <2>1, <2>2 DEF AccRow
  <1>6. \/ f.n = 2 /\ acc[c].args = <<>>
        \/ f.n = 3 /\ acc[c].args = <<1>>
    BY <1>3, <1>4, <1>5, ArgsGrow
  <1>7. \/ f.n = 2 /\ Append(acc[c].args, f.n - 1) = <<1>>
        \/ f.n = 3 /\ Append(acc[c].args, f.n - 1) = <<1, 2>>
    <2>1. (f.n = 2 => f.n - 1 = 1) /\ (f.n = 3 => f.n - 1 = 2)
      OBVIOUS
    <2> QED
      BY <1>6, <2>1, ArgsGrow, Zenon
  <1>8. a \in AccRow /\ a.held /\ Len(a.args) + 1 = f.n
    <2> DEFINE b == Append(acc[c].args, f.n - 1)
    <2>1. a.held = acc[c].held /\ a.args = b /\ a = [held |-> acc[c].held, args |-> b]
      OBVIOUS
    <2>2. (f.n = 2 /\ b = <<1>>) \/ (f.n = 3 /\ b = <<1, 2>>)
      BY <1>7
    <2> HIDE DEF a, b
    <2>3. b \in {<<>>, <<1>>, <<1, 2>>}
      BY <2>2
    <2>4. CASE f.n = 2 /\ b = <<1>>
      BY <1>5, <2>1, <2>3, <2>4, ArgsGrow DEF AccRow
    <2>5. CASE f.n = 3 /\ b = <<1, 2>>
      BY <1>5, <2>1, <2>3, <2>5, ArgsGrow DEF AccRow
    <2> QED
      BY <2>2, <2>4, <2>5
  <1>9. acc' = [acc EXCEPT ![c] = a]
    <2> DEFINE b == Append(acc[c].args, f.n - 1)
    <2>1. acc' = [acc EXCEPT ![c].args = b]
      BY <1>1, <1>5
    <2> HIDE DEF b
    <2>2. [acc[c] EXCEPT !.args = b] = [held |-> acc[c].held, args |-> b]
      <3>1. acc[c] = [held |-> acc[c].held, args |-> acc[c].args]
        BY <1>5 DEF AccRow
      <3>2. \A h, x : [[held |-> h, args |-> x] EXCEPT !.args = b] = [held |-> h, args |-> b]
        OBVIOUS
      <3> QED
        BY <3>1, <3>2
    <2>3. [acc EXCEPT ![c].args = b] = [acc EXCEPT ![c] = [acc[c] EXCEPT !.args = b]]
      OBVIOUS
    <2> QED
      BY <2>1, <2>2, <2>3 DEF b
  <1> HIDE DEF a
  <1> QED
    BY <1>1, <1>8, <1>9, PieceRead

LEMMA ArgsLength ==
  ASSUME NEW x
  PROVE  /\ Len(x) = 2 => x # <<>> /\ x # <<1>>
         /\ x = <<1>> \/ x = <<1, 2>> => Len(x) > 0
  <1>1. Len(<<>>) = 0 /\ Len(<<1>>) = 1 /\ Len(<<1, 2>>) = 2
    OBVIOUS
  <1>2. 0 # 2 /\ 1 # 2 /\ 1 > 0 /\ 2 > 0
    OBVIOUS
  <1> QED
    BY <1>1, <1>2, Zenon

\* The last piece of a call, with which it leaves.
LEMMA CallRead ==
  ASSUME AnswerInv, wire # <<>>, wire' = Tail(wire), half' = FALSE,
         UNCHANGED <<vendor, progress, texts, ending, finish>>,
         NEW f, f = Head(wire), f.kind \in Pieces, f.n = Stream!Needed,
         NEW e \in EventRow, e.kind = "call", e.slot = f.slot, out' = Append(out, e),
         acc' = [acc EXCEPT ![f.slot] = Stream!NoAcc],
         \/ Stream!Parses(e.args)
         \/ e.args = <<>> /\ progress[f.slot] < Stream!Needed /\ ending # "none"
  PROVE  AnswerInv'
  <1> DEFINE c == f.slot
             es == <<e>>
  <1>1. AnswerTypes /\ acc \in [Slots -> AccRow]
    BY DEF AnswerInv, AnswerTypes
  <1>2. /\ c \in Slots /\ f.n \in Nat /\ ~Called(c) /\ ~IsEnd(1)
        /\ \A s, n : IsPiece(1, s, n) <=> s = c /\ n = f.n
        /\ \A j, m \in Nat : IsPiece(j, c, m) => j = 1
    BY HeadFacts DEF Pieces
  <1>3. /\ acc' \in [Slots -> AccRow] /\ acc'[c] = Stream!NoAcc
        /\ \A s \in Slots : s # c => acc'[s] = acc[s]
    <2>1. Stream!NoAcc \in AccRow
      BY DEF Stream!NoAcc, AccRow
    <2> QED
      BY <1>1, <1>2, <2>1
  <1>4. /\ es \in Seq(EventRow) /\ out' = out \o es
        /\ Len(es) = 1 /\ DOMAIN es = {1} /\ es[1] = e
    BY <1>1, OneEvent
  <1> HIDE DEF c, es
  <1>5. \A s : Called(s)' <=> Called(s) \/ s = c
    <2>1. \A s : Called(s)' <=> (Called(s) \/ \E k \in DOMAIN es : es[k].kind = "call" /\ es[k].slot = s)
      BY <1>1, <1>4, CalledGrows
    <2> QED
      BY <1>4, <2>1 DEF c
  <1>6. Stream!Needed' = Stream!Needed
    BY DEF Stream!Needed
  <1>7. \A s \in Slots : s # c => Had(s)' = Had(s)
    BY <1>3, <1>5, <1>6 DEF Had
  <1>8. \A s : s = c => Had(s)' = f.n
    BY <1>5, <1>6 DEF Had
  <1>9. \A s \in Slots :
          /\ acc'[s].args # <<>> => acc'[s].held
          /\ vendor = "openai" /\ acc'[s].held => acc'[s].args # <<>>
          /\ Called(s)' \/ vendor = "gemini" => acc'[s] = Stream!NoAcc
    <2> TAKE s \in Slots
    <2>1. CASE s = c
      BY <1>3, <2>1 DEF Stream!NoAcc
    <2>2. CASE s # c
      BY <1>3, <1>5, <2>2 DEF AnswerInv, SlotInv
    <2> QED
      BY <2>1, <2>2
  <1>10. /\ finish' \in {"other", "stop", "tool_use", "length"}
         /\ finish' = "tool_use" => ending # "none" /\ \A s \in Stream!Begun : Called(s)'
    BY <1>5 DEF AnswerInv, AnswerTypes, DoneInv, Stream!TypeOK
  <1>11. \A s \in Slots : \A n \in Nat : IsPiece(1, s, n) =>
           Had(s)' = n \/ (n > progress[s] /\ Had(s)' = Had(s))
    BY <1>2, <1>8
  <1>12. \A s \in Slots : (\A n \in Nat : ~IsPiece(1, s, n)) => Had(s)' = Had(s)
    BY <1>2, <1>7
  <1>13. \A k \in DOMAIN es : es[k].kind = "call" =>
           /\ es[k].slot \in Slots /\ ~Called(es[k].slot)
           /\ \A j, m \in Nat : IsPiece(j, es[k].slot, m) => j = 1
           /\ \/ Stream!Parses(es[k].args)
              \/ es[k].args = <<>> /\ progress[es[k].slot] < Stream!Needed /\ ending # "none"
           /\ \A l \in DOMAIN es : es[l].kind = "call" /\ es[l].slot = es[k].slot => l = k
    BY <1>2, <1>4 DEF c
  <1>14. /\ \A k \in DOMAIN es : es[k].kind \in {"done", "error"} \/ vendor # "gemini" \/ ~IsEnd(1)
         /\ \A k \in DOMAIN es : es[k].kind # "done"
    BY <1>2, <1>4
  <1> QED
    BY <1>3, <1>4, <1>9, <1>10, <1>11, <1>12, <1>13, <1>14, FrameRead

LEMMA GeminiCallRead ==
  ASSUME AnswerInv, wire # <<>>, wire' = Tail(wire), half' = FALSE,
         UNCHANGED <<vendor, progress, texts, ending>>,
         NEW f, f = Head(wire), vendor = "gemini", Stream!GeminiCall(f)
  PROVE  AnswerInv'
  <1> DEFINE e == Stream!Event("call", f.slot, <<1, 2>>, "none")
  <1>1. /\ AnswerTypes /\ f.kind \in Pieces /\ out' = Append(out, e)
        /\ UNCHANGED <<acc, finish>>
    BY DEF AnswerInv, Stream!GeminiCall, Pieces
  <1>2. /\ f.slot \in Slots /\ f.n \in 1..Stream!Needed
    BY <1>1, HeadFacts
  <1>3. f.n = Stream!Needed
    BY <1>1, <1>2, VendorFrames DEF AnswerTypes
  <1>4. acc' = [acc EXCEPT ![f.slot] = Stream!NoAcc]
    <2>1. acc[f.slot] = Stream!NoAcc
      BY <1>2 DEF AnswerInv, SlotInv
    <2> QED
      BY <1>1, <1>2, <2>1 DEF AnswerTypes
  <1>5. e \in EventRow /\ e.kind = "call" /\ e.slot = f.slot /\ Stream!Parses(e.args)
    BY <1>2, StreamConstants DEF Stream!Event, EventRow, Stream!Parses
  <1> HIDE DEF e
  <1> QED
    BY <1>1, <1>3, <1>4, <1>5, CallRead

LEMMA BlockStopRead ==
  ASSUME AnswerInv, wire # <<>>, wire' = Tail(wire), half' = FALSE,
         UNCHANGED <<vendor, progress, texts, ending>>,
         NEW f, f = Head(wire), vendor = "anthropic", Stream!BlockStop(f)
  PROVE  AnswerInv'
  <1> DEFINE c == f.slot
             e == Stream!Call(c)
  <1>1. /\ AnswerTypes /\ f.kind = "stop" /\ f.kind \in Pieces
        /\ out' = IF acc[c].held THEN Append(out, e) ELSE out
        /\ acc' = [acc EXCEPT ![c] = Stream!NoAcc] /\ finish' = finish
    BY DEF AnswerInv, Stream!BlockStop, Stream!SlotOf, Pieces
  <1>2. /\ c \in Slots /\ f.n \in Nat /\ ~Called(c) /\ Had(c) < f.n
        /\ f.n \in 1..Stream!Needed /\ f.kind = Stream!FramesOfCall[vendor][f.n]
        /\ f.n <= progress[c] \/ ending # "none"
        /\ f.n <= progress[c] => Had(c) = f.n - 1
        /\ \A s, n : IsPiece(1, s, n) <=> s = c /\ n = f.n
    BY <1>1, HeadFacts
  <1>3. f.n = 4 /\ Stream!Needed = 4 /\ progress[c] \in Nat
    BY <1>1, <1>2, BlockFrames, VendorFrames DEF AnswerTypes
  <1>4. acc[c].args \in {<<>>, <<1>>, <<1, 2>>} /\ acc[c] \in AccRow
    BY <1>1, <1>2 DEF AnswerTypes, AccRow
  <1>5. f.n <= progress[c] => acc[c].held /\ acc[c].args = <<1, 2>>
    <2> SUFFICES ASSUME f.n <= progress[c]
                 PROVE  acc[c].held /\ acc[c].args = <<1, 2>>
      OBVIOUS
    <2>1. Had(c) = 3
      BY <1>2, <1>3
    <2>2. acc[c].held /\ Had(c) = Len(acc[c].args) + 1
      <3>1. Had(c) # 0
        BY <2>1
      <3> QED
        BY <1>2, <3>1, Zenon DEF Had
    <2>3. Len(acc[c].args) \in Nat /\ Len(acc[c].args) + 1 = 3
      BY <1>4, <2>1, <2>2, ArgsGrow, HadTyped, <1>1, <1>2
    <2>4. Len(acc[c].args) = 2
      <3>1. \A a \in Nat : a + 1 = 3 => a = 2
        OBVIOUS
      <3> QED
        BY <2>3, <3>1
    <2>5. acc[c].args # <<>> /\ acc[c].args # <<1>>
      BY <2>4, ArgsLength, Zenon
    <2>6. acc[c].args = <<1, 2>>
      BY <1>4, <2>5
    <2> QED
      BY <2>2, <2>6
  <1>6. CASE acc[c].held
    <2>1. out' = Append(out, e)
      BY <1>1, <1>6
    <2>2. /\ e \in EventRow /\ e.kind = "call" /\ e.slot = c
          /\ Stream!Parses(e.args) \/ (e.args = <<>> /\ ~Stream!Parses(acc[c].args))
      <3>1. c \in Nat
        BY <1>2, StreamConstants
      <3>2. CASE Stream!Parses(acc[c].args)
        BY <3>1, <3>2 DEF Stream!Call, Stream!Event, EventRow, Stream!Parses
      <3>3. CASE ~Stream!Parses(acc[c].args)
        BY <3>1, <3>3 DEF Stream!Call, Stream!Event, EventRow, Stream!Parses
      <3> QED
        BY <3>2, <3>3
    <2>3. ~Stream!Parses(acc[c].args) => progress[c] < Stream!Needed /\ ending # "none"
      BY <1>2, <1>3, <1>5 DEF Stream!Parses
    <2> HIDE DEF e
    <2> QED
      BY <1>1, <1>3, <2>1, <2>2, <2>3, CallRead
  <1>7. CASE ~acc[c].held
    <2>1. out' = out /\ f.n > progress[c]
      BY <1>1, <1>2, <1>3, <1>5, <1>7
    <2>2. \A s : (Called(s)' <=> Called(s)) /\ Stream!Needed' = Stream!Needed
      BY <2>1 DEF Called, Stream!Needed
    <2>3. /\ acc' \in [Slots -> AccRow] /\ acc'[c] = Stream!NoAcc
          /\ \A s \in Slots : s # c => acc'[s] = acc[s]
      <3>1. Stream!NoAcc \in AccRow
        BY DEF Stream!NoAcc, AccRow
      <3> QED
        BY <1>1, <1>2, <3>1 DEF AnswerTypes
    <2>4. \A s \in Slots : Had(s)' = Had(s)
      <3> TAKE s \in Slots
      <3>1. CASE s = c
        <4>1. ~acc'[c].held
          BY <2>3 DEF Stream!NoAcc
        <4> QED
          BY <1>7, <2>2, <3>1, <4>1 DEF Had
      <3>2. CASE s # c
        BY <2>2, <2>3, <3>2 DEF Had
      <3> QED
        BY <3>1, <3>2
    <2>5. \A s \in Slots :
            /\ acc'[s].args # <<>> => acc'[s].held
            /\ vendor = "openai" /\ acc'[s].held => acc'[s].args # <<>>
            /\ Called(s)' \/ vendor = "gemini" => acc'[s] = Stream!NoAcc
      <3> TAKE s \in Slots
      <3>1. CASE s = c
        BY <2>3, <3>1 DEF Stream!NoAcc
      <3>2. CASE s # c
        BY <2>2, <2>3, <3>2 DEF AnswerInv, SlotInv
      <3> QED
        BY <3>1, <3>2
    <2>6. <<>> \in Seq(EventRow) /\ out' = out \o <<>> /\ \A k \in DOMAIN <<>> : FALSE
      BY <1>1, <2>1, NoEvent
    <2>7. /\ finish' \in {"other", "stop", "tool_use", "length"}
          /\ finish' = "tool_use" => ending # "none" /\ \A s \in Stream!Begun : Called(s)'
      BY <1>1, <2>2 DEF AnswerInv, AnswerTypes, DoneInv, Stream!TypeOK
    <2>8. \A s \in Slots : \A n \in Nat : IsPiece(1, s, n) =>
            Had(s)' = n \/ (n > progress[s] /\ Had(s)' = Had(s))
      BY <1>2, <2>1, <2>4
    <2> QED
      BY <2>3, <2>4, <2>5, <2>6, <2>7, <2>8, FrameRead
  <1> QED
    BY <1>6, <1>7

\* The calls that leave together, in the order of their indexes.
LEMMA CallsTogether ==
  ASSUME AnswerTypes, NEW S \in SUBSET Slots, \A s \in S : Stream!Parses(acc[s].args)
  PROVE  LET es == Stream!Calls(S) IN
           /\ es \in Seq(EventRow)
           /\ \A k \in DOMAIN es :
                /\ es[k].kind = "call" /\ es[k].slot \in S /\ Stream!Parses(es[k].args)
                /\ \A l \in DOMAIN es : es[l].slot = es[k].slot => l = k
           /\ \A s \in S : \E k \in DOMAIN es : es[k].slot = s
  <1> DEFINE n == Cardinality(S)
             es == [i \in 1..n |-> Stream!Call(At(S, i))]
  <1>1. Stream!Calls(S) = es
    BY DEF Stream!Calls, Stream!Cardinality, Cardinality, At, Below
  <1>2. /\ n \in Nat
        /\ \A i \in 1..n : At(S, i) \in S
        /\ \A i, j \in 1..n : At(S, i) = At(S, j) => i = j
        /\ \A s \in S : \E i \in 1..n : At(S, i) = s
    BY Ranked
  <1> HIDE DEF n
  <1>3. \A s \in S :
          /\ Stream!Call(s) \in EventRow /\ Stream!Call(s).kind = "call"
          /\ Stream!Call(s).slot = s /\ Stream!Parses(Stream!Call(s).args)
    <2> TAKE s \in S
    <2>1. s \in Nat
      BY StreamConstants
    <2>2. Stream!Parses(acc[s].args)
      OBVIOUS
    <2>3. Stream!Call(s) = Stream!Event("call", s, acc[s].args, "none")
      BY <2>2 DEF Stream!Call
    <2> QED
      BY <2>1, <2>2, <2>3 DEF Stream!Event, EventRow, Stream!Parses
  <1>4. /\ DOMAIN es = 1..n
        /\ \A i \in 1..n : es[i] = Stream!Call(At(S, i))
    OBVIOUS
  <1>5. es \in Seq(EventRow)
    BY <1>2, <1>3
  <1> HIDE DEF es
  <1>6. \A k \in DOMAIN es :
          /\ es[k].kind = "call" /\ es[k].slot = At(S, k) /\ At(S, k) \in S /\ Stream!Parses(es[k].args)
    BY <1>2, <1>3, <1>4
  <1>7. \A k, l \in DOMAIN es : es[l].slot = es[k].slot => l = k
    BY <1>2, <1>4, <1>6
  <1>8. \A s \in S : \E k \in DOMAIN es : es[k].slot = s
    BY <1>2, <1>4, <1>6
  <1>9. \A k \in DOMAIN es : es[k].slot \in S
    BY <1>6
  <1> QED
    BY <1>1, <1>5, <1>6, <1>7, <1>8, <1>9

LEMMA OpenAiFinishRead ==
  ASSUME AnswerInv, wire # <<>>, wire' = Tail(wire), half' = FALSE,
         UNCHANGED <<vendor, progress, texts, ending>>,
         NEW f, f = Head(wire), vendor = "openai", Stream!OpenAiFinish(f), f.reason = "tool_use"
  PROVE  AnswerInv'
  <1> DEFINE S == {s \in Slots : acc[s].held}
             es == Stream!Calls(S)
  <1>1. /\ AnswerTypes /\ f.kind = "finish" /\ finish' = "tool_use"
        /\ out' = out \o es /\ acc' = [s \in Slots |-> Stream!NoAcc]
    BY DEF AnswerInv, Stream!OpenAiFinish
  <1>2. /\ IsEnd(1) /\ ending # "none"
        /\ \A j, s, m : ~IsPiece(j, s, m)
        /\ \A s \in Stream!Begun : s \in Slots /\ Had(s) = Stream!Needed
    BY <1>1, HeadFacts
  <1>3. Stream!Needed = 2
    BY <1>1, VendorFrames DEF AnswerTypes
  <1>4. \A s \in Slots :
          /\ acc[s].args \in {<<>>, <<1>>, <<1, 2>>}
          /\ acc[s].held => acc[s].args # <<>> /\ ~Called(s)
          /\ acc[s].args # <<>> => acc[s].held
          /\ Had(s) > 0 => progress[s] > 0
    BY <1>1 DEF AnswerInv, AnswerTypes, AccRow, SlotInv, Stream!NoAcc
  <1>5. \A s \in Slots : ~Called(s) => Had(s) = Len(acc[s].args)
    BY DEF Had
  <1>6. ASSUME NEW s \in S
        PROVE  Stream!Parses(acc[s].args) /\ Had(s) = 2
    <2>1. /\ ~Called(s) /\ Had(s) = Len(acc[s].args)
          /\ acc[s].args = <<1>> \/ acc[s].args = <<1, 2>>
      BY <1>4, <1>5
    <2>2. Had(s) > 0
      <3>1. Len(acc[s].args) > 0
        BY <2>1, ArgsLength, Zenon
      <3> QED
        BY <2>1, <3>1, Zenon
    <2>3. s \in Stream!Begun
      BY <1>4, <2>2 DEF Stream!Begun
    <2>4. Len(acc[s].args) = 2 /\ Had(s) = 2
      BY <1>2, <1>3, <2>1, <2>3
    <2>5. acc[s].args # <<1>>
      BY <2>4, ArgsLength, Zenon
    <2> QED
      BY <2>1, <2>4, <2>5 DEF Stream!Parses
  <1>7. \A s \in Slots : ~Called(s) /\ s \notin S => Had(s) = 0
    <2> TAKE s \in Slots
    <2> HAVE ~Called(s) /\ s \notin S
    <2>1. acc[s].args = <<>>
      BY <1>4
    <2> QED
      BY <1>5, <2>1, ArgsGrow
  <1> HIDE DEF S
  <1>8. S \in SUBSET Slots /\ \A s \in S : ~Called(s)
    BY <1>4 DEF S
  <1>9. /\ es \in Seq(EventRow)
        /\ \A k \in DOMAIN es :
             /\ es[k].kind = "call" /\ es[k].slot \in S /\ Stream!Parses(es[k].args)
             /\ \A l \in DOMAIN es : es[l].slot = es[k].slot => l = k
        /\ \A s \in S : \E k \in DOMAIN es : es[k].slot = s
    BY <1>1, <1>6, <1>8, CallsTogether
  <1> HIDE DEF es
  <1>10. \A s : Called(s)' <=> Called(s) \/ s \in S
    <2>1. \A s : Called(s)' <=> (Called(s) \/ \E k \in DOMAIN es : es[k].kind = "call" /\ es[k].slot = s)
      BY <1>1, <1>9, CalledGrows
    <2> QED
      BY <1>9, <2>1
  <1>11. acc' \in [Slots -> AccRow] /\ \A s \in Slots : acc'[s] = Stream!NoAcc
    <2>1. Stream!NoAcc \in AccRow
      BY DEF Stream!NoAcc, AccRow
    <2> QED
      BY <1>1, <2>1
  <1>12. \A s \in Slots : Had(s)' = Had(s)
    <2> TAKE s \in Slots
    <2>1. Stream!Needed' = 2
      BY <1>3 DEF Stream!Needed
    <2>2. CASE Called(s) \/ s \in S
      <3>1. Called(s)' /\ Had(s)' = 2
        BY <1>10, <2>1, <2>2 DEF Had
      <3>2. Had(s) = 2
        BY <1>3, <1>6, <2>2 DEF Had
      <3> QED
        BY <3>1, <3>2
    <2>3. CASE ~Called(s) /\ s \notin S
      <3>1. ~Called(s)' /\ acc'[s].args = <<>>
        BY <1>10, <1>11, <2>3 DEF Stream!NoAcc
      <3>2. Had(s)' = Len(acc'[s].args)
        BY <3>1 DEF Had
      <3> QED
        BY <1>7, <2>3, <3>1, <3>2, ArgsGrow
    <2> QED
      BY <2>2, <2>3
  <1>13. \A s \in Stream!Begun : Called(s)'
    <2> TAKE s \in Stream!Begun
    <2>1. s \in Slots /\ Had(s) = 2
      BY <1>2, <1>3
    <2>2. Called(s) \/ s \in S
      BY <1>7, <2>1
    <2> QED
      BY <1>10, <2>2
  <1>14. \A s \in Slots :
          /\ acc'[s].args # <<>> => acc'[s].held
          /\ vendor = "openai" /\ acc'[s].held => acc'[s].args # <<>>
          /\ Called(s)' \/ vendor = "gemini" => acc'[s] = Stream!NoAcc
    BY <1>11 DEF Stream!NoAcc
  <1>15. \A k \in DOMAIN es : es[k].kind = "call" =>
           /\ es[k].slot \in Slots /\ ~Called(es[k].slot)
           /\ \A j, m \in Nat : IsPiece(j, es[k].slot, m) => j = 1
           /\ \/ Stream!Parses(es[k].args)
              \/ es[k].args = <<>> /\ progress[es[k].slot] < Stream!Needed /\ ending # "none"
           /\ \A l \in DOMAIN es : es[l].kind = "call" /\ es[l].slot = es[k].slot => l = k
    BY <1>2, <1>8, <1>9
  <1>16. /\ \A k \in DOMAIN es : es[k].kind \in {"done", "error"} \/ vendor # "gemini" \/ ~IsEnd(1)
         /\ \A k \in DOMAIN es : es[k].kind # "done"
    BY <1>9
  <1> QED
    BY <1>1, <1>2, <1>9, <1>11, <1>12, <1>13, <1>14, <1>15, <1>16, FrameRead

\* Each frame that a vendor sends is read as it should be.
LEMMA ReadFrameStep ==
  ASSUME AnswerInv, Stream!ReadFrame
  PROVE  AnswerInv'
  <1> DEFINE f == Head(wire)
  <1>1. /\ wire # <<>> /\ wire' = Tail(wire) /\ half' = FALSE
        /\ UNCHANGED <<vendor, progress, texts, ending>>
    BY DEF Stream!ReadFrame
  <1>2. \/ Stream!Text(f)
        \/ vendor = "openai" /\ (Stream!OpenAiPiece(f) \/ Stream!OpenAiFinish(f) \/ Stream!OpenAiDone(f))
        \/ /\ vendor = "anthropic"
           /\ \/ Stream!BlockStart(f) \/ Stream!BlockDelta(f) \/ Stream!BlockStop(f)
              \/ Stream!MessageDelta(f) \/ Stream!MessageStop(f)
        \/ vendor = "gemini" /\ (Stream!GeminiCall(f) \/ Stream!GeminiFinish(f))
    BY DEF Stream!ReadFrame
  <1> HIDE DEF f
  <1>3. f = Head(wire)
    BY DEF f
  <1>4. CASE Stream!Text(f)
    BY <1>1, <1>3, <1>4, TextRead
  <1>5. CASE vendor = "openai" /\ Stream!OpenAiPiece(f)
    BY <1>1, <1>3, <1>5, OpenAiPieceRead
  <1>6. CASE vendor = "openai" /\ Stream!OpenAiFinish(f)
    <2>1. CASE f.reason = "tool_use"
      BY <1>1, <1>3, <1>6, <2>1, OpenAiFinishRead
    <2>2. CASE f.reason # "tool_use"
      <3>1. f.kind = "finish" /\ finish' = f.reason /\ UNCHANGED <<acc, out>>
        BY <1>6, <2>2 DEF Stream!OpenAiFinish
      <3> QED
        BY <1>1, <1>3, <2>2, <3>1, ReasonRead
    <2> QED
      BY <2>1, <2>2
  <1>7. CASE (vendor = "openai" /\ Stream!OpenAiDone(f)) \/ (vendor = "anthropic" /\ Stream!MessageStop(f))
    <2>1. vendor # "gemini" /\ f.kind = "end" /\ Stream!Done(finish) /\ UNCHANGED <<acc, finish>>
      BY <1>7 DEF Stream!OpenAiDone, Stream!MessageStop
    <2> QED
      BY <1>1, <1>3, <2>1, DoneRead
  <1>8. CASE vendor = "anthropic" /\ Stream!BlockStart(f)
    BY <1>1, <1>3, <1>8, BlockStartRead
  <1>9. CASE vendor = "anthropic" /\ Stream!BlockDelta(f)
    BY <1>1, <1>3, <1>9, BlockDeltaRead
  <1>10. CASE vendor = "anthropic" /\ Stream!BlockStop(f)
    BY <1>1, <1>3, <1>10, BlockStopRead
  <1>11. CASE vendor = "anthropic" /\ Stream!MessageDelta(f)
    <2>1. f.kind = "finish" /\ finish' = f.reason /\ UNCHANGED <<acc, out>>
      BY <1>11 DEF Stream!MessageDelta
    <2> QED
      BY <1>1, <1>3, <1>11, <2>1, ReasonRead
  <1>12. CASE vendor = "gemini" /\ Stream!GeminiCall(f)
    BY <1>1, <1>3, <1>12, GeminiCallRead
  <1>13. CASE vendor = "gemini" /\ Stream!GeminiFinish(f)
    BY <1>1, <1>3, <1>13, GeminiFinishRead
  <1> QED
    BY <1>2, <1>4, <1>5, <1>6, <1>7, <1>8, <1>9, <1>10, <1>11, <1>12, <1>13

LEMMA AnswerStep ==
  ASSUME AnswerInv, [Stream!Next]_answerVars
  PROVE  AnswerInv'
  <1>1. CASE Stream!SendText
    BY <1>1, SendTextStep
  <1>2. CASE Stream!SendFinish
    BY <1>2, SendFinishStep
  <1>3. CASE Stream!SendEnd
    BY <1>3, SendEndStep
  <1>4. CASE Stream!Break
    BY <1>4, BreakStep
  <1>5. CASE Stream!ReadPart
    BY <1>5, ReadPartStep
  <1>6. CASE Stream!ReadFrame
    BY <1>6, ReadFrameStep
  <1>7. CASE \E s \in Slots : Stream!SendCall(s)
    BY <1>7, SendCallStep
  <1>8. CASE UNCHANGED answerVars
    BY <1>8, ReadPartStep DEF answerVars, Stream!streamVars
  <1> QED
    BY <1>1, <1>2, <1>3, <1>4, <1>5, <1>6, <1>7, <1>8 DEF Stream!Next

LEMMA InitAnswer == Stream!Init => AnswerInv
  <1> SUFFICES ASSUME Stream!Init
               PROVE  AnswerInv
    OBVIOUS
  <1>1. /\ vendor \in {"openai", "anthropic", "gemini"}
        /\ progress = [s \in Slots |-> 0] /\ texts = 0 /\ ending = "none"
        /\ wire = <<>> /\ half = FALSE
        /\ acc = [s \in Slots |-> Stream!NoAcc] /\ finish = "other" /\ out = <<>>
    BY DEF Stream!Init, Stream!FramesOfCall
  <1>2. /\ \A i : i \notin DOMAIN wire /\ i \notin DOMAIN out
        /\ wire \in Seq(FrameRow) /\ out \in Seq(EventRow) /\ half \in BOOLEAN
    <2>1. <<>> \in Seq(FrameRow) /\ <<>> \in Seq(EventRow) /\ DOMAIN <<>> = {} /\ FALSE \in BOOLEAN
      OBVIOUS
    <2> QED
      BY <1>1, <2>1, Zenon
  <1>3. /\ progress \in [Slots -> Nat] /\ progress \in [Slots -> 0..4]
        /\ \A s \in Slots : progress[s] = 0
    BY <1>1
  <1>4. acc \in [Slots -> AccRow] /\ \A s \in Slots : acc[s] = Stream!NoAcc
    <2>1. Stream!NoAcc \in AccRow
      BY DEF Stream!NoAcc, AccRow
    <2> QED
      BY <1>1, <2>1
  <1>5. Stream!TypeOK
    <2>1. vendor \in DOMAIN Stream!FramesOfCall /\ texts \in 0..MaxTexts
      BY <1>1, StreamConstants DEF Stream!FramesOfCall
    <2>2. \A s \in Slots : acc[s].held \in BOOLEAN
      BY <1>4 DEF AccRow
    <2> QED
      BY <1>1, <1>2, <1>3, <2>1, <2>2 DEF Stream!TypeOK
  <1>6. /\ \A s : ~Called(s)
        /\ \A i, s, n : ~IsPiece(i, s, n) /\ ~IsEnd(i)
    BY <1>2 DEF Called, IsPiece, IsEnd
  <1>7. \A s \in Slots : Had(s) = 0
    <2> TAKE s \in Slots
    <2>1. acc[s].args = <<>> /\ ~acc[s].held
      BY <1>4 DEF Stream!NoAcc
    <2> QED
      BY <1>6, <2>1, ArgsGrow DEF Had
  <1>8. AnswerTypes
    BY <1>2, <1>3, <1>4, <1>5, VendorFrames DEF AnswerTypes
  <1>9. \A s \in Slots : SlotInv(s)
    BY <1>1, <1>3, <1>4, <1>7 DEF SlotInv, Stream!NoAcc
  <1>10. DoneInv /\ Stream!CallsArriveWhole
    BY <1>1, <1>2 DEF DoneInv, Stream!CallsIn, Stream!CallsArriveWhole
  <1> QED
    BY <1>6, <1>8, <1>9, <1>10 DEF AnswerInv, PieceInv, EndInv


-----------------------------------------------------------------------------
(* The composition: a step of one part leaves the others alone.            *)

SurroundingsInv ==
  RosterInv /\ ToolsInv /\ PlanInv /\ BudgetInv /\ LimitInv /\ AnswerInv

LEMMA InitSurroundings == MCInit => SurroundingsInv
BY InitRoster, InitTools, InitPlan, InitBudget, InitLimit, InitAnswer
DEF MCInit, SurroundingsInv

LEMMA StepOfEach ==
  ASSUME [MCNext]_allVars
  PROVE  /\ [Next]_vars /\ [Registry!Next]_toolVars /\ [Bill!Next]_planVars
         /\ [Limiter!Next]_limitVars /\ [Resolver!Next]_budgetVars /\ [Stream!Next]_answerVars
  <1>1. CASE Next /\ OfMembers
    BY <1>1 DEF OfMembers
  <1>2. CASE OfTools /\ Registry!Next
    BY <1>2 DEF OfTools
  <1>3. CASE Bill!Next /\ OfPlan
    BY <1>3 DEF OfPlan
  <1>4. CASE OfLimit /\ Limiter!Next
    BY <1>4 DEF OfLimit
  <1>5. CASE OfBudget /\ Resolver!Next
    BY <1>5 DEF OfBudget
  <1>6. CASE OfAnswer /\ Stream!Next
    BY <1>6 DEF OfAnswer
  <1>7. CASE UNCHANGED allVars
    BY <1>7 DEF allVars
  <1> QED
    BY <1>1, <1>2, <1>3, <1>4, <1>5, <1>6, <1>7 DEF MCNext

LEMMA SurroundingsStep == SurroundingsInv /\ [MCNext]_allVars => SurroundingsInv'
  <1> SUFFICES ASSUME SurroundingsInv, [MCNext]_allVars
               PROVE  SurroundingsInv'
    OBVIOUS
  <1>1. RosterInv' /\ ToolsInv' /\ PlanInv'
    BY StepOfEach, RosterStep, ToolsStep, PlanStep DEF SurroundingsInv
  <1>2. BudgetInv' /\ LimitInv' /\ AnswerInv'
    BY StepOfEach, BudgetStep, LimitStep, AnswerStep DEF SurroundingsInv
  <1> QED
    BY <1>1, <1>2 DEF SurroundingsInv

\* The invariants of all parts are inductive together.
THEOREM SurroundingsInvariance == MCSpec => []SurroundingsInv
  <1> QED
    BY InitSurroundings, SurroundingsStep, PTL DEF MCSpec

\* The types of the roster, the tools, the plan, the limiter, the budget and the answers.
THEOREM TypesCorrect == MCSpec => []TypesOK
  <1>1. SurroundingsInv => TypesOK
    BY DEF SurroundingsInv, TypesOK, RosterInv, ToolsInv, PlanInv, BudgetInv, LimitInv, AnswerInv,
           AnswerTypes
  <1> QED
    BY SurroundingsInvariance, <1>1, PTL

\* What is offered to the model is unambiguous (ai-tools' registry and its index), and every
\* call of a vendor's answer arrives once, whole and before the end that is told for it
\* (openai_sse_to_events, anthropic_sse_to_events, gemini_sse_to_events).
THEOREM ToolCallsSound == MCSpec => []ToolCallsAreSound
  <1>1. SurroundingsInv => ToolCallsAreSound
    BY DEF SurroundingsInv, ToolCallsAreSound, ToolsInv, AnswerInv
  <1> QED
    BY SurroundingsInvariance, <1>1, PTL

\* Checks made at the same time overshoot an allowance by no more than those that were under
\* way (enforcement.rs), a window of the limiter lets no more through than its budget, and no
\* budget in use is older than its cache allows.
THEOREM LimitsKept == MCSpec => []LimitsHold
  <1>1. SurroundingsInv => LimitsHold
    BY BoundedGrants DEF SurroundingsInv, LimitsHold, PlanInv, BudgetInv
  <1> QED
    BY SurroundingsInvariance, <1>1, PTL

\* A tenant moves to an active plan only, whoever retires plans at the same time, and the
\* default plan stays active (put_subscription, update_plan).
THEOREM PlansKept == MCSpec => PlansAreKept
  <1>1. SurroundingsInv /\ [MCNext]_allVars =>
          [/\ sub'.plan # sub.plan => plan'[sub'.plan] = "active"
           /\ plan'[Default] = "active"]_planVars
    BY StepOfEach, MovesToActive DEF SurroundingsInv
  <1>2. SurroundingsInv /\ [MCNext]_allVars =>
          [/\ sub'.plan # sub.plan => plan'[sub'.plan] = "active"
           /\ plan'[Default] = "active"]_(Bill!billVars)
    BY <1>1 DEF Bill!billVars, planVars
  <1> QED
    BY SurroundingsInvariance, <1>2, PTL DEF MCSpec, PlansAreKept, Bill!PlansAreKept

\* The roster's promises hold in the composition too.
THEOREM RosterKept == MCSpec => []MembersAreInvited /\ OwnerRemains /\ JoinsAreFinal
  <1>1. SurroundingsInv => MembersAreInvited
    BY InvitedOnce DEF SurroundingsInv
  <1>2. SurroundingsInv /\ [MCNext]_allVars =>
          /\ [ActiveOwners # {} => ActiveOwners' # {}]_vars
          /\ [\A i \in Invitations : invite[i].status \in {"accepted", "revoked"} =>
                invite'[i] = invite[i]]_vars
          /\ [\A u \in Users : member[u] = NoRow /\ member'[u] # NoRow => tenant' = "active"]_vars
    BY StepOfEach, OwnerStays, JoinsFinalStep DEF SurroundingsInv
  <1> QED
    BY SurroundingsInvariance, <1>1, <1>2, PTL
    DEF MCSpec, OwnerRemains, JoinsAreFinal, JoinsActiveTenant, SettledForEver

=============================================================================
