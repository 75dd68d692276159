---------------------------- MODULE ChannelsProofs ----------------------------
(***************************************************************************)
(* Proofs about the channels of MCChannels, for every value of their       *)
(* constants: the connection (Integrations), what leaves through it        *)
(* (Sender), what comes in (Inbound), the visitors (Site), who is there to *)
(* answer (Dashboard) and the lists he reads (Pages), each by itself, and  *)
(* at the end their composition.                                           *)
(***************************************************************************)
EXTENDS MCChannels, SequenceTheorems, FiniteSetTheorems, TLAPS

-----------------------------------------------------------------------------
(* The inductive invariants.                                               *)

\* What waits since a time at which the connection was on.
WaitsSince(at) == at \in Nat /\ at <= changes /\ OnSince(at)

ConnInv ==
  /\ ConnTypeOK
  /\ \A d \in Deliveries : delivery[d].step \in {"verify", "record"} => WaitsSince(delivery[d].at)

SenderRow ==
  [step : {"idle", "prepare", "window", "connection", "token", "call", "sent", "failed"},
   message : Sender!Messages \cup {NoMessage}, at : Nat]

\* A worker holds a row alone; until its call nothing has left, and it has seen the
\* connection on once it looks for the token.
SenderStep(s) ==
  LET m == sender[s].message
      step == sender[s].step IN
  /\ step = "idle" => sender[s] = Sender!Idle
  /\ step # "idle" => m \in posted \ queue /\ sender[s].at <= changes
  /\ step \notin {"idle", "prepare"} => m \in Replies
  /\ step \in {"prepare", "window", "connection", "token", "call"} => sent[m] = 0
  /\ step = "sent" => sent[m] = 1
  /\ step \in {"token", "call"} => OnSince(sender[s].at)

HookInv(h) ==
  hook[h] # Sender!Quiet =>
    hook[h].message \in known /\ hook[h].new \in {"sent", "delivered", "read", "failed"}

SenderInv ==
  /\ Sender!TypeOK
  /\ sender \in [Senders -> SenderRow] /\ hook = [h \in Hooks |-> hook[h]]
  /\ \A s \in Senders : SenderStep(s)
  /\ \A s, t \in Senders :
       sender[s].step # "idle" /\ sender[t].step # "idle"
         /\ sender[s].message = sender[t].message => s = t
  /\ \A m \in Sender!Messages : m \in queue \/ m \notin posted => sent[m] = 0
  /\ \A m \in known : sent[m] = 1
  /\ \A h \in Hooks : HookInv(h)
  /\ Sender!SentOnce

\* The workers that hold a medium.
Busy(w) == {f \in Fetchers : fetcher[f].step # "idle" /\ fetcher[f].wamid = w}

HookStep(h) ==
  /\ webhook[h].step \in {"idle", "customer", "conversation", "store"}
  /\ webhook[h].step = "idle" => webhook[h] = Inbound!Quiet
  /\ webhook[h].step # "idle" => webhook[h].wamid \in Wamids
  /\ webhook[h].conversation \in 0..made

FetcherStep(f) ==
  /\ fetcher[f].step \in {"idle", "fetch", "fetched", "failed"}
  /\ fetcher[f].step = "idle" => fetcher[f] = Inbound!Resting
  /\ fetcher[f].step # "idle" => fetcher[f].wamid \in Wamids

\* Whoever claims a medium finds an attempt left; those who hold it by then add theirs.
AttemptsBounded(w) == media[w].attempts + Cardinality(Busy(w)) <= MaxFetches - 1 + Cardinality(Fetchers)

\* No message is stored twice, or without its customer.
Once == (\A r, q \in stored : r.wamid = q.wamid => r = q) /\ (stored # {} => customer)

InboundInv ==
  /\ Inbound!TypeOK
  /\ made \in Nat
  /\ webhook = [h \in Webhooks |-> webhook[h]] /\ fetcher = [f \in Fetchers |-> fetcher[f]]
  /\ media \in [Wamids -> [status : {"none", "pending", "stored", "failed"}, attempts : Nat]]
  /\ \A h \in Webhooks : HookStep(h)
  /\ \A f \in Fetchers : FetcherStep(f)
  /\ \A w \in Wamids : AttemptsBounded(w)
  /\ Once

\* The deliveries that take the number for nobody's.
Unaware ==
  {h \in Webhooks : webhook[h].step \in {"conversation", "store"} /\ ~webhook[h].known}

\* Until the number has a customer only failed statements lose messages; then those who do
\* not know of him may lose theirs, and one of the first deliveries made him.
LossInv ==
  /\ IsFiniteSet(lost) /\ (lost # {} => Webhooks # {})
  /\ \A h \in Webhooks : webhook[h].known => customer
  /\ ~customer => Cardinality(lost) <= lapses
  /\ customer => Cardinality(lost) + Cardinality(Unaware) < Cardinality(Webhooks) + lapses

\* What a request has read, as far as it has come.
Visiting(x) ==
  /\ x.op # "none" => x.session \in Sessions
  /\ x.op = "insert" => x.customer # Nobody
  /\ x.op \in {"say", "said", "rate", "rated"} => x.of \in Conversations

\* No identifier is two customers', and who is not there has none; a request has its session.
SiteInv ==
  /\ Site!TypeOK
  /\ \A c, d \in Customers : ids[c] \cap ids[d] # {} => c = d
  /\ \A c \in Customers \ rows : ids[c] = {}
  /\ \A h \in Handlers : Visiting(visit[h])

PresenceInv ==
  /\ Dashboard!TypeOK
  /\ stream = [s \in Streams |-> stream[s]]
  /\ \A m \in Members : IsFiniteSet(Dashboard!Held(m))
  /\ Dashboard!AbsentAreReverted

Keys == Nat \X Nat

\* The pages read so far end at the cursor, and lack nothing above it.
WalkInv ==
  /\ walk.seen \in Seq(Keys) /\ walk.settled \subseteq Keys
  /\ walk.cursor \in {Pages!Top} \cup Keys
  /\ walk.step \in {"idle", "more"} => walk.settled \subseteq Pages!RowsOf(walk.list)
  /\ walk.step = "more" /\ walk.cursor = Pages!Top => walk.seen = <<>>
  /\ walk.step = "more" /\ walk.cursor # Pages!Top =>
       Len(walk.seen) > 0 /\ walk.cursor = walk.seen[Len(walk.seen)]
  /\ walk.step = "idle" => walk.cursor = Pages!Top /\ walk.seen = <<>>

PageInv ==
  /\ Pages!TypeOK
  /\ Len(write) <= MaxWrites
  /\ \A w \in DOMAIN write : write[w].step = "begun" <=> write[w].seq = 0
  /\ walk = [list |-> walk.list, cursor |-> walk.cursor, seen |-> walk.seen,
             settled |-> walk.settled, step |-> walk.step]
  /\ WalkInv
  /\ Pages!PagesAreWhole

-----------------------------------------------------------------------------
(* The connection.                                                         *)

LEMMA InitConn == ASSUME Init PROVE ConnInv
  <1>1. 0 \in Time /\ 0 \in Nat
    BY ChangesAssumption DEF Time
  <1>2. FALSE \in BOOLEAN
    BY Zenon
  <1> DEFINE nothing == [step |-> "idle", token |-> 0, signed |-> 0, at |-> 0, logged |-> FALSE]
  <1>3. nothing \in Delivery /\ nothing.step = "idle"
    BY <1>1, <1>2, Zenon DEF Delivery
  <1>4. delivery = [d \in Deliveries |-> nothing]
    BY DEF Init
  <1> HIDE DEF nothing
  <1>5. delivery \in [Deliveries -> Delivery] /\ \A d \in Deliveries : delivery[d].step = "idle"
    BY <1>3, <1>4
  <1>6. conn \in Conn /\ changes \in Time /\ request \in [Requests -> Request]
    BY <1>1 DEF Init, Conn, Request
  <1> QED
    BY <1>5, <1>6 DEF ConnInv, ConnTypeOK

LEMMA Times ==
  ASSUME ConnInv
  PROVE  /\ changes \in Nat /\ MaxChanges \in Nat /\ conn.offAt \in Nat
         /\ \A t \in Time : t \in Nat
         /\ changes < MaxChanges => changes + 1 \in Time
  BY ChangesAssumption DEF ConnInv, ConnTypeOK, Time, Conn

\* Another master key leaves the connection on or off.
LEMMA Rekeyed ==
  ASSUME ConnInv, Rekey
  PROVE  /\ conn' \in Conn /\ conn'.state = conn.state /\ conn'.offAt = conn.offAt
         /\ UNCHANGED <<changes, request, delivery>>
  BY DEF ConnInv, ConnTypeOK, Rekey, Conn

\* What a commit of staff makes of a connection that was on since some time.
LEMMA WaitsOn ==
  ASSUME ConnInv, Staff, NEW at, WaitsSince(at) PROVE WaitsSince(at)'
  <1>0. CASE Rekey
    BY <1>0, Rekeyed DEF WaitsSince, OnSince
  <1> SUFFICES ASSUME ~Rekey PROVE WaitsSince(at)'
    BY <1>0
  <1> PICK r \in Requests : Begin(r) \/ GiveUp(r) \/ Connect(r) \/ Configure(r) \/ Rotate(r)
                              \/ Disconnect(r)
    BY DEF Staff
  <1>1. changes \in Nat /\ conn.offAt \in Nat /\ conn \in Conn
    BY Times DEF ConnInv, ConnTypeOK
  <1>2. CASE Begin(r) \/ GiveUp(r)
    BY <1>2 DEF Begin, GiveUp, WaitsSince, OnSince
  <1>3. CASE Connect(r)
    BY <1>1, <1>3 DEF Connect, Commit, Conn, WaitsSince, OnSince
  <1>4. CASE Configure(r)
    BY <1>1, <1>4 DEF Configure, Commit, WaitsSince, OnSince
  <1>5. CASE Rotate(r)
    <2>1. conn'.state = conn.state /\ conn'.offAt = conn.offAt /\ changes' = changes + 1
      BY <1>1, <1>5 DEF Rotate, Commit, Conn
    <2> QED
      BY <1>1, <2>1 DEF WaitsSince, OnSince
  <1>6. CASE Disconnect(r)
    <2>1. conn'.offAt = changes + 1 /\ changes' = changes + 1
      BY <1>1, <1>6 DEF Disconnect, Commit, Conn
    <2> QED
      BY <1>1, <2>1 DEF WaitsSince, OnSince
  <1> QED
    BY <1>2, <1>3, <1>4, <1>5, <1>6

LEMMA StaffConn == ASSUME ConnInv, Staff PROVE ConnInv'
  <1>0. CASE Rekey
    BY <1>0, Rekeyed DEF ConnInv, ConnTypeOK, WaitsSince, OnSince
  <1> SUFFICES ASSUME ~Rekey PROVE ConnInv'
    BY <1>0
  <1> PICK r \in Requests : Begin(r) \/ GiveUp(r) \/ Connect(r) \/ Configure(r) \/ Rotate(r)
                              \/ Disconnect(r)
    BY DEF Staff
  <1>1. conn \in Conn /\ changes \in Time /\ request \in [Requests -> Request]
        /\ delivery \in [Deliveries -> Delivery]
    BY DEF ConnInv, ConnTypeOK
  <1>2. delivery' = delivery
    BY DEF Begin, GiveUp, Connect, Configure, Rotate, Disconnect, Commit
  <1>3. \A d \in Deliveries : delivery'[d].step \in {"verify", "record"} =>
          WaitsSince(delivery[d].at)'
    BY <1>2, WaitsOn DEF ConnInv
  <1>4. request' \in [Requests -> Request]
    BY <1>1 DEF Begin, GiveUp, Connect, Configure, Rotate, Disconnect, Commit, Request
  <1>5. conn' \in Conn /\ changes' \in Time
    <2>1. CASE Begin(r) \/ GiveUp(r)
      BY <1>1, <2>1 DEF Begin, GiveUp
    <2>2. ASSUME NEW new \in Conn, Commit(r, new) PROVE conn' \in Conn /\ changes' \in Time
      BY <2>2, Times DEF Commit
    <2>3. 0 \in Time
      BY ChangesAssumption DEF Time
    <2>4. ASSUME changes < MaxChanges
          PROVE  /\ [conn EXCEPT !.state = "on", !.token = changes + 1, !.secret = changes + 1,
                                  !.offAt = 0] \in Conn
                 /\ [conn EXCEPT !.secret = changes + 1] \in Conn
                 /\ [conn EXCEPT !.state = "off", !.secret = 0, !.offAt = changes + 1] \in Conn
      BY <1>1, <2>3, <2>4, Times DEF Conn
    <2> QED
      BY <1>1, <2>1, <2>2, <2>4 DEF Connect, Configure, Rotate, Disconnect, Commit
  <1> QED
    BY <1>1, <1>2, <1>3, <1>4, <1>5 DEF ConnInv, ConnTypeOK

LEMMA OutsideConn == ASSUME ConnInv, Outside PROVE ConnInv'
  <1> PICK d \in Deliveries : Receive(d) \/ Verify(d) \/ Record(d) \/ Sweep(d)
    BY DEF Outside
  <1>1. conn \in Conn /\ changes \in Time /\ request \in [Requests -> Request]
        /\ delivery \in [Deliveries -> Delivery]
    BY DEF ConnInv, ConnTypeOK
  <1>2. TRUE \in BOOLEAN /\ FALSE \in BOOLEAN
    BY Zenon
  <1>3. 0 \in Time /\ \A t \in 1..changes : t \in Time
    BY <1>1, ChangesAssumption DEF Time
  <1>4. PICK new : Advance(d, new) /\ new \in Delivery
                     /\ (new.step \in {"verify", "record"} => WaitsSince(new.at))
    <2>1. CASE Receive(d)
      <3> PICK token \in 1..changes, signed \in 1..changes, log \in BOOLEAN, limited \in BOOLEAN :
            LET arrived == [step |-> "verify", token |-> token, signed |-> signed,
                            at |-> changes, logged |-> FALSE]
            IN IF token = conn.token /\ conn.state = "on" /\ ~limited
                 THEN Advance(d, arrived)
                 ELSE /\ token # conn.token => ~log
                      /\ Advance(d, [arrived EXCEPT !.step = "rejected", !.logged = log])
        BY <2>1 DEF Receive
      <3> DEFINE arrived == [step |-> "verify", token |-> token, signed |-> signed,
                             at |-> changes, logged |-> FALSE]
                 refused == [arrived EXCEPT !.step = "rejected", !.logged = log]
      <3>1. token \in Time /\ signed \in Time
        BY <1>3
      <3>2. arrived \in Delivery
        BY <1>1, <1>2, <3>1, Zenon DEF Delivery
      <3>3. refused \in Delivery /\ refused.step = "rejected" /\ arrived.at = changes
        BY <3>2 DEF Delivery
      <3>4. conn.state = "on" => WaitsSince(changes)
        BY Times DEF WaitsSince, OnSince
      <3>5. (Advance(d, arrived) /\ conn.state = "on") \/ Advance(d, refused)
        OBVIOUS
      <3> HIDE DEF arrived, refused
      <3> QED
        BY <3>2, <3>3, <3>4, <3>5
    <2>2. CASE Verify(d)
      <3> DEFINE ok == [delivery[d] EXCEPT !.step = "record"]
                 no == [delivery[d] EXCEPT !.step = "rejected", !.logged = TRUE]
      <3>1. ok \in Delivery /\ ok.at = delivery[d].at
        BY <1>1 DEF Delivery
      <3>2. no \in Delivery
        <4>1. \A b \in BOOLEAN : [delivery[d] EXCEPT !.step = "rejected", !.logged = b] \in Delivery
          BY <1>1 DEF Delivery
        <4> QED
          BY <1>2, <4>1, Zenon
      <3>3. no.step = "rejected" /\ WaitsSince(delivery[d].at)
        BY <1>1, <2>2 DEF Verify, ConnInv, Delivery
      <3>4. Advance(d, ok) \/ Advance(d, no)
        BY <2>2 DEF Verify
      <3> HIDE DEF ok, no
      <3> QED
        BY <3>1, <3>2, <3>3, <3>4
    <2>3. CASE Record(d)
      <3> DEFINE ok == [delivery[d] EXCEPT !.step = "accepted", !.logged = TRUE]
                 no == [delivery[d] EXCEPT !.step = "rejected"]
      <3>1. no \in Delivery /\ no.step = "rejected" /\ ok.step = "accepted"
        BY <1>1 DEF Delivery
      <3>2. ok \in Delivery
        <4>1. \A b \in BOOLEAN : [delivery[d] EXCEPT !.step = "accepted", !.logged = b] \in Delivery
          BY <1>1 DEF Delivery
        <4> QED
          BY <1>2, <4>1, Zenon
      <3>3. Advance(d, ok) \/ Advance(d, no)
        BY <2>3 DEF Record
      <3> HIDE DEF ok, no
      <3> QED
        BY <3>1, <3>2, <3>3
    <2>4. CASE Sweep(d)
      <3> DEFINE none == [step |-> "idle", token |-> 0, signed |-> 0, at |-> 0, logged |-> FALSE]
      <3>1. none \in Delivery
        BY <1>2, <1>3, Zenon DEF Delivery
      <3>2. Advance(d, none) /\ none.step = "idle"
        BY <2>4 DEF Sweep
      <3> HIDE DEF none
      <3> QED
        BY <3>1, <3>2
    <2> QED
      BY <2>1, <2>2, <2>3, <2>4
  <1>5. delivery' = [delivery EXCEPT ![d] = new] /\ UNCHANGED <<conn, changes, request>>
    BY <1>4 DEF Advance
  <1>6. \A at : WaitsSince(at) => WaitsSince(at)'
    BY <1>5 DEF WaitsSince, OnSince
  <1>7. ASSUME NEW e \in Deliveries, delivery'[e].step \in {"verify", "record"}
        PROVE  WaitsSince(delivery'[e].at)
    BY <1>1, <1>4, <1>5, <1>7 DEF ConnInv
  <1>8. \A e \in Deliveries : delivery'[e].step \in {"verify", "record"} =>
          \A t : t = delivery'[e].at => WaitsSince(t)'
    BY <1>6, <1>7
  <1>9. delivery' \in [Deliveries -> Delivery]
    BY <1>1, <1>4, <1>5
  <1> QED
    BY <1>1, <1>5, <1>8, <1>9 DEF ConnInv, ConnTypeOK, WaitsSince, OnSince

LEMMA ConnStutter == ASSUME ConnInv, UNCHANGED connVars PROVE ConnInv'
  BY DEF ConnInv, ConnTypeOK, connVars, WaitsSince, OnSince

-----------------------------------------------------------------------------
(* What leaves (WhatsAppSender).                                           *)

LEMMA SenderConstants == MaxDeaths \in Nat /\ NoMessage \notin Sender!Messages
  BY ChannelsAssumption DEF Sender!SenderAssumption

LEMMA InitSender == ASSUME Sender!Init PROVE SenderInv
  <1>1. Sender!TypeOK
    BY DEF Sender!Init, Sender!TypeOK, Sender!Statuses, Sender!Idle, Sender!Quiet
  <1>2. \A s \in Senders : SenderStep(s)
    BY DEF Sender!Init, SenderStep, Sender!Idle
  <1>3. \A h \in Hooks : HookInv(h)
    BY DEF Sender!Init, HookInv
  <1>4. Sender!SentOnce
    BY DEF Sender!Init, Sender!SentOnce
  <1>5. \A s \in Senders : sender[s].step = "idle"
    BY DEF Sender!Init, Sender!Idle
  <1>6. sender \in [Senders -> SenderRow]
    <2>1. Sender!Idle \in SenderRow
      BY DEF Sender!Idle, SenderRow
    <2> QED
      BY <2>1 DEF Sender!Init
  <1> QED
    BY <1>1, <1>2, <1>3, <1>4, <1>5, <1>6 DEF SenderInv, Sender!Init

LEMMA TypedSender ==
  ASSUME SenderInv
  PROVE  /\ queue \subseteq posted /\ posted \subseteq Sender!Messages /\ known \subseteq Replies
         /\ meta \in [Sender!Messages -> Sender!Statuses]
         /\ sent \in [Sender!Messages -> Nat]
         /\ DOMAIN sender = Senders /\ DOMAIN hook = Hooks
         /\ \A s \in Senders : sender[s] \in SenderRow
         /\ \A m \in Sender!Messages : sent[m] \in Nat
         /\ Replies \subseteq Sender!Messages
  BY DEF SenderInv, Sender!TypeOK, Sender!Messages

\* A message nobody has begun to send.
LEMMA EmitStep ==
  ASSUME SenderInv, NEW m \in Sender!Messages, Sender!Emit(m) PROVE SenderInv'
  <1>1. /\ m \notin posted /\ posted' = posted \cup {m} /\ queue' = queue \cup {m}
        /\ UNCHANGED <<conn, changes, numbered, meta, known, sent, sender, hook>>
    BY DEF Sender!Emit
  <1>2. Sender!TypeOK'
    BY <1>1 DEF SenderInv, Sender!TypeOK
  <1>3. ASSUME NEW s \in Senders PROVE SenderStep(s)'
    BY <1>1 DEF SenderInv, SenderStep, OnSince
  <1>4. \A n \in Sender!Messages : n \in queue' \/ n \notin posted' => sent'[n] = 0
    BY <1>1 DEF SenderInv
  <1>5. \A h \in Hooks : HookInv(h)'
    BY <1>1 DEF SenderInv, HookInv
  <1>6. Sender!SentOnce'
    BY <1>1 DEF SenderInv, Sender!SentOnce
  <1> QED
    BY <1>1, <1>2, <1>3, <1>4, <1>5, <1>6 DEF SenderInv

\* The number of their customer.
LEMMA EditNumberStep == ASSUME SenderInv, Sender!EditNumber PROVE SenderInv'
  <1>1. UNCHANGED <<conn, changes, posted, queue, meta, known, sent, sender, hook>>
    BY DEF Sender!EditNumber
  <1>2. \A s \in Senders : SenderStep(s)'
    BY <1>1 DEF SenderInv, SenderStep, OnSince
  <1>3. numbered' \in BOOLEAN
    BY DEF Sender!EditNumber
  <1>4. Sender!TypeOK'
    BY <1>1, <1>3 DEF SenderInv, Sender!TypeOK
  <1>5. Sender!SentOnce' /\ \A h \in Hooks : HookInv(h)'
    BY <1>1 DEF SenderInv, Sender!SentOnce, HookInv
  <1> QED
    BY <1>1, <1>2, <1>4, <1>5 DEF SenderInv

LEMMA ClaimReplyStep ==
  ASSUME SenderInv, ConnInv, NEW s \in Senders, Sender!Claim(s) PROVE SenderInv'
  <1> PICK m \in queue :
        /\ queue' = queue \ {m}
        /\ sender' = [sender EXCEPT ![s] = [step |-> "prepare", message |-> m, at |-> changes]]
    BY DEF Sender!Claim
  <1> DEFINE x == [step |-> "prepare", message |-> m, at |-> changes]
  <1>1. x.step = "prepare" /\ x.message = m /\ x.at = changes /\ x \in SenderRow
    BY TypedSender, Times DEF SenderRow
  <1> HIDE DEF x
  <1>a. sender' = [sender EXCEPT ![s] = x]
    BY DEF x
  <1>b. sender' = [t \in Senders |-> IF t = s THEN x ELSE sender[t]]
    BY <1>a DEF SenderInv
  <1>2. /\ sender' = [t \in Senders |-> IF t = s THEN x ELSE sender[t]]
        /\ sender[s].step = "idle"
        /\ UNCHANGED <<conn, changes, numbered, posted, meta, known, sent, hook>>
    <2>1. sender[s] = Sender!Idle
      BY DEF Sender!Claim
    <2>2. UNCHANGED <<conn, changes, numbered, posted, meta, known, sent, hook>>
      BY DEF Sender!Claim
    <2> QED
      <3>1. sender[s].step = "idle"
        BY <2>1 DEF Sender!Idle
      <3> QED
        BY <1>b, <2>2, <3>1, Zenon
  <1>3. m \in posted /\ m \in Sender!Messages /\ sent[m] = 0
    BY TypedSender DEF SenderInv
  <1>4. \A t \in Senders : sender[t].step # "idle" => sender[t].message # m
    BY DEF SenderInv, SenderStep
  <1>5. Sender!TypeOK'
    BY <1>1, <1>2, <1>3 DEF SenderInv, Sender!TypeOK
  <1>6. ASSUME NEW t \in Senders PROVE SenderStep(t)'
    <2>1. CASE t = s
      BY <1>1, <1>2, <1>3, <2>1, Times DEF SenderStep
    <2>2. CASE t # s
      BY <1>2, <2>2 DEF SenderInv, SenderStep, OnSince
    <2> QED
      BY <2>1, <2>2
  <1>7. \A t, u \in Senders :
          sender'[t].step # "idle" /\ sender'[u].step # "idle"
            /\ sender'[t].message = sender'[u].message => t = u
    BY <1>1, <1>2, <1>4 DEF SenderInv
  <1>8. \A h \in Hooks : HookInv(h)'
    BY <1>2 DEF SenderInv, HookInv
  <1>9. Sender!SentOnce' /\ sender' \in [Senders -> SenderRow]
    BY <1>1, <1>2 DEF SenderInv, Sender!SentOnce
  <1>10. \A n \in Sender!Messages : n \in queue' \/ n \notin posted' => sent'[n] = 0
    BY <1>2 DEF SenderInv
  <1> QED
    BY <1>2, <1>5, <1>6, <1>7, <1>8, <1>9, <1>10 DEF SenderInv

\* A worker goes on with its message, or lets go of it; the status it writes is one of those
\* that say nothing of an arrival, or that of a message that has left.
LEMMA Advances ==
  ASSUME SenderInv, NEW s \in Senders, sender[s].step # "idle", NEW x \in SenderRow,
         sender' = [sender EXCEPT ![s] = x],
         x = Sender!Idle \/ (x.message = sender[s].message /\ x.step # "idle"),
         SenderStep(s)',
         UNCHANGED <<conn, changes, numbered, posted, queue, hook>>,
         known \subseteq known', known' \subseteq known \cup {sender[s].message},
         known' \subseteq Replies,
         \A m \in known' : sent'[m] = 1,
         meta' \in [Sender!Messages -> Sender!Statuses],
         sent' \in [Sender!Messages -> Nat],
         \A m \in Sender!Messages : m # sender[s].message =>
           sent'[m] = sent[m] /\ meta'[m] = meta[m],
         sent'[sender[s].message] <= 1,
         meta'[sender[s].message] \in {"sent", "delivered", "read"} =>
           sent'[sender[s].message] = 1
  PROVE  SenderInv'
  <1> DEFINE m == sender[s].message
  <1>1. m \in Sender!Messages /\ m \in posted \ queue
    BY TypedSender DEF SenderInv, SenderStep
  <1>2. sender' = [t \in Senders |-> IF t = s THEN x ELSE sender[t]]
    BY DEF SenderInv
  <1>3. Sender!Idle.message = NoMessage /\ Sender!Idle.step = "idle"
    BY DEF Sender!Idle
  <1>4. \A t \in Senders : t # s /\ sender[t].step # "idle" => sender[t].message # m
    BY DEF SenderInv
  <1>5. ASSUME NEW t \in Senders PROVE SenderStep(t)'
    <2>1. CASE t = s
      BY <2>1
    <2>2. CASE t # s
      <3>1. sender'[t] = sender[t] /\ SenderStep(t)
        BY <1>2, <2>2 DEF SenderInv
      <3>2. sender[t].step # "idle" => sent'[sender[t].message] = sent[sender[t].message]
        BY <1>4, <2>2, <3>1, TypedSender DEF SenderStep
      <3> QED
        BY <3>1, <3>2 DEF SenderStep, OnSince
    <2> QED
      BY <2>1, <2>2
  <1>6. \A t, u \in Senders :
          sender'[t].step # "idle" /\ sender'[u].step # "idle"
            /\ sender'[t].message = sender'[u].message => t = u
    BY <1>2, <1>3 DEF SenderInv
  <1>7. Sender!TypeOK'
    <2>1. \A t \in Senders : sender'[t].message \in Sender!Messages \cup {NoMessage}
      BY <1>1, <1>2, <1>3 DEF SenderInv, Sender!TypeOK
    <2> QED
      BY <2>1 DEF SenderInv, Sender!TypeOK
  <1>8. \A h \in Hooks : HookInv(h)'
    BY DEF SenderInv, HookInv
  <1>9. Sender!SentOnce'
    <2> SUFFICES ASSUME NEW n \in Sender!Messages
                 PROVE  /\ sent'[n] <= 1
                        /\ meta'[n] \in {"sent", "delivered", "read"} => sent'[n] = 1
      BY DEF Sender!SentOnce
    <2>1. CASE n = m
      BY <2>1
    <2>2. CASE n # m
      BY <2>2 DEF SenderInv, Sender!SentOnce
    <2> QED
      BY <2>1, <2>2
  <1>10. \A n \in Sender!Messages : n \in queue' \/ n \notin posted' => sent'[n] = 0
    BY <1>1 DEF SenderInv
  <1>11. sender' \in [Senders -> SenderRow] /\ hook' = [h \in Hooks |-> hook'[h]]
    BY <1>2 DEF SenderInv
  <1> QED
    BY <1>5, <1>6, <1>7, <1>8, <1>9, <1>10, <1>11 DEF SenderInv

\* What a worker holds.
LEMMA Holding ==
  ASSUME SenderInv, NEW s \in Senders, sender[s].step # "idle"
  PROVE  /\ sender[s].message \in Sender!Messages
         /\ sender[s].message \in posted \ queue
         /\ SenderStep(s) /\ sender[s] \in SenderRow
         /\ sent[sender[s].message] \in Nat /\ sent[sender[s].message] <= 1
         /\ meta[sender[s].message] \in {"sent", "delivered", "read"} =>
              sent[sender[s].message] = 1
  <1>1. SenderStep(s) /\ sender[s].message \in posted \ queue
    BY DEF SenderInv, SenderStep
  <1>2. sender[s].message \in Sender!Messages
    BY <1>1, TypedSender
  <1> QED
    BY <1>1, <1>2, TypedSender DEF SenderInv, Sender!SentOnce

\* It goes to another step and leaves the message as it is, or marks it as pending.
LEMMA GoesTo ==
  ASSUME SenderInv, NEW s \in Senders, sender[s].step # "idle",
         NEW step \in {"window", "connection", "token", "call"}, Sender!To(s, step),
         sender[s].message \in Replies, sent[sender[s].message] = 0,
         step \in {"token", "call"} => OnSince(sender[s].at),
         UNCHANGED <<conn, changes, numbered, posted, queue, hook, known, sent>>,
         meta' \in [Sender!Messages -> Sender!Statuses],
         \A m \in Sender!Messages : m # sender[s].message => meta'[m] = meta[m],
         meta'[sender[s].message] \notin {"sent", "delivered", "read"}
  PROVE  SenderInv'
  <1> DEFINE x == [sender[s] EXCEPT !.step = step]
  <1>1. /\ x \in SenderRow /\ x.message = sender[s].message /\ x.step = step
        /\ x.at = sender[s].at
    BY Holding DEF SenderRow
  <1>2. sender' = [sender EXCEPT ![s] = x]
    BY DEF Sender!To
  <1> HIDE DEF x
  <1>3. sender'[s] = x
    BY <1>2, TypedSender
  <1>4. SenderStep(s)'
    BY <1>1, <1>3, Holding DEF SenderStep, OnSince
  <1>5. /\ \A m \in known' : sent'[m] = 1
        /\ sent' \in [Sender!Messages -> Nat]
        /\ sent'[sender[s].message] <= 1
        /\ known' \subseteq Replies
    BY Holding, TypedSender DEF SenderInv
  <1>6. \A m \in Sender!Messages : m # sender[s].message => sent'[m] = sent[m] /\ meta'[m] = meta[m]
    OBVIOUS
  <1> QED
    BY <1>1, <1>2, <1>4, <1>5, <1>6, Advances

\* It lets go of the message, whatever became of it.
LEMMA LetsGo ==
  ASSUME SenderInv, NEW s \in Senders, sender[s].step # "idle", Sender!Stop(s),
         UNCHANGED <<conn, changes, numbered, posted, queue, hook, sent>>,
         known \subseteq known', known' \subseteq known \cup {sender[s].message},
         known' \subseteq Replies,
         \A m \in known' : sent[m] = 1,
         meta' \in [Sender!Messages -> Sender!Statuses],
         \A m \in Sender!Messages : m # sender[s].message => meta'[m] = meta[m],
         meta'[sender[s].message] \in {"sent", "delivered", "read"} => sent[sender[s].message] = 1
  PROVE  SenderInv'
  <1>1. Sender!Idle \in SenderRow /\ sender' = [sender EXCEPT ![s] = Sender!Idle]
    BY DEF Sender!Idle, SenderRow, Sender!Stop
  <1>2. sender'[s] = Sender!Idle
    BY <1>1, TypedSender
  <1>3. SenderStep(s)'
    BY <1>2 DEF SenderStep, Sender!Idle
  <1>4. sent' \in [Sender!Messages -> Nat] /\ sent'[sender[s].message] <= 1
    BY Holding, TypedSender
  <1>5. \A m \in Sender!Messages : m # sender[s].message => sent'[m] = sent[m] /\ meta'[m] = meta[m]
    OBVIOUS
  <1> QED
    BY <1>1, <1>3, <1>4, <1>5, Advances

LEMMA Fails ==
  ASSUME SenderInv, NEW s \in Senders, sender[s].step # "idle", Sender!Fail(s),
         UNCHANGED <<conn, changes, numbered, posted, queue, hook, sent, known>>
  PROVE  SenderInv'
  <1>1. /\ Sender!Stop(s) /\ meta' = [meta EXCEPT ![sender[s].message] = "failed"]
        /\ "failed" \in Sender!Statuses
    BY DEF Sender!Fail, Sender!Statuses
  <1>2. /\ meta' \in [Sender!Messages -> Sender!Statuses]
        /\ \A m \in Sender!Messages : m # sender[s].message => meta'[m] = meta[m]
        /\ meta'[sender[s].message] = "failed"
    BY <1>1, Holding, TypedSender
  <1>3. \A m \in known' : sent[m] = 1
    BY DEF SenderInv
  <1> QED
    BY <1>1, <1>2, <1>3, TypedSender, LetsGo

\* The steps of a worker before and after its call.
LEMMA SenderWorks ==
  ASSUME SenderInv, NEW s \in Senders,
         \/ Sender!Prepare(s) \/ Sender!CheckWindow(s) \/ Sender!FindConnection(s)
         \/ Sender!FindToken(s) \/ Sender!RecordSent(s) \/ Sender!RecordFailed(s) \/ Sender!Die(s)
  PROVE  SenderInv'
  <1> DEFINE m == sender[s].message
  <1>0. sender[s].step # "idle"
    BY DEF Sender!Prepare, Sender!CheckWindow, Sender!FindConnection, Sender!FindToken,
           Sender!RecordSent, Sender!RecordFailed, Sender!Die, SenderInv, SenderStep
  <1>1. /\ m \in Sender!Messages /\ SenderStep(s) /\ sent[m] \in Nat
        /\ meta[m] \in {"sent", "delivered", "read"} => sent[m] = 1
        /\ \A n \in known : sent[n] = 1
        /\ known \subseteq Replies /\ meta \in [Sender!Messages -> Sender!Statuses]
    BY <1>0, Holding, TypedSender DEF SenderInv
  <1>2. CASE Sender!Prepare(s)
    <2>1. /\ sender[s].step = "prepare" /\ sent[m] = 0
          /\ UNCHANGED <<conn, changes, numbered, posted, queue, known, sent, hook>>
      BY <1>1, <1>2 DEF Sender!Prepare, SenderStep
    <2>2. CASE m \in Replies /\ numbered
      <3>1. Sender!To(s, "window")
            /\ meta' = [meta EXCEPT ![m] = IF meta[m] = "none" THEN "pending" ELSE meta[m]]
        BY <1>1, <1>2, <2>2 DEF Sender!Prepare
      <3>2. /\ meta' \in [Sender!Messages -> Sender!Statuses]
            /\ \A n \in Sender!Messages : n # m => meta'[n] = meta[n]
            /\ meta'[m] \notin {"sent", "delivered", "read"}
        BY <1>1, <2>1, <3>1 DEF Sender!Statuses
      <3> QED
        BY <1>0, <2>1, <2>2, <3>1, <3>2, GoesTo
    <2>3. CASE ~ (m \in Replies /\ numbered)
      <3>1. Sender!Stop(s) /\ UNCHANGED meta
        BY <1>2, <2>3 DEF Sender!Prepare
      <3> QED
        BY <1>0, <1>1, <2>1, <3>1, LetsGo
    <2> QED
      BY <2>2, <2>3
  <1>3. CASE Sender!CheckWindow(s) \/ Sender!FindConnection(s) \/ Sender!FindToken(s)
    <2>1. /\ sender[s].step \in {"window", "connection", "token"} /\ m \in Replies /\ sent[m] = 0
          /\ sender[s].step = "token" => OnSince(sender[s].at)
          /\ UNCHANGED <<conn, changes, numbered, posted, queue, known, sent, hook>>
      BY <1>1, <1>3 DEF Sender!CheckWindow, Sender!FindConnection, Sender!FindToken, SenderStep
    <2>2. PICK step \in {"connection", "token", "call"} :
            \/ Sender!Fail(s)
            \/ Sender!Stop(s) /\ UNCHANGED meta
            \/ /\ Sender!To(s, step) /\ UNCHANGED meta
               /\ step = "token" => conn.state = "on"
               /\ step = "call" => sender[s].step = "token"
      BY <1>3 DEF Sender!CheckWindow, Sender!FindConnection, Sender!FindToken,
                  Sender!ActiveConnection
    <2>3. CASE Sender!Fail(s)
      BY <1>0, <2>1, <2>3, Fails
    <2>4. CASE /\ Sender!To(s, step) /\ UNCHANGED meta
               /\ step = "token" => conn.state = "on"
               /\ step = "call" => sender[s].step = "token"
      <3>1. step \in {"token", "call"} => OnSince(sender[s].at)
        BY <2>1, <2>4 DEF OnSince
      <3>2. meta'[m] \notin {"sent", "delivered", "read"}
        BY <1>1, <2>1, <2>4
      <3> QED
        BY <1>0, <1>1, <2>1, <2>4, <3>1, <3>2, GoesTo
    <2>5. CASE Sender!Stop(s) /\ UNCHANGED meta
      BY <1>0, <1>1, <2>1, <2>5, LetsGo
    <2> QED
      BY <2>2, <2>3, <2>4, <2>5
  <1>4. CASE Sender!RecordSent(s)
    <2>1. /\ sender[s].step = "sent" /\ m \in Replies /\ sent[m] = 1
          /\ Sender!Stop(s) /\ meta' = [meta EXCEPT ![m] = "sent"] /\ known' = known \cup {m}
          /\ UNCHANGED <<conn, changes, numbered, posted, queue, sent, hook>>
          /\ "sent" \in Sender!Statuses
      BY <1>1, <1>4 DEF Sender!RecordSent, SenderStep, Sender!Statuses
    <2>2. /\ meta' \in [Sender!Messages -> Sender!Statuses]
          /\ \A n \in Sender!Messages : n # m => meta'[n] = meta[n]
      BY <1>1, <2>1
    <2> QED
      BY <1>0, <1>1, <2>1, <2>2, LetsGo
  <1>5. CASE Sender!RecordFailed(s)
    BY <1>0, <1>5, Fails DEF Sender!RecordFailed
  <1>6. CASE Sender!Die(s)
    BY <1>0, <1>1, <1>6, LetsGo DEF Sender!Die
  <1> QED
    BY <1>2, <1>3, <1>4, <1>5, <1>6

\* The one call of a message.
LEMMA CallStep == ASSUME SenderInv, NEW s \in Senders, Sender!CallProvider(s) PROVE SenderInv'
  <1>0. sender[s].step = "call" /\ UNCHANGED <<conn, changes, numbered, posted, queue, meta, known, hook>>
    BY DEF Sender!CallProvider
  <1>m. PICK m \in Sender!Messages : m = sender[s].message
    BY <1>0, Holding
  <1>1. /\ m \in Replies /\ m \in posted \ queue /\ sent[m] = 0
        /\ sender[s].at <= changes /\ sender[s] \in SenderRow
    BY <1>0, <1>m, Holding DEF SenderStep
  <1>2. PICK taken \in {0, 1}, result \in {"sent", "failed"} :
          /\ result = "sent" => taken = 1
          /\ sent' = [sent EXCEPT ![m] = sent[m] + taken]
          /\ sender' = [sender EXCEPT ![s].step = result]
    BY <1>m, TypedSender DEF Sender!CallProvider, Sender!To
  <1> DEFINE x == [sender[s] EXCEPT !.step = result]
  <1>3. x \in SenderRow /\ x.message = m /\ x.step = result /\ x.at = sender[s].at
    BY <1>1, <1>m DEF SenderRow
  <1>4. sender' = [sender EXCEPT ![s] = x]
    BY <1>2
  <1> HIDE DEF x
  <1>5. sender'[s] = x
    BY <1>4, TypedSender
  <1>6. /\ sent' \in [Sender!Messages -> Nat] /\ sent'[m] = taken
        /\ \A n \in Sender!Messages : n # m => sent'[n] = sent[n] /\ meta'[n] = meta[n]
    BY <1>0, <1>1, <1>2, TypedSender
  <1>7. SenderStep(s)'
    BY <1>0, <1>1, <1>2, <1>3, <1>5, <1>6 DEF SenderStep
  <1>8. meta[m] \notin {"sent", "delivered", "read"} /\ m \notin known
    BY <1>0, <1>1, <1>m, Holding DEF SenderInv
  <1>9. \A n \in known' : sent'[n] = 1
    BY <1>0, <1>6, <1>8, TypedSender DEF SenderInv
  <1>10. sent'[m] <= 1
    BY <1>6
  <1> QED
    BY <1>0, <1>m, <1>3, <1>4, <1>6, <1>7, <1>8, <1>9, <1>10, TypedSender, Advances

\* A status is of a message the provider took.
LEMMA StatusStep ==
  ASSUME SenderInv, NEW h \in Hooks, Sender!ReadStatus(h) \/ Sender!WriteStatus(h)
  PROVE  SenderInv'
  <1>1. UNCHANGED <<conn, changes, numbered, posted, queue, known, sent, sender>>
    BY DEF Sender!ReadStatus, Sender!WriteStatus
  <1>2. \A s \in Senders : SenderStep(s)'
    BY <1>1 DEF SenderInv, SenderStep, OnSince
  <1>3. hook' = [g \in Hooks |-> hook'[g]] /\ \A k \in Hooks : HookInv(k)'
        /\ \A i \in Hooks : hook'[i] = Sender!Quiet \/ hook'[i].message \in known
    <2>1. CASE Sender!ReadStatus(h)
      BY <1>1, <2>1 DEF Sender!ReadStatus, SenderInv, HookInv
    <2>2. CASE Sender!WriteStatus(h)
      BY <1>1, <2>2 DEF Sender!WriteStatus, SenderInv, HookInv
    <2> QED
      BY <2>1, <2>2
  <1>4. meta' \in [Sender!Messages -> Sender!Statuses] /\ Sender!SentOnce'
    <2>1. CASE Sender!ReadStatus(h)
      BY <1>1, <2>1, TypedSender DEF Sender!ReadStatus, SenderInv, Sender!SentOnce
    <2>2. CASE Sender!WriteStatus(h)
      <3>1. /\ meta' = [meta EXCEPT ![hook[h].message] = hook[h].new]
            /\ hook[h].message \in known /\ sent[hook[h].message] = 1
            /\ hook[h].new \in Sender!Statuses
        BY <2>2 DEF Sender!WriteStatus, SenderInv, HookInv, Sender!Statuses
      <3> QED
        BY <1>1, <3>1, TypedSender DEF SenderInv, Sender!SentOnce
    <2> QED
      BY <2>1, <2>2
  <1>5. Sender!TypeOK'
    BY <1>1, <1>3, <1>4 DEF SenderInv, Sender!TypeOK
  <1> QED
    BY <1>1, <1>2, <1>3, <1>4, <1>5 DEF SenderInv

LEMMA SenderNext == ASSUME SenderInv, ConnInv, Sender!Next PROVE SenderInv'
  BY EmitStep, EditNumberStep, ClaimReplyStep, SenderWorks, CallStep, StatusStep DEF Sender!Next, Sender!Work

\* Staff change the connection under the workers: what was on when they saw it has been since.
LEMMA SenderUnderStaff ==
  ASSUME SenderInv, ConnInv, Staff, UNCHANGED senderVars PROVE SenderInv'
  <1>1. UNCHANGED <<numbered, posted, queue, meta, known, sent, sender, hook>>
    BY DEF senderVars
  <1>2. changes \in Nat /\ changes' \in Nat /\ changes <= changes'
    BY Times, StaffConn DEF Staff, Begin, GiveUp, Connect, Configure, Rotate, Disconnect, Commit,
                             Rekey
  <1>3. ASSUME NEW s \in Senders PROVE SenderStep(s)'
    <2>1. SenderStep(s) /\ sender'[s] = sender[s] /\ sender[s].at \in Nat
      BY <1>1, TypedSender DEF SenderInv, SenderRow
    <2>2. sender[s].at <= changes => sender[s].at <= changes'
      BY <1>2, <2>1
    <2>3. ASSUME sender[s].at <= changes, OnSince(sender[s].at)
          PROVE  \A at : at = sender[s].at => OnSince(at)'
      BY <2>1, <2>3, WaitsOn DEF WaitsSince
    <2> QED
      BY <1>1, <2>1, <2>2, <2>3 DEF SenderStep, OnSince
  <1>4. Sender!TypeOK' /\ Sender!SentOnce' /\ \A h \in Hooks : HookInv(h)'
    BY <1>1 DEF SenderInv, Sender!TypeOK, Sender!SentOnce, HookInv
  <1> QED
    BY <1>1, <1>3, <1>4 DEF SenderInv

LEMMA SenderStutter ==
  ASSUME SenderInv, UNCHANGED <<senderVars, conn, changes>> PROVE SenderInv'
  <1>1. UNCHANGED <<numbered, posted, queue, meta, known, sent, sender, hook, conn, changes>>
    BY DEF senderVars
  <1>2. \A s \in Senders : SenderStep(s)'
    BY <1>1 DEF SenderInv, SenderStep, OnSince
  <1>4. Sender!TypeOK' /\ Sender!SentOnce' /\ \A h \in Hooks : HookInv(h)'
    BY <1>1 DEF SenderInv, Sender!TypeOK, Sender!SentOnce, HookInv
  <1> QED
    BY <1>1, <1>2, <1>4 DEF SenderInv


-----------------------------------------------------------------------------
(* What comes in (WhatsAppInbound).                                        *)

LEMMA InboundCardinality == \A S : Inbound!Cardinality(S) = Cardinality(S)
  BY DEF Inbound!Cardinality, Cardinality

LEMMA InboundConstants ==
  /\ MaxFetches \in Nat \ {0} /\ NoMessage \notin Wamids /\ Illustrated \subseteq Wamids
  /\ IsFiniteSet(Fetchers) /\ Cardinality(Fetchers) \in Nat
  /\ IsFiniteSet(Webhooks) /\ Cardinality(Webhooks) \in Nat /\ MaxLapses \in Nat
  <1>1. MaxFetches \in Nat \ {0} /\ NoMessage \notin Wamids /\ Illustrated \subseteq Wamids
        /\ Inbound!IsFiniteSet(Fetchers) /\ Inbound!IsFiniteSet(Webhooks) /\ MaxLapses \in Nat
    BY ChannelsAssumption DEF Inbound!InboundAssumption
  <1>2. IsFiniteSet(Fetchers) /\ IsFiniteSet(Webhooks)
    BY <1>1 DEF Inbound!IsFiniteSet, IsFiniteSet
  <1> QED
    BY <1>1, <1>2, FS_CardinalityType

\* Those who hold a medium are some of the workers.
LEMMA BusyIsSmall ==
  ASSUME NEW w \in Wamids
  PROVE  IsFiniteSet(Busy(w)) /\ Cardinality(Busy(w)) \in 0..Cardinality(Fetchers)
  <1>1. Busy(w) \subseteq Fetchers
    BY DEF Busy
  <1> QED
    BY <1>1, InboundConstants, FS_Subset, FS_CardinalityType

\* So no medium is tried more often than the code allows and there are workers.
LEMMA AttemptsType ==
  ASSUME NEW w \in Wamids, media[w].attempts \in Nat, AttemptsBounded(w)
  PROVE  media[w].attempts \in 0..(MaxFetches + Inbound!Cardinality(Fetchers) - 1)
  BY BusyIsSmall, InboundConstants, InboundCardinality DEF AttemptsBounded

LEMMA InitInbound == ASSUME Inbound!Init PROVE InboundInv
  <1>1. /\ customer = FALSE /\ open = {} /\ made = 0 /\ stored = {} /\ lost = {} /\ lapses = 0
        /\ webhook = [h \in Webhooks |-> Inbound!Quiet]
        /\ media = [w \in Wamids |-> [status |-> "none", attempts |-> 0]]
        /\ fetcher = [f \in Fetchers |-> Inbound!Resting]
    BY DEF Inbound!Init
  <1>2. \A w \in Wamids : AttemptsBounded(w)
    <2> TAKE w \in Wamids
    <2>1. Busy(w) = {}
      BY <1>1 DEF Busy, Inbound!Resting
    <2> QED
      BY <1>1, <2>1, FS_EmptySet, InboundConstants DEF AttemptsBounded
  <1>3. media \in [Wamids -> [status : {"none", "pending", "stored", "failed"}, attempts : Nat]]
    BY <1>1
  <1>4. \A w \in Wamids : media[w].attempts \in 0..(MaxFetches + Inbound!Cardinality(Fetchers) - 1)
    BY <1>2, <1>3, AttemptsType
  <1>5. \A h \in Webhooks : HookStep(h) /\ webhook[h].wamid \in Wamids \cup {NoMessage}
    BY <1>1 DEF HookStep, Inbound!Quiet
  <1>6. \A f \in Fetchers : FetcherStep(f)
    BY <1>1 DEF FetcherStep, Inbound!Resting
  <1>7. customer \in BOOLEAN
    BY <1>1, Zenon
  <1>8. Inbound!TypeOK
    BY <1>1, <1>4, <1>5, <1>7, InboundConstants DEF Inbound!TypeOK
  <1>9. Once
    BY <1>1 DEF Once
  <1> QED
    BY <1>1, <1>2, <1>3, <1>5, <1>6, <1>8, <1>9 DEF InboundInv

LEMMA SameLapses == ASSUME InboundInv, UNCHANGED lapses PROVE lapses' \in 0..MaxLapses
  BY DEF InboundInv, Inbound!TypeOK

\* A webhook goes on, or ends without having stored anything.
LEMMA HookMoves ==
  ASSUME InboundInv, NEW h \in Webhooks, NEW x,
         webhook' = [webhook EXCEPT ![h] = x],
         x = Inbound!Quiet \/ (/\ x.step \in {"customer", "conversation", "store"}
                               /\ x.wamid \in Wamids /\ x.conversation \in 0..made),
         lost' \subseteq Wamids, open' \subseteq open, lapses' \in 0..MaxLapses,
         UNCHANGED <<customer, made, stored, media, fetcher>>
  PROVE  InboundInv'
  <1>1. webhook' = [k \in Webhooks |-> IF k = h THEN x ELSE webhook[k]]
    BY DEF InboundInv
  <1>2. webhook' = [k \in Webhooks |-> webhook'[k]]
    BY <1>1
  <1>3. ASSUME NEW k \in Webhooks
        PROVE  HookStep(k)' /\ webhook'[k].wamid \in Wamids \cup {NoMessage}
    <2>1. CASE k = h
      BY <1>1, <2>1 DEF HookStep, InboundInv, Inbound!Quiet
    <2>2. CASE k # h
      BY <1>1, <2>2 DEF HookStep, InboundInv, Inbound!TypeOK
    <2> QED
      BY <2>1, <2>2
  <1>4. Inbound!TypeOK'
    BY <1>3, <1>1 DEF InboundInv, Inbound!TypeOK
  <1>5. \A w \in Wamids : AttemptsBounded(w)'
    BY DEF InboundInv, AttemptsBounded, Busy
  <1>6. \A f \in Fetchers : FetcherStep(f)'
    BY DEF InboundInv, FetcherStep
  <1>7. Once'
    BY DEF InboundInv, Once
  <1> QED
    BY <1>2, <1>3, <1>4, <1>5, <1>6, <1>7 DEF InboundInv

LEMMA HookSteps ==
  ASSUME InboundInv, NEW h \in Webhooks,
         \/ Inbound!Receive(h) \/ Inbound!ResolveCustomer(h)
         \/ Inbound!FindConversation(h) \/ Inbound!Conflict(h) \/ Inbound!Abort(h)
  PROVE  InboundInv'
  <1>1. ASSUME Inbound!Receive(h) PROVE InboundInv'
    <2> PICK w \in Wamids : webhook' = [webhook EXCEPT ![h].step = "customer", ![h].wamid = w]
      BY <1>1 DEF Inbound!Receive
    <2> DEFINE x == [webhook[h] EXCEPT !.step = "customer", !.wamid = w]
    <2>1. webhook[h] = Inbound!Quiet /\ webhook' = [webhook EXCEPT ![h] = x]
      BY <1>1 DEF Inbound!Receive
    <2>2. x.step = "customer" /\ x.wamid = w /\ x.conversation = 0
      BY <2>1 DEF Inbound!Quiet
    <2>3. 0 \in 0..made
      BY DEF InboundInv
    <2> HIDE DEF x
    <2> QED
      BY <1>1, <2>1, <2>2, <2>3, HookMoves DEF Inbound!Receive, InboundInv, Inbound!TypeOK
  <1>2. ASSUME Inbound!ResolveCustomer(h) PROVE InboundInv'
    <2> DEFINE x == [webhook[h] EXCEPT !.step = "conversation", !.known = Inbound!Found]
    <2>1. webhook' = [webhook EXCEPT ![h] = x] /\ webhook[h].step = "customer"
      BY <1>2 DEF Inbound!ResolveCustomer
    <2>2. x.step = "conversation" /\ x.wamid \in Wamids /\ x.conversation \in 0..made
      BY <2>1 DEF InboundInv, HookStep
    <2> HIDE DEF x
    <2> QED
      BY <1>2, <2>1, <2>2, HookMoves DEF Inbound!ResolveCustomer, InboundInv, Inbound!TypeOK
  <1>3. ASSUME Inbound!FindConversation(h) PROVE InboundInv'
    <2> PICK c \in IF webhook[h].known /\ open # {} THEN open ELSE {0} :
          webhook' = [webhook EXCEPT ![h].step = "store", ![h].conversation = c]
      BY <1>3 DEF Inbound!FindConversation
    <2> DEFINE x == [webhook[h] EXCEPT !.step = "store", !.conversation = c]
    <2>1. webhook' = [webhook EXCEPT ![h] = x] /\ webhook[h].step = "conversation"
      BY <1>3 DEF Inbound!FindConversation
    <2>2. c \in 0..made
      BY DEF InboundInv, Inbound!TypeOK
    <2>3. x.step = "store" /\ x.wamid \in Wamids /\ x.conversation \in 0..made
      BY <2>1, <2>2 DEF InboundInv, HookStep
    <2> HIDE DEF x
    <2> QED
      BY <1>3, <2>1, <2>3, HookMoves DEF Inbound!FindConversation, InboundInv, Inbound!TypeOK
  <1>4. ASSUME Inbound!Conflict(h) \/ Inbound!Abort(h) PROVE InboundInv'
    <2>1. /\ webhook' = [webhook EXCEPT ![h] = Inbound!Quiet]
          /\ lost' \in {lost, lost \cup {webhook[h].wamid}}
          /\ UNCHANGED <<customer, open, made, stored, media, fetcher>>
      BY <1>4 DEF Inbound!Conflict, Inbound!Abort, Inbound!GiveUp
    <2>2. webhook[h].wamid \in Wamids
      BY <1>4 DEF Inbound!Conflict, Inbound!Abort, InboundInv, HookStep, Inbound!Quiet
    <2>3. lapses' \in 0..MaxLapses
      BY <1>4, InboundConstants DEF Inbound!Conflict, Inbound!Abort, Inbound!Lapse, InboundInv,
                                    Inbound!TypeOK
    <2> QED
      BY <2>1, <2>2, <2>3, HookMoves DEF InboundInv, Inbound!TypeOK
  <1> QED
    BY <1>1, <1>2, <1>3, <1>4

\* A message is stored with the conversation it was assigned, and the index keeps it single.
LEMMA StoreStep ==
  ASSUME InboundInv, NEW h \in Webhooks, Inbound!Store(h) PROVE InboundInv'
  <1> PICK w \in Wamids : w = webhook[h].wamid
    BY DEF Inbound!Store, InboundInv, HookStep
  <1> PICK c \in Nat : c = IF webhook[h].conversation = 0 THEN made + 1 ELSE webhook[h].conversation
    BY DEF InboundInv, HookStep
  <1>1. /\ customer' = TRUE /\ stored' = stored \cup {[wamid |-> w, conversation |-> c]}
        /\ (made' = made + 1 /\ open' = open \cup {c} /\ c = made + 1)
             \/ (made' = made /\ open' = open /\ c \in 1..made)
        /\ media' = [media EXCEPT ![w].status = IF w \in Illustrated THEN "pending" ELSE @]
        /\ webhook' = [webhook EXCEPT ![h] = Inbound!Quiet]
        /\ UNCHANGED <<lost, lapses, fetcher>>
    BY DEF Inbound!Store, InboundInv, HookStep
  <1>2. made' \in Nat /\ made <= made' /\ c \in 1..made'
    BY <1>1 DEF InboundInv
  <1>3. 1..made \subseteq 1..made' /\ 0..made \subseteq 0..made'
    BY <1>2 DEF InboundInv
  <1>4. webhook' = [k \in Webhooks |-> IF k = h THEN Inbound!Quiet ELSE webhook[k]]
    BY <1>1 DEF InboundInv
  <1>5. ASSUME NEW k \in Webhooks
        PROVE  HookStep(k)' /\ webhook'[k].wamid \in Wamids \cup {NoMessage}
    <2>1. CASE k = h
      BY <1>2, <1>4, <2>1 DEF HookStep, InboundInv, Inbound!Quiet
    <2>2. CASE k # h
      BY <1>3, <1>4, <2>2 DEF HookStep, InboundInv, Inbound!TypeOK
    <2> QED
      BY <2>1, <2>2
  <1>6. /\ media' \in [Wamids -> [status : {"none", "pending", "stored", "failed"}, attempts : Nat]]
        /\ \A v \in Wamids : media'[v].attempts = media[v].attempts
    BY <1>1 DEF InboundInv
  <1>7. ASSUME NEW v \in Wamids PROVE AttemptsBounded(v)'
    <2>1. Busy(v)' = Busy(v)
      BY <1>1 DEF Busy
    <2>2. AttemptsBounded(v) /\ media'[v].attempts = media[v].attempts
      BY <1>6 DEF InboundInv
    <2> QED
      BY <2>1, <2>2 DEF AttemptsBounded
  <1>8. \A f \in Fetchers : FetcherStep(f)'
    BY <1>1 DEF InboundInv, FetcherStep
  <1>9. Once'
    <2>1. \A r \in stored : r.wamid # w
      BY DEF Inbound!Store, Inbound!Unique, Inbound!Recorded
    <2> QED
      BY <1>1, <2>1 DEF InboundInv, Once
  <1>10. Inbound!TypeOK'
    <2>1. stored' \subseteq [wamid : Wamids, conversation : 1..made']
      BY <1>1, <1>2, <1>3 DEF InboundInv, Inbound!TypeOK
    <2>2. customer' \in BOOLEAN
      BY <1>1, Zenon
    <2>3. open' \subseteq 1..made'
      BY <1>1, <1>2, <1>3 DEF InboundInv, Inbound!TypeOK
    <2>4. lost' \subseteq Wamids
      BY <1>1 DEF InboundInv, Inbound!TypeOK
    <2>5. \A v \in Wamids : media'[v].attempts \in 0..(MaxFetches + Inbound!Cardinality(Fetchers) - 1)
      BY <1>6 DEF InboundInv, Inbound!TypeOK
    <2>6. lapses' \in 0..MaxLapses
      BY <1>1, SameLapses
    <2> QED
      BY <1>5, <2>1, <2>2, <2>3, <2>4, <2>5, <2>6 DEF Inbound!TypeOK
  <1>11. webhook' = [k \in Webhooks |-> webhook'[k]]
    BY <1>4
  <1> QED
    BY <1>1, <1>2, <1>5, <1>6, <1>7, <1>8, <1>9, <1>10, <1>11 DEF InboundInv

LEMMA ResolveConversationStep ==
  ASSUME InboundInv, NEW c \in open, Inbound!ResolveConversation(c) PROVE InboundInv'
  <1>1. open' \subseteq open /\ UNCHANGED <<customer, made, stored, lost, lapses, webhook, media, fetcher>>
    BY DEF Inbound!ResolveConversation
  <1>2. Inbound!TypeOK'
    BY <1>1 DEF InboundInv, Inbound!TypeOK
  <1>3. \A w \in Wamids : AttemptsBounded(w)'
    BY <1>1 DEF InboundInv, AttemptsBounded, Busy
  <1> QED
    BY <1>1, <1>2, <1>3 DEF InboundInv, HookStep, FetcherStep, Once

\* A worker takes up a medium, goes on with it, or lets go of it; attempts and workers
\* together do not become too many.
LEMMA FetcherMoves ==
  ASSUME InboundInv, NEW f \in Fetchers, NEW x,
         fetcher' = [fetcher EXCEPT ![f] = x],
         x = Inbound!Resting
           \/ (x.step \in {"fetch", "fetched", "failed"} /\ x.wamid \in Wamids),
         media' \in [Wamids -> [status : {"none", "pending", "stored", "failed"}, attempts : Nat]],
         \A w \in Wamids : AttemptsBounded(w)', lapses' \in 0..MaxLapses,
         UNCHANGED <<customer, open, made, stored, lost, webhook>>
  PROVE  InboundInv'
  <1>1. fetcher' = [g \in Fetchers |-> IF g = f THEN x ELSE fetcher[g]]
    BY DEF InboundInv
  <1>2. fetcher' = [g \in Fetchers |-> fetcher'[g]]
    BY <1>1
  <1>3. \A g \in Fetchers : FetcherStep(g)'
    BY <1>1 DEF InboundInv, FetcherStep, Inbound!Resting
  <1>4. \A w \in Wamids : media'[w].attempts \in 0..(MaxFetches + Inbound!Cardinality(Fetchers) - 1)
    <2> TAKE w \in Wamids
    <2>1. media'[w].attempts \in Nat
      OBVIOUS
    <2>2. /\ IsFiniteSet(Busy(w)') /\ Cardinality(Busy(w)') \in 0..Cardinality(Fetchers)
      <3>1. Busy(w)' \subseteq Fetchers
        BY DEF Busy
      <3> QED
        BY <3>1, InboundConstants, FS_Subset, FS_CardinalityType
    <2> QED
      BY <2>1, <2>2, InboundConstants, InboundCardinality DEF AttemptsBounded
  <1>5. Inbound!TypeOK'
    BY <1>4 DEF InboundInv, Inbound!TypeOK
  <1>6. (\A h \in Webhooks : HookStep(h)') /\ Once'
    BY DEF InboundInv, HookStep, Once
  <1> QED
    BY <1>2, <1>3, <1>5, <1>6 DEF InboundInv

LEMMA ClaimMediumStep ==
  ASSUME InboundInv, NEW f \in Fetchers, Inbound!ClaimMedium(f) PROVE InboundInv'
  <1> PICK w \in Wamids :
        /\ media[w].attempts < MaxFetches
        /\ fetcher' = [fetcher EXCEPT ![f] = [step |-> "fetch", wamid |-> w]]
    BY DEF Inbound!ClaimMedium
  <1>1. /\ fetcher[f] = Inbound!Resting /\ fetcher[f].step = "idle"
        /\ UNCHANGED <<customer, open, made, stored, lost, lapses, webhook, media>>
    BY DEF Inbound!ClaimMedium, Inbound!Resting
  <1>2. ASSUME NEW v \in Wamids PROVE AttemptsBounded(v)'
    <2>1. CASE v = w
      <3>1. Busy(v)' \subseteq Fetchers
        BY DEF Busy
      <3>2. Cardinality(Busy(v)') \in 0..Cardinality(Fetchers)
        BY <3>1, InboundConstants, FS_Subset, FS_CardinalityType
      <3>3. media[v].attempts \in Nat
        BY DEF InboundInv
      <3> QED
        BY <1>1, <2>1, <3>2, <3>3, InboundConstants DEF AttemptsBounded
    <2>2. CASE v # w
      <3>1. Busy(v)' = Busy(v)
        BY <1>1, <2>2 DEF Busy, InboundInv
      <3> QED
        BY <1>1, <3>1 DEF AttemptsBounded, InboundInv
    <2> QED
      BY <2>1, <2>2
  <1>3. media' \in [Wamids -> [status : {"none", "pending", "stored", "failed"}, attempts : Nat]]
    BY <1>1 DEF InboundInv
  <1> DEFINE x == [step |-> "fetch", wamid |-> w]
  <1>4. fetcher' = [fetcher EXCEPT ![f] = x] /\ x.step = "fetch" /\ x.wamid = w
    OBVIOUS
  <1> HIDE DEF x
  <1> QED
    BY <1>1, <1>2, <1>3, <1>4, FetcherMoves, SameLapses

LEMMA FetchStep ==
  ASSUME InboundInv, NEW f \in Fetchers, Inbound!Fetch(f) PROVE InboundInv'
  <1> PICK to \in {"fetched", "failed"} : fetcher' = [fetcher EXCEPT ![f].step = to]
    BY DEF Inbound!Fetch
  <1>1. /\ fetcher[f].step = "fetch"
        /\ UNCHANGED <<customer, open, made, stored, lost, lapses, webhook, media>>
    BY DEF Inbound!Fetch
  <1> DEFINE x == [fetcher[f] EXCEPT !.step = to]
  <1>2. fetcher' = [fetcher EXCEPT ![f] = x]
    OBVIOUS
  <1>3. x.step = to /\ x.wamid = fetcher[f].wamid /\ x.wamid \in Wamids
    BY <1>1 DEF InboundInv, FetcherStep
  <1> HIDE DEF x
  <1>4. \A w \in Wamids : Busy(w)' = Busy(w)
    BY <1>1, <1>2, <1>3 DEF Busy, InboundInv
  <1>5. \A w \in Wamids : AttemptsBounded(w)'
    BY <1>1, <1>4 DEF InboundInv, AttemptsBounded
  <1>6. media' \in [Wamids -> [status : {"none", "pending", "stored", "failed"}, attempts : Nat]]
    BY <1>1 DEF InboundInv
  <1> QED
    BY <1>1, <1>2, <1>3, <1>5, <1>6, FetcherMoves, SameLapses

\* Whoever lets go of a medium adds at most one attempt.
LEMMA Settles ==
  ASSUME InboundInv, NEW f \in Fetchers, fetcher[f].step \in {"fetched", "failed"}, NEW new,
         Inbound!Settle(f, new), new.status \in {"none", "pending", "stored", "failed"},
         new \in [status : {"none", "pending", "stored", "failed"}, attempts : Nat],
         new.attempts <= media[fetcher[f].wamid].attempts + 1
  PROVE  InboundInv'
  <1> PICK w \in Wamids : w = fetcher[f].wamid
    BY DEF InboundInv, FetcherStep
  <1>1. /\ media' = [media EXCEPT ![w] = new]
        /\ fetcher' = [fetcher EXCEPT ![f] = Inbound!Resting]
        /\ UNCHANGED <<customer, open, made, stored, lost, lapses, webhook>>
    BY DEF Inbound!Settle
  <1>2. media' \in [Wamids -> [status : {"none", "pending", "stored", "failed"}, attempts : Nat]]
    BY <1>1 DEF InboundInv
  <1>3. ASSUME NEW v \in Wamids PROVE AttemptsBounded(v)'
    <2>1. CASE v = w
      <3>1. f \in Busy(v) /\ Busy(v)' = Busy(v) \ {f}
        BY <1>1, <2>1 DEF Busy, InboundInv, Inbound!Resting
      <3>2. Cardinality(Busy(v)') = Cardinality(Busy(v)) - 1
        BY <3>1, BusyIsSmall, FS_RemoveElement
      <3>3. media'[v] = new /\ new.attempts \in Nat /\ media[v].attempts \in Nat
        BY <1>1, <2>1 DEF InboundInv
      <3>4. new.attempts <= media[v].attempts + 1 /\ AttemptsBounded(v)
        BY <2>1 DEF InboundInv
      <3> QED
        BY <3>2, <3>3, <3>4, BusyIsSmall, InboundConstants DEF AttemptsBounded
    <2>2. CASE v # w
      <3>1. Busy(v)' = Busy(v) /\ media'[v] = media[v]
        BY <1>1, <2>2 DEF Busy, InboundInv, Inbound!Resting
      <3> QED
        BY <3>1 DEF AttemptsBounded, InboundInv
    <2> QED
      BY <2>1, <2>2
  <1> QED
    BY <1>1, <1>2, <1>3, FetcherMoves, SameLapses

LEMMA SettleSteps ==
  ASSUME InboundInv, NEW f \in Fetchers, Inbound!StoreMedium(f) \/ Inbound!FailMedium(f)
  PROVE  InboundInv'
  <1>1. fetcher[f].step \in {"fetched", "failed"}
    BY DEF Inbound!StoreMedium, Inbound!FailMedium
  <1>2. PICK w \in Wamids : w = fetcher[f].wamid
    BY <1>1 DEF InboundInv, FetcherStep
  <1>3. media[w] \in [status : {"none", "pending", "stored", "failed"}, attempts : Nat]
    BY DEF InboundInv
  <1>4. ASSUME Inbound!StoreMedium(f) PROVE InboundInv'
    <2> DEFINE new == [media[w] EXCEPT !.status = "stored"]
    <2>1. Inbound!Settle(f, new)
      BY <1>2, <1>4 DEF Inbound!StoreMedium
    <2>2. /\ new \in [status : {"none", "pending", "stored", "failed"}, attempts : Nat]
          /\ new.status = "stored" /\ new.attempts = media[w].attempts
      BY <1>3
    <2> HIDE DEF new
    <2> QED
      BY <1>1, <1>2, <1>3, <2>1, <2>2, Settles
  <1>5. ASSUME Inbound!FailMedium(f) PROVE InboundInv'
    <2> PICK status \in {"failed", media[w].status} :
          Inbound!Settle(f, [status |-> status, attempts |-> media[w].attempts + 1])
      BY <1>2, <1>5 DEF Inbound!FailMedium
    <2> DEFINE new == [status |-> status, attempts |-> media[w].attempts + 1]
    <2>1. Inbound!Settle(f, new)
      OBVIOUS
    <2>2. /\ new \in [status : {"none", "pending", "stored", "failed"}, attempts : Nat]
          /\ new.status = status /\ new.attempts = media[w].attempts + 1
      BY <1>3
    <2> HIDE DEF new
    <2> QED
      BY <1>1, <1>2, <1>3, <2>1, <2>2, Settles
  <1> QED
    BY <1>4, <1>5

\* A worker lets go of a medium, and nothing is counted.
LEMMA LetsGoOfMedium ==
  ASSUME InboundInv, NEW f \in Fetchers, Inbound!LoseHeart(f) \/ Inbound!Drop(f)
  PROVE  InboundInv'
  <1>1. /\ fetcher' = [fetcher EXCEPT ![f] = Inbound!Resting]
        /\ UNCHANGED <<customer, open, made, stored, lost, webhook, media>>
    BY DEF Inbound!LoseHeart, Inbound!Drop
  <1>2. lapses' \in 0..MaxLapses
    BY InboundConstants DEF Inbound!LoseHeart, Inbound!Drop, Inbound!Lapse, InboundInv,
                            Inbound!TypeOK
  <1>3. media' \in [Wamids -> [status : {"none", "pending", "stored", "failed"}, attempts : Nat]]
    BY <1>1 DEF InboundInv
  <1>4. ASSUME NEW w \in Wamids PROVE AttemptsBounded(w)'
    <2>1. Busy(w)' \subseteq Busy(w)
      BY <1>1 DEF Busy, InboundInv, Inbound!Resting
    <2>2. Cardinality(Busy(w)') <= Cardinality(Busy(w)) /\ Cardinality(Busy(w)') \in Nat
      BY <2>1, BusyIsSmall, FS_Subset, FS_CardinalityType
    <2>3. media[w].attempts \in Nat /\ AttemptsBounded(w)
      BY DEF InboundInv
    <2> QED
      BY <1>1, <2>2, <2>3, BusyIsSmall, InboundConstants DEF AttemptsBounded
  <1> QED
    BY <1>1, <1>2, <1>3, <1>4, FetcherMoves

LEMMA InboundNext == ASSUME InboundInv, Inbound!Next PROVE InboundInv'
  BY HookSteps, StoreStep, ResolveConversationStep, ClaimMediumStep, FetchStep, SettleSteps,
     LetsGoOfMedium
  DEF Inbound!Next, Inbound!Work

LEMMA InboundStutter == ASSUME InboundInv, UNCHANGED inboundVars PROVE InboundInv'
  <1>1. UNCHANGED <<customer, open, made, stored, lost, lapses, webhook, media, fetcher>>
    BY DEF inboundVars
  <1>2. Inbound!TypeOK'
    BY <1>1 DEF InboundInv, Inbound!TypeOK
  <1>3. \A w \in Wamids : AttemptsBounded(w)'
    BY <1>1 DEF InboundInv, AttemptsBounded, Busy
  <1> QED
    BY <1>1, <1>2, <1>3 DEF InboundInv, HookStep, FetcherStep, Once

\* Those who take the number for nobody's are some of the webhooks.
LEMMA UnawareIsSmall ==
  ASSUME NEW V \in SUBSET Webhooks
  PROVE  /\ IsFiniteSet(V) /\ Cardinality(V) \in 0..Cardinality(Webhooks)
         /\ \A h \in Webhooks : h \in V => Cardinality(V \ {h}) = Cardinality(V) - 1
         /\ \A h \in Webhooks \ V : Cardinality(V) < Cardinality(Webhooks)
  <1>1. IsFiniteSet(V) /\ Cardinality(V) \in 0..Cardinality(Webhooks)
    BY InboundConstants, FS_Subset, FS_CardinalityType
  <1>2. \A h \in Webhooks : h \in V => Cardinality(V \ {h}) = Cardinality(V) - 1
    BY <1>1, FS_RemoveElement
  <1>3. ASSUME NEW h \in Webhooks \ V PROVE Cardinality(V) < Cardinality(Webhooks)
    <2>1. V \subseteq Webhooks \ {h} /\ IsFiniteSet(Webhooks \ {h})
      BY InboundConstants, FS_Subset
    <2>2. Cardinality(V) <= Cardinality(Webhooks \ {h})
      BY <2>1, FS_Subset
    <2>3. Cardinality(Webhooks \ {h}) = Cardinality(Webhooks) - 1
      BY InboundConstants, FS_RemoveElement
    <2> QED
      BY <1>1, <2>2, <2>3, InboundConstants
  <1> QED
    BY <1>1, <1>2, <1>3

LEMMA InitLoss == ASSUME Inbound!Init PROVE LossInv
  <1>1. /\ customer = FALSE /\ lost = {} /\ lapses = 0
        /\ webhook = [h \in Webhooks |-> Inbound!Quiet]
    BY DEF Inbound!Init
  <1>2. \A h \in Webhooks : ~webhook[h].known
    BY <1>1 DEF Inbound!Quiet
  <1> QED
    BY <1>1, <1>2, FS_EmptySet DEF LossInv

\* A webhook lets go of its message, which may be lost: by a failed statement, or because it
\* took the number for nobody's.
LEMMA Loses ==
  ASSUME InboundInv, LossInv, NEW h \in Webhooks, NEW w,
         webhook' = [webhook EXCEPT ![h] = Inbound!Quiet],
         lost' = lost \/ lost' = lost \cup {w},
         UNCHANGED customer,
         \/ lapses' = lapses + 1
         \/ UNCHANGED lapses /\ (lost' = lost \/ (customer /\ h \in Unaware))
  PROVE  LossInv'
  <1>1. IsFiniteSet(lost) /\ Cardinality(lost) \in Nat
    BY FS_CardinalityType DEF LossInv
  <1>2. IsFiniteSet(lost') /\ Cardinality(lost') \in Nat /\ Cardinality(lost') <= Cardinality(lost) + 1
    BY <1>1, FS_AddElement, FS_CardinalityType
  <1>3. webhook' = [k \in Webhooks |-> IF k = h THEN Inbound!Quiet ELSE webhook[k]]
    BY DEF InboundInv
  <1>4. ~Inbound!Quiet.known /\ Inbound!Quiet.step = "idle"
    BY DEF Inbound!Quiet
  <1>5. Unaware' = Unaware \ {h}
    BY <1>3, <1>4 DEF Unaware
  <1>6. Unaware \in SUBSET Webhooks
    BY DEF Unaware
  <1>7. /\ Cardinality(Unaware) \in Nat /\ Cardinality(Unaware') \in Nat
        /\ Cardinality(Unaware') <= Cardinality(Unaware)
        /\ h \in Unaware => Cardinality(Unaware') = Cardinality(Unaware) - 1
    <2>1. CASE h \in Unaware
      BY <1>5, <1>6, <2>1, UnawareIsSmall
    <2>2. CASE h \notin Unaware
      <3>1. Unaware' = Unaware
        BY <1>5, <2>2
      <3> QED
        BY <1>6, <2>2, <3>1, UnawareIsSmall
    <2> QED
      BY <2>1, <2>2
  <1>8. \A k \in Webhooks : webhook'[k].known => customer'
    BY <1>3, <1>4 DEF LossInv
  <1>9. lapses \in Nat
    BY DEF InboundInv, Inbound!TypeOK
  <1>10. ~customer => Cardinality(lost') <= lapses'
    BY <1>1, <1>2, <1>9 DEF LossInv
  <1>11. customer => Cardinality(lost') + Cardinality(Unaware') < Cardinality(Webhooks) + lapses'
    BY <1>1, <1>2, <1>7, <1>9, InboundConstants DEF LossInv
  <1> QED
    BY <1>2, <1>8, <1>10, <1>11 DEF LossInv

\* Nothing is lost, and nobody forgets the customer.
LEMMA LosesNothing ==
  ASSUME InboundInv, LossInv, UNCHANGED <<lost, customer>>, Unaware' = Unaware \/ ~customer,
         \A h \in Webhooks : webhook'[h].known => customer, lapses' \in Nat, lapses <= lapses'
  PROVE  LossInv'
  <1>1. Cardinality(lost) \in Nat /\ lapses \in Nat
    BY FS_CardinalityType DEF LossInv, InboundInv, Inbound!TypeOK
  <1>2. Unaware \in SUBSET Webhooks
    BY DEF Unaware
  <1>3. Cardinality(Unaware) \in Nat
    BY <1>2, UnawareIsSmall
  <1>4. ~customer => Cardinality(lost) <= lapses'
    BY <1>1 DEF LossInv
  <1>5. customer => Cardinality(lost) + Cardinality(Unaware') < Cardinality(Webhooks) + lapses'
    BY <1>1, <1>3, InboundConstants DEF LossInv
  <1> QED
    BY <1>4, <1>5 DEF LossInv

LEMMA LossNext == ASSUME InboundInv, LossInv, Inbound!Next PROVE LossInv'
  <1>0. lapses \in Nat
    BY DEF InboundInv, Inbound!TypeOK
  <1>1. ASSUME NEW h \in Webhooks, Inbound!Conflict(h) PROVE LossInv'
    <2> PICK w \in Wamids : w = webhook[h].wamid
      BY <1>1 DEF Inbound!Conflict, InboundInv, HookStep
    <2>1. /\ webhook' = [webhook EXCEPT ![h] = Inbound!Quiet]
          /\ lost' = lost \/ lost' = lost \cup {w}
          /\ UNCHANGED <<customer, lapses>>
          /\ webhook[h].step = "store"
          /\ Inbound!Recorded(w) => lost' = lost
      BY <1>1 DEF Inbound!Conflict, Inbound!GiveUp
    <2>2. Inbound!Recorded(w) \/ (customer /\ h \in Unaware)
      BY <1>1 DEF Inbound!Conflict, Inbound!Unique, Unaware
    <2> QED
      BY <2>1, <2>2, Loses
  <1>2. ASSUME NEW h \in Webhooks, Inbound!Abort(h) PROVE LossInv'
    BY <1>2, Loses DEF Inbound!Abort, Inbound!GiveUp, Inbound!Lapse
  <1>3. ASSUME NEW h \in Webhooks, Inbound!Store(h) PROVE LossInv'
    <2>1. /\ webhook' = [webhook EXCEPT ![h] = Inbound!Quiet] /\ customer' = TRUE
          /\ UNCHANGED <<lost, lapses>> /\ webhook[h].step = "store"
          /\ ~customer \/ webhook[h].known
      BY <1>3 DEF Inbound!Store, Inbound!Unique
    <2>2. webhook' = [k \in Webhooks |-> IF k = h THEN Inbound!Quiet ELSE webhook[k]]
      BY <2>1 DEF InboundInv
    <2>3. Unaware' = Unaware \ {h}
      BY <2>2 DEF Unaware, Inbound!Quiet
    <2>4. Cardinality(lost) \in Nat
      BY FS_CardinalityType DEF LossInv
    <2>5. Cardinality(lost) + Cardinality(Unaware') < Cardinality(Webhooks) + lapses
      <3>1. CASE customer
        <4>1. Unaware' = Unaware
          BY <2>1, <2>3, <3>1 DEF Unaware
        <4> QED
          BY <3>1, <4>1 DEF LossInv
      <3>2. CASE ~customer
        <4>1. Unaware' \in SUBSET Webhooks /\ h \notin Unaware'
          BY <2>3 DEF Unaware
        <4> DEFINE V == Unaware'
        <4>2. Cardinality(V) \in Nat /\ Cardinality(V) < Cardinality(Webhooks)
          <5>1. V \in SUBSET Webhooks /\ h \in Webhooks \ V
            BY <4>1
          <5> HIDE DEF V
          <5> QED
            BY <5>1, UnawareIsSmall
        <4>3. Cardinality(lost) <= lapses
          BY <3>2 DEF LossInv
        <4> HIDE DEF V
        <4>4. Cardinality(lost) + Cardinality(V) < Cardinality(Webhooks) + lapses
          BY <1>0, <2>4, <4>2, <4>3, InboundConstants
        <4> QED
          BY <4>4 DEF V
      <3> QED
        BY <3>1, <3>2
    <2>6. \A k \in Webhooks : webhook'[k].known => customer'
      BY <2>1
    <2>7. IsFiniteSet(lost') /\ (lost' # {} => Webhooks # {})
      BY <2>1 DEF LossInv
    <2>8. Cardinality(lost') + Cardinality(Unaware') < Cardinality(Webhooks) + lapses'
      BY <2>1, <2>5
    <2> QED
      BY <2>1, <2>6, <2>7, <2>8 DEF LossInv
  <1>4. ASSUME NEW h \in Webhooks,
               Inbound!Receive(h) \/ Inbound!ResolveCustomer(h) \/ Inbound!FindConversation(h)
        PROVE  LossInv'
    <2>1. UNCHANGED <<lost, customer, lapses>>
      BY <1>4 DEF Inbound!Receive, Inbound!ResolveCustomer, Inbound!FindConversation
    <2>2. PICK x : /\ webhook' = [webhook EXCEPT ![h] = x]
                   /\ x.known => customer
                   /\ customer => (x.step \in {"conversation", "store"} /\ ~x.known
                                   <=> webhook[h].step \in {"conversation", "store"} /\ ~webhook[h].known)
      <3>1. CASE Inbound!Receive(h)
        <4> PICK w \in Wamids : webhook' = [webhook EXCEPT ![h].step = "customer", ![h].wamid = w]
          BY <3>1 DEF Inbound!Receive
        <4> DEFINE x == [webhook[h] EXCEPT !.step = "customer", !.wamid = w]
        <4>1. webhook[h] = Inbound!Quiet /\ webhook' = [webhook EXCEPT ![h] = x]
          BY <3>1 DEF Inbound!Receive
        <4>2. x.step = "customer" /\ webhook[h].step = "idle"
          BY <4>1 DEF Inbound!Quiet
        <4>3. x.known = FALSE
          BY <4>1 DEF Inbound!Quiet
        <4> HIDE DEF x
        <4> QED
          BY <4>1, <4>2, <4>3
      <3>2. CASE Inbound!ResolveCustomer(h)
        <4> DEFINE x == [webhook[h] EXCEPT !.step = "conversation", !.known = Inbound!Found]
        <4>1. webhook' = [webhook EXCEPT ![h] = x] /\ webhook[h].step = "customer"
          BY <3>2 DEF Inbound!ResolveCustomer
        <4>2. x.known => customer
          BY DEF Inbound!Found
        <4>3. customer => x.known
          BY DEF Inbound!Found
        <4> HIDE DEF x
        <4> QED
          BY <4>1, <4>2, <4>3
      <3>3. CASE Inbound!FindConversation(h)
        <4> PICK c : webhook' = [webhook EXCEPT ![h].step = "store", ![h].conversation = c]
          BY <3>3 DEF Inbound!FindConversation
        <4> DEFINE x == [webhook[h] EXCEPT !.step = "store", !.conversation = c]
        <4>1. webhook' = [webhook EXCEPT ![h] = x] /\ webhook[h].step = "conversation"
          BY <3>3 DEF Inbound!FindConversation
        <4>2. x.known = webhook[h].known /\ x.step = "store"
          BY DEF InboundInv
        <4>3. webhook[h].known => customer
          BY DEF LossInv
        <4> HIDE DEF x
        <4> QED
          BY <4>1, <4>2, <4>3
      <3> QED
        BY <1>4, <3>1, <3>2, <3>3
    <2>3. webhook' = [k \in Webhooks |-> IF k = h THEN x ELSE webhook[k]]
      BY <2>2 DEF InboundInv
    <2>4. customer => Unaware' = Unaware
      BY <2>2, <2>3 DEF Unaware
    <2>5. \A k \in Webhooks : webhook'[k].known => customer
      BY <2>2, <2>3 DEF LossInv
    <2>6. lapses' \in Nat /\ lapses <= lapses'
      BY <1>0, <2>1
    <2> QED
      BY <2>1, <2>4, <2>5, <2>6, LosesNothing
  <1>5. ASSUME \/ \E c \in open : Inbound!ResolveConversation(c)
               \/ \E f \in Fetchers : Inbound!Work(f) \/ Inbound!Drop(f)
        PROVE  LossInv'
    <2>1. UNCHANGED <<lost, customer, webhook>>
      BY <1>5 DEF Inbound!ResolveConversation, Inbound!Work, Inbound!Drop, Inbound!ClaimMedium,
                  Inbound!LoseHeart, Inbound!Fetch, Inbound!StoreMedium, Inbound!FailMedium,
                  Inbound!Settle
    <2>2. lapses' = lapses \/ lapses' = lapses + 1
      BY <1>5 DEF Inbound!ResolveConversation, Inbound!Work, Inbound!Drop, Inbound!ClaimMedium,
                  Inbound!LoseHeart, Inbound!Fetch, Inbound!StoreMedium, Inbound!FailMedium,
                  Inbound!Settle, Inbound!Lapse
    <2>3. Unaware' = Unaware /\ \A h \in Webhooks : webhook'[h].known => customer
      BY <2>1 DEF Unaware, LossInv
    <2> QED
      BY <1>0, <2>1, <2>2, <2>3, LosesNothing
  <1> QED
    BY <1>1, <1>2, <1>3, <1>4, <1>5 DEF Inbound!Next

LEMMA LossStutter == ASSUME LossInv, UNCHANGED inboundVars PROVE LossInv'
  BY DEF LossInv, inboundVars, Unaware

\* So a message that is lost leaves room for one that is not.
LEMMA LostIsBounded == ASSUME InboundInv, LossInv PROVE Inbound!InboundOnce
  <1> SUFFICES ASSUME lost # {} PROVE Cardinality(lost) < Cardinality(Webhooks) + lapses
    BY InboundCardinality DEF Inbound!InboundOnce, InboundInv, Once
  <1>1. Cardinality(lost) \in Nat /\ lapses \in Nat
    BY FS_CardinalityType DEF LossInv, InboundInv, Inbound!TypeOK
  <1>2. Unaware \in SUBSET Webhooks
    BY DEF Unaware
  <1>3. Cardinality(Unaware) \in Nat
    BY <1>2, UnawareIsSmall
  <1>4. Cardinality(Webhooks) > 0
    <2>1. Webhooks # {}
      BY DEF LossInv
    <2> QED
      BY <2>1, InboundConstants, FS_EmptySet
  <1>5. CASE customer
    BY <1>1, <1>3, <1>5, InboundConstants DEF LossInv
  <1>6. CASE ~customer
    BY <1>1, <1>4, <1>6, InboundConstants DEF LossInv
  <1> QED
    BY <1>5, <1>6

-----------------------------------------------------------------------------
(* The visitors (Visitors).                                                *)

SessionRow(c) == [status : {"none", "valid", "overdue", "gone"}, customer : c \cup {Nobody}]
TalkRow(c) == [customer : c \cup {Nobody}, status : {"none", "open", "ended"}]
VisitRow(c) == [op : Site!Ops, session : Sessions \cup {Nobody},
                customer : c \cup {Nobody}, of : Conversations \cup {Nobody}]

\* What happens to a conversation that a visitor is shown.
Followed(s, v) ==
  \/ v \in Site!Shown(s)' \/ conversation'[v].status = "ended"
  \/ \E u \in Conversations :
       /\ conversation'[u] = [customer |-> session[s].customer, status |-> "open"]
       /\ <<u, v>> \in newer'

\* The three parts of VisitorKeepsPlace, of one step.
KeepsShown ==
  \A s \in Sessions : session[s].customer # Nobody =>
    \/ \A v \in Site!Shown(s) : Followed(s, v)
    \/ session'[s].status = "gone"
    \/ Site!Holders(Site!Widget(s)) = {}
KeepsRatings == \A v \in Conversations : feedback[v] # Nobody => feedback'[v] = feedback[v]
KeepsIds ==
  \A c, d \in rows, i \in Site!Identifiers : c # d /\ i \in ids[c] => i \notin ids'[d]
Keeps == KeepsShown /\ KeepsRatings /\ KeepsIds

LEMMA SiteConstants ==
  Nobody \notin Sessions /\ Nobody \notin Customers /\ Nobody \notin Conversations
  BY ChannelsAssumption DEF Site!VisitorsAssumption

LEMMA NewIsNew ==
  ASSUME NEW S, NEW used, used \subseteq S, used # S
  PROVE  Site!New(S, used) \in S /\ Site!New(S, used) \notin used
  BY DEF Site!New

LEMMA SiteTypes ==
  ASSUME SiteInv
  PROVE  /\ session \in [Sessions -> SessionRow(rows)] /\ rows \subseteq Customers
         /\ ids \in [Customers -> SUBSET Site!Identifiers]
         /\ conversation \in [Conversations -> TalkRow(rows)]
         /\ newer \subseteq Conversations \X Conversations
         /\ feedback \in [Conversations -> Ratings \cup {Nobody}]
         /\ visit \in [Handlers -> VisitRow(rows)]
         /\ \A s \in Sessions : session[s] \in SessionRow(rows)
         /\ \A h \in Handlers : visit[h] \in VisitRow(rows)
  BY DEF SiteInv, Site!TypeOK, SessionRow, TalkRow, VisitRow

LEMMA RowsGrow ==
  ASSUME NEW R, NEW S, R \subseteq S
  PROVE  SessionRow(R) \subseteq SessionRow(S) /\ TalkRow(R) \subseteq TalkRow(S)
         /\ VisitRow(R) \subseteq VisitRow(S)
  BY DEF SessionRow, TalkRow, VisitRow

LEMMA InitSite == ASSUME Site!Init PROVE SiteInv
  <1>1. 0 \in 0..MaxStaffActs
    BY ChannelsAssumption DEF Site!VisitorsAssumption
  <1>2. Site!NoSession \in SessionRow({}) /\ Site!NoConversation \in TalkRow({})
        /\ Site!Idle \in VisitRow({}) /\ Site!Idle.op = "none"
    BY DEF Site!NoSession, Site!NoConversation, Site!Idle, Site!Ops, SessionRow, TalkRow, VisitRow
  <1>3. /\ session \in [Sessions -> SessionRow(rows)] /\ rows = {}
        /\ conversation \in [Conversations -> TalkRow(rows)]
        /\ visit \in [Handlers -> VisitRow(rows)]
        /\ \A h \in Handlers : visit[h] = Site!Idle
    BY <1>2 DEF Site!Init
  <1>4. Site!TypeOK
    BY <1>1, <1>3 DEF Site!TypeOK, Site!Init, SessionRow, TalkRow, VisitRow
  <1>5. \A h \in Handlers : Visiting(visit[h])
    BY <1>2, <1>3 DEF Visiting
  <1> QED
    BY <1>3, <1>4, <1>5 DEF SiteInv, Site!Init

\* What stays as it is, is kept.
LEMMA KeptIds == ASSUME SiteInv, UNCHANGED ids PROVE KeepsIds
  BY SiteTypes DEF SiteInv, KeepsIds

LEMMA KeptShown ==
  ASSUME SiteInv,
         \A s \in Sessions : session'[s].customer = session[s].customer \/ session'[s].status = "gone",
         \A v \in Conversations :
           conversation[v].customer # Nobody /\ conversation[v].status = "open" =>
             conversation'[v] = conversation[v] \/ conversation'[v].status = "ended"
  PROVE  KeepsShown
  BY DEF KeepsShown, Followed, Site!Shown, Site!Open

\* A message may change which of the conversations is the latest.
LEMMA Bumps ==
  ASSUME SiteInv, NEW v \in Conversations, Site!Bump(v)
  PROVE  newer' \subseteq Conversations \X Conversations
  BY SiteTypes DEF Site!Bump, Site!Begun

\* The status of a conversation is set.
LEMMA Statuses ==
  ASSUME SiteInv, NEW v \in Conversations, NEW to \in {"open", "ended"},
         conversation' = [conversation EXCEPT ![v].status = to]
  PROVE  /\ conversation' \in [Conversations -> TalkRow(rows)]
         /\ \A u \in Conversations : conversation[u].status = "open" =>
              conversation'[u] = conversation[u] \/ conversation'[u].status = "ended"
  <1> DEFINE x == [conversation[v] EXCEPT !.status = to]
  <1>1. conversation' = [conversation EXCEPT ![v] = x]
    OBVIOUS
  <1>2. /\ x \in TalkRow(rows) /\ x.status = to
        /\ to = conversation[v].status => x = conversation[v]
    BY SiteTypes DEF TalkRow
  <1> HIDE DEF x
  <1> QED
    BY <1>1, <1>2, SiteTypes

\* A conversation is added, of a customer who is there.
LEMMA Adds ==
  ASSUME SiteInv, NEW c, c \in rows', rows \subseteq rows', Site!AddConversation(c)
  PROVE  /\ conversation' \in [Conversations -> TalkRow(rows')]
         /\ \A v \in Conversations :
              conversation[v].customer # Nobody => conversation'[v] = conversation[v]
         /\ newer' \subseteq Conversations \X Conversations
  <1> DEFINE begun == Site!Begun
  <1> DEFINE new == Site!New(Conversations, begun)
  <1> DEFINE talk == [customer |-> c, status |-> "open"]
  <1>1. /\ begun # Conversations /\ conversation' = [conversation EXCEPT ![new] = talk]
        /\ Site!Bump(new)
    BY DEF Site!AddConversation
  <1>2. begun \subseteq Conversations
    BY DEF Site!Begun
  <1>3. new \in Conversations /\ new \notin begun
    BY <1>1, <1>2, NewIsNew
  <1>6. conversation[new] = Site!NoConversation
    BY <1>3 DEF Site!Begun
  <1>7. newer' \subseteq Conversations \X Conversations
    BY <1>1, <1>3, Bumps
  <1>4. talk \in TalkRow(rows')
    BY DEF TalkRow
  <1> HIDE DEF new, talk
  <1>5. conversation \in [Conversations -> TalkRow(rows')]
    BY SiteTypes, RowsGrow
  <1> QED
    BY <1>1, <1>3, <1>4, <1>5, <1>6, <1>7 DEF Site!NoConversation

\* The handler goes on with what it read, or is done.
LEMMA VisitMoves ==
  ASSUME SiteInv, NEW h \in Handlers, NEW x, rows \subseteq rows',
         x \in VisitRow(rows'), Visiting(x),
         visit' = [visit EXCEPT ![h] = x]
  PROVE  /\ visit' \in [Handlers -> VisitRow(rows')]
         /\ \A k \in Handlers : Visiting(visit'[k])
  <1>1. visit \in [Handlers -> VisitRow(rows')]
    BY SiteTypes, RowsGrow
  <1> QED
    BY <1>1 DEF SiteInv

LEMMA VisitOver ==
  ASSUME SiteInv, NEW h \in Handlers, rows \subseteq rows', Site!Over(h)
  PROVE  /\ visit' \in [Handlers -> VisitRow(rows')]
         /\ \A k \in Handlers : Visiting(visit'[k])
  <1>1. Site!Idle \in VisitRow(rows') /\ Visiting(Site!Idle)
    BY DEF Site!Idle, Site!Ops, VisitRow, Visiting
  <1> QED
    BY <1>1, VisitMoves DEF Site!Over

\* The customers and their identifiers stay: what is left to show.
LEMMA SameCustomers ==
  ASSUME SiteInv, UNCHANGED <<ids, rows>>,
         acts' \in 0..MaxStaffActs, widget' \in {"none", "enabled", "disabled", "deleted"},
         session' \in [Sessions -> SessionRow(rows)],
         conversation' \in [Conversations -> TalkRow(rows)],
         newer' \subseteq Conversations \X Conversations,
         feedback' \in [Conversations -> Ratings \cup {Nobody}],
         visit' \in [Handlers -> VisitRow(rows)],
         \A k \in Handlers : Visiting(visit'[k])
  PROVE  SiteInv'
  BY DEF SiteInv, Site!TypeOK, SessionRow, TalkRow, VisitRow

\* A step after which the identifiers are as they should be.
Identified ==
  /\ rows \subseteq rows'
  /\ rows' \subseteq Customers /\ ids' \in [Customers -> SUBSET Site!Identifiers]
  /\ \A a, b \in Customers : ids'[a] \cap ids'[b] # {} => a = b
  /\ \A a \in Customers \ rows' : ids'[a] = {}
  /\ KeepsIds

\* The identifiers of one customer are replaced by some that nobody else has.
LEMMA Identifies ==
  ASSUME SiteInv, NEW c \in Customers, NEW new \in SUBSET Site!Identifiers,
         \A i \in new : Site!Holders(i) \subseteq {c},
         rows' = rows \cup {c}, ids' = [ids EXCEPT ![c] = new]
  PROVE  Identified
  <1>1. \A a \in Customers : ids'[a] = IF a = c THEN new ELSE ids[a]
    BY SiteTypes
  <1>2. \A a \in Customers, i \in new : i \in ids[a] => a = c
    BY DEF Site!Holders, SiteInv
  <1>3. \A a, b \in Customers : ids'[a] \cap ids'[b] # {} => a = b
    BY <1>1, <1>2 DEF SiteInv
  <1>4. KeepsIds
    <2> SUFFICES ASSUME NEW a \in rows, NEW b \in rows, NEW i \in Site!Identifiers,
                        a # b, i \in ids[a]
                 PROVE  i \notin ids'[b]
      BY DEF KeepsIds
    <2> QED
      BY <1>1, <1>2, SiteTypes DEF SiteInv
  <1> QED
    BY <1>1, <1>3, <1>4, SiteTypes DEF SiteInv, Identified

\* Staff at the widget, at conversations; time at the sessions.
LEMMA StaffSite ==
  ASSUME SiteInv,
         \/ Site!CreateWidget \/ Site!DeleteWidget
         \/ \E to \in {"enabled", "disabled"} : Site!UpdateWidget(to)
  PROVE  SiteInv' /\ Keeps
  <1>1. /\ acts' \in 0..MaxStaffActs /\ widget' \in {"none", "enabled", "disabled", "deleted"}
        /\ UNCHANGED <<session, ids, rows, conversation, newer, feedback, visit>>
    BY SiteConstants, ChannelsAssumption
    DEF Site!CreateWidget, Site!DeleteWidget, Site!UpdateWidget, Site!Act, SiteInv, Site!TypeOK,
        Site!VisitorsAssumption
  <1>2. SiteInv'
    BY <1>1, SiteTypes, SameCustomers DEF SiteInv
  <1> QED
    BY <1>1, <1>2, KeptIds, KeptShown DEF Keeps, KeepsRatings

LEMMA StaffTalks ==
  ASSUME SiteInv,
         \/ \E c \in Customers : Site!OpenByStaff(c) \/ Site!OpenByNumber(c)
         \/ \E v \in Conversations, to \in {"open", "ended"} : Site!SetStatus(v, to)
         \/ \E v \in Conversations : Site!Reply(v) \/ Site!Answer(v)
  PROVE  SiteInv' /\ Keeps
  <1>1. /\ acts' \in 0..MaxStaffActs /\ widget' \in {"none", "enabled", "disabled", "deleted"}
        /\ UNCHANGED <<session, ids, rows, feedback, visit>>
    BY ChannelsAssumption
    DEF Site!OpenByStaff, Site!OpenByNumber, Site!SetStatus, Site!Reply, Site!Answer, Site!Act,
        SiteInv, Site!TypeOK, Site!VisitorsAssumption
  <1> DEFINE Good ==
        /\ conversation' \in [Conversations -> TalkRow(rows)]
        /\ \A v \in Conversations :
             conversation[v].customer # Nobody /\ conversation[v].status = "open" =>
               conversation'[v] = conversation[v] \/ conversation'[v].status = "ended"
        /\ newer' \subseteq Conversations \X Conversations
  <1>2. Good
    <2>1. ASSUME NEW c \in Customers, Site!OpenByStaff(c) \/ Site!OpenByNumber(c) PROVE Good
      <3>1. c \in rows /\ Site!AddConversation(c)
        BY <2>1 DEF Site!OpenByStaff, Site!OpenByNumber, SiteInv
      <3> QED
        BY <1>1, <3>1, Adds
    <2>2. ASSUME NEW v \in Conversations, NEW to \in {"open", "ended"}, Site!SetStatus(v, to)
          PROVE  Good
      BY <2>2, Statuses, SiteTypes DEF Site!SetStatus
    <2>3. ASSUME NEW v \in Conversations, Site!Reply(v) PROVE Good
      BY <2>3, Statuses, Bumps DEF Site!Reply
    <2>4. ASSUME NEW v \in Conversations, Site!Answer(v) PROVE Good
      BY <2>4, SiteTypes, Bumps DEF Site!Answer
    <2> QED
      BY <2>1, <2>2, <2>3, <2>4
  <1>3. SiteInv'
    BY <1>1, <1>2, SiteTypes, SameCustomers DEF SiteInv
  <1> QED
    BY <1>1, <1>2, <1>3, KeptIds, KeptShown DEF Keeps, KeepsRatings

LEMMA StaffCustomers ==
  ASSUME SiteInv,
         \E new \in Site!Payloads :
           Site!CreateCustomer(new) \/ \E c \in Customers : Site!UpdateCustomer(c, new)
  PROVE  SiteInv' /\ Keeps
  <1> PICK new \in Site!Payloads :
        Site!CreateCustomer(new) \/ \E c \in Customers : Site!UpdateCustomer(c, new)
    OBVIOUS
  <1>1. /\ acts' \in 0..MaxStaffActs
        /\ UNCHANGED <<widget, session, conversation, newer, feedback, visit>>
    BY ChannelsAssumption
    DEF Site!CreateCustomer, Site!UpdateCustomer, Site!Act, SiteInv, Site!TypeOK, Site!VisitorsAssumption
  <1>2. PICK c \in Customers :
          /\ rows' = rows \cup {c} /\ ids' = [ids EXCEPT ![c] = new] /\ Site!Insertable(new, c)
    <2>1. ASSUME Site!CreateCustomer(new)
          PROVE  \E c \in Customers :
                   rows' = rows \cup {c} /\ ids' = [ids EXCEPT ![c] = new] /\ Site!Insertable(new, c)
      <3>1. Site!New(Customers, rows) \in Customers
        BY <2>1, NewIsNew, SiteTypes DEF Site!CreateCustomer
      <3> QED
        BY <2>1, <3>1 DEF Site!CreateCustomer
    <2>2. ASSUME NEW c \in Customers, Site!UpdateCustomer(c, new)
          PROVE  rows' = rows \cup {c} /\ ids' = [ids EXCEPT ![c] = new] /\ Site!Insertable(new, c)
      BY <2>2 DEF Site!UpdateCustomer, Site!Changes
    <2> QED
      BY <2>1, <2>2
  <1>3. new \in SUBSET Site!Identifiers
    BY DEF Site!Payloads, Site!Nameable
  <1>4. Identified
    BY <1>2, <1>3, Identifies DEF Site!Insertable
  <1>5. /\ session \in [Sessions -> SessionRow(rows')]
        /\ conversation \in [Conversations -> TalkRow(rows')]
        /\ visit \in [Handlers -> VisitRow(rows')]
    BY <1>4, SiteTypes, RowsGrow DEF Identified
  <1>6. SiteInv'
    <2>1. Site!TypeOK'
      BY <1>1, <1>4, <1>5 DEF Identified, SiteInv, Site!TypeOK, SessionRow, TalkRow, VisitRow
    <2> QED
      BY <1>1, <1>4, <2>1 DEF SiteInv, Identified
  <1> QED
    BY <1>1, <1>4, <1>6, KeptShown DEF Keeps, KeepsRatings, Identified

\* What CreateWith(i) does, in the terms of Identifies.
LEMMA Creates ==
  ASSUME SiteInv, NEW i \in Site!Identifiers, Site!CreateWith(i)
  PROVE  LET c == Site!New(Customers, rows)
         IN  /\ c \in Customers /\ c \notin rows /\ rows' = rows \cup {c}
             /\ ids' = [ids EXCEPT ![c] = {i}] /\ {i} \in SUBSET Site!Identifiers
             /\ \A j \in {i} : Site!Holders(j) \subseteq {c}
  BY NewIsNew, SiteTypes DEF Site!CreateWith

LEMMA WritesStep ==
  ASSUME SiteInv, NEW n \in Numbers, Site!Writes(n) PROVE SiteInv' /\ Keeps
  <1>1. UNCHANGED <<widget, session, conversation, newer, feedback, visit, acts>>
    BY DEF Site!Writes
  <1>2. <<"whatsapp", n>> \in Site!Identifiers
    BY DEF Site!Identifiers
  <1>3. Identified
    <2>1. ASSUME NEW c \in Site!Holders(<<"phone", n>>),
                 ids' = [ids EXCEPT ![c] = ids[c] \cup {<<"whatsapp", n>>}], UNCHANGED rows
          PROVE  Identified
      <3>1. c \in rows /\ c \in Customers /\ rows' = rows \cup {c}
        BY <2>1, SiteTypes DEF Site!Holders
      <3>2. ids[c] \cup {<<"whatsapp", n>>} \in SUBSET Site!Identifiers
        BY <1>2, <3>1, SiteTypes
      <3>3. Site!Holders(<<"whatsapp", n>>) = {}
        BY DEF Site!Writes
      <3>4. \A i \in ids[c] \cup {<<"whatsapp", n>>} : Site!Holders(i) \subseteq {c}
        <4>1. \A i \in ids[c] : Site!Holders(i) \subseteq {c}
          BY <3>1, SiteTypes DEF Site!Holders, SiteInv
        <4> QED
          BY <3>3, <4>1
      <3> QED
        BY <2>1, <3>1, <3>2, <3>4, Identifies
    <2>2. ASSUME Site!CreateWith(<<"whatsapp", n>>) PROVE Identified
      <3> DEFINE c == Site!New(Customers, rows)
      <3>1. /\ c \in Customers /\ rows' = rows \cup {c}
            /\ ids' = [ids EXCEPT ![c] = {<<"whatsapp", n>>}]
            /\ {<<"whatsapp", n>>} \in SUBSET Site!Identifiers
            /\ \A j \in {<<"whatsapp", n>>} : Site!Holders(j) \subseteq {c}
        BY <1>2, <2>2, Creates
      <3> HIDE DEF c
      <3> QED
        BY <3>1, Identifies
    <2> QED
      BY <2>1, <2>2 DEF Site!Writes
  <1>4. /\ session \in [Sessions -> SessionRow(rows')]
        /\ conversation \in [Conversations -> TalkRow(rows')]
        /\ visit \in [Handlers -> VisitRow(rows')]
    BY <1>3, SiteTypes, RowsGrow DEF Identified
  <1>5. Site!TypeOK'
    BY <1>1, <1>3, <1>4 DEF Identified, SiteInv, Site!TypeOK, SessionRow, TalkRow, VisitRow
  <1>6. SiteInv'
    BY <1>1, <1>3, <1>5 DEF SiteInv, Identified
  <1> QED
    BY <1>1, <1>3, <1>6, KeptShown DEF Keeps, KeepsRatings, Identified

LEMMA SessionsStep ==
  ASSUME SiteInv,
         \/ \E s \in Sessions : Site!CreateSession(s) \/ Site!Elapse(s)
         \/ Site!Sweep
  PROVE  SiteInv' /\ Keeps
  <1>1. UNCHANGED <<widget, ids, rows, conversation, newer, feedback, visit, acts>>
    BY DEF Site!CreateSession, Site!Elapse, Site!Sweep
  <1> DEFINE Good ==
        /\ session' \in [Sessions -> SessionRow(rows)]
        /\ \A r \in Sessions : session'[r].customer = session[r].customer \/ session'[r].status = "gone"
  <1>2. Good
    <2>1. ASSUME NEW s \in Sessions, NEW to \in {"valid", "overdue"},
                 session' = [session EXCEPT ![s].status = to]
          PROVE  Good
      <3> DEFINE x == [session[s] EXCEPT !.status = to]
      <3>1. session' = [session EXCEPT ![s] = x]
        BY <2>1
      <3>2. x \in SessionRow(rows) /\ x.customer = session[s].customer
        BY SiteTypes DEF SessionRow
      <3> HIDE DEF x
      <3> QED
        BY <3>1, <3>2, SiteTypes
    <2>2. ASSUME Site!Sweep PROVE Good
      <3> DEFINE gone == [Site!NoSession EXCEPT !.status = "gone"]
      <3>1. gone \in SessionRow(rows) /\ gone.status = "gone"
        BY DEF SessionRow, Site!NoSession
      <3>2. session' = [s \in Sessions |-> IF session[s].status = "overdue" THEN gone ELSE session[s]]
        BY <2>2 DEF Site!Sweep
      <3> HIDE DEF gone
      <3> QED
        BY <3>1, <3>2, SiteTypes
    <2> QED
      BY <2>1, <2>2 DEF Site!CreateSession, Site!Elapse
  <1>3. SiteInv'
    BY <1>1, <1>2, SiteTypes, SameCustomers DEF SiteInv, Site!TypeOK
  <1> QED
    BY <1>1, <1>2, <1>3, KeptIds, KeptShown DEF Keeps, KeepsRatings

\* A visitor's handler that changes only itself.
LEMMA HandlerMoves ==
  ASSUME SiteInv, NEW h \in Handlers,
         UNCHANGED <<widget, session, ids, rows, conversation, newer, feedback, acts>>,
         Site!Over(h) \/
           \E x \in VisitRow(rows) :
             /\ visit' = [visit EXCEPT ![h] = x]
             /\ Visiting(x)
  PROVE  SiteInv' /\ Keeps
  <1>1. /\ visit' \in [Handlers -> VisitRow(rows)]
        /\ \A k \in Handlers : Visiting(visit'[k])
    BY VisitMoves, VisitOver
  <1>2. SiteInv'
    BY <1>1, SiteTypes, SameCustomers DEF SiteInv, Site!TypeOK
  <1> QED
    BY <1>2, KeptIds, KeptShown DEF Keeps, KeepsRatings

LEMMA HandlerSteps ==
  ASSUME SiteInv, NEW h \in Handlers,
         \/ \E s \in Sessions :
              \/ Site!Begin(h, s, "open", Nobody)
              \/ \E op \in {"say", "rate"}, v \in Conversations : Site!Begin(h, s, op, v)
         \/ Site!OpenFails(h) \/ Site!FindOpen(h) \/ Site!Refused(h) \/ Site!CheckOpen(h)
         \/ Site!CheckEnded(h)
  PROVE  SiteInv' /\ Keeps
  <1>1. UNCHANGED <<widget, session, ids, rows, conversation, newer, feedback, acts>>
    BY DEF Site!Begin, Site!OpenFails, Site!FindOpen, Site!Refused, Site!CheckOpen, Site!CheckEnded
  <1> DEFINE Moves ==
        \E y \in VisitRow(rows) :
          /\ visit' = [visit EXCEPT ![h] = y]
          /\ Visiting(y)
  <1>2. ASSUME NEW s \in Sessions, NEW op \in {"open", "say", "rate"}, NEW v \in Conversations \cup {Nobody},
               Site!Begin(h, s, op, v), op # "open" => v \in Conversations
        PROVE  Moves
    <2> DEFINE x == [op |-> op, session |-> s, customer |-> session[s].customer, of |-> v]
    <2>1. session[s].customer \in rows \cup {Nobody}
      BY SiteTypes DEF SessionRow
    <2>2. x \in VisitRow(rows) /\ Visiting(x)
      BY <1>2, <2>1 DEF VisitRow, Site!Ops, Visiting
    <2>3. visit' = [visit EXCEPT ![h] = x]
      BY <1>2 DEF Site!Begin
    <2> HIDE DEF x
    <2> QED
      BY <2>2, <2>3
  <1>3. ASSUME NEW to \in {"insert", "said", "rated"}, visit' = [visit EXCEPT ![h].op = to],
               visit[h].op # "none", to = "insert" => visit[h].customer # Nobody,
               to # "insert" => visit[h].op \in {"say", "rate"}
        PROVE  Moves
    <2> DEFINE x == [visit[h] EXCEPT !.op = to]
    <2>1. visit[h] \in VisitRow(rows) /\ Visiting(visit[h])
      BY <1>3, SiteTypes DEF SiteInv
    <2>2. x \in VisitRow(rows) /\ Visiting(x)
      BY <1>3, <2>1 DEF VisitRow, Site!Ops, Visiting
    <2>3. visit' = [visit EXCEPT ![h] = x]
      BY <1>3
    <2> HIDE DEF x
    <2> QED
      BY <1>3, <2>1, <2>2, <2>3
  <1>4. Site!Over(h) \/ Moves
    <2>1. ASSUME Site!FindOpen(h) PROVE Site!Over(h) \/ Moves
      BY <1>3, <2>1 DEF Site!FindOpen
    <2>2. ASSUME Site!CheckOpen(h) \/ Site!CheckEnded(h) PROVE Site!Over(h) \/ Moves
      BY <1>3, <2>2 DEF Site!CheckOpen, Site!CheckEnded
    <2>3. ASSUME Site!OpenFails(h) \/ Site!Refused(h) PROVE Site!Over(h) \/ Moves
      BY <2>3 DEF Site!OpenFails, Site!Refused
    <2> QED
      BY <1>2, <2>1, <2>2, <2>3
  <1> QED
    BY <1>1, <1>4, HandlerMoves

LEMMA OpenAnotherStep ==
  ASSUME SiteInv, NEW h \in Handlers, Site!OpenAnother(h) PROVE SiteInv' /\ Keeps
  <1>1. /\ UNCHANGED <<widget, session, ids, rows, feedback, acts>>
        /\ visit[h].op = "insert" /\ Site!Over(h) /\ Site!AddConversation(visit[h].customer)
    BY DEF Site!OpenAnother
  <1>2. visit[h].customer \in rows
    BY <1>1, SiteTypes DEF SiteInv, VisitRow, Visiting
  <1>3. /\ conversation' \in [Conversations -> TalkRow(rows)]
        /\ newer' \subseteq Conversations \X Conversations
        /\ \A v \in Conversations : conversation[v].customer # Nobody => conversation'[v] = conversation[v]
    BY <1>1, <1>2, Adds
  <1>4. /\ visit' \in [Handlers -> VisitRow(rows)]
        /\ \A k \in Handlers : Visiting(visit'[k])
    BY <1>1, VisitOver
  <1>5. SiteInv'
    BY <1>1, <1>3, <1>4, SiteTypes, SameCustomers DEF SiteInv, Site!TypeOK
  <1> QED
    BY <1>1, <1>3, <1>5, KeptIds, KeptShown DEF Keeps, KeepsRatings

\* A message of the visitor opens its conversation again.
LEMMA SayStep ==
  ASSUME SiteInv, NEW h \in Handlers, Site!Say(h) PROVE SiteInv' /\ Keeps
  <1> PICK v \in Conversations : v = visit[h].of
    BY DEF Site!Say, SiteInv, Visiting
  <1>1. /\ UNCHANGED <<widget, session, ids, rows, feedback, acts>> /\ Site!Over(h)
        /\ conversation' = [conversation EXCEPT ![v].status = "open"] /\ Site!Bump(v)
    BY DEF Site!Say
  <1>2. /\ conversation' \in [Conversations -> TalkRow(rows)]
        /\ \A u \in Conversations : conversation[u].status = "open" =>
             conversation'[u] = conversation[u] \/ conversation'[u].status = "ended"
        /\ newer' \subseteq Conversations \X Conversations
    BY <1>1, Statuses, Bumps
  <1>3. /\ visit' \in [Handlers -> VisitRow(rows)]
        /\ \A k \in Handlers : Visiting(visit'[k])
    BY <1>1, VisitOver
  <1>4. SiteInv'
    BY <1>1, <1>2, <1>3, SiteTypes, SameCustomers DEF SiteInv, Site!TypeOK
  <1> QED
    BY <1>1, <1>2, <1>4, KeptIds, KeptShown DEF Keeps, KeepsRatings

\* A rating is written where there is none.
LEMMA RateStep ==
  ASSUME SiteInv, NEW h \in Handlers, NEW rating \in Ratings, Site!Rate(h, rating)
  PROVE  SiteInv' /\ Keeps
  <1>1. /\ UNCHANGED <<widget, session, ids, rows, conversation, newer, acts>> /\ Site!Over(h)
        /\ feedback' = [feedback EXCEPT ![visit[h].of] =
                          IF feedback[visit[h].of] = Nobody THEN rating ELSE feedback[visit[h].of]]
    BY DEF Site!Rate, Site!Rated
  <1>3. feedback' \in [Conversations -> Ratings \cup {Nobody}] /\ KeepsRatings
    BY <1>1, SiteTypes DEF KeepsRatings
  <1>4. /\ visit' \in [Handlers -> VisitRow(rows)]
        /\ \A k \in Handlers : Visiting(visit'[k])
    BY <1>1, VisitOver
  <1>5. SiteInv'
    BY <1>1, <1>3, <1>4, SiteTypes, SameCustomers DEF SiteInv, Site!TypeOK
  <1> QED
    BY <1>1, <1>3, <1>5, KeptIds, KeptShown DEF Keeps

\* The first conversation of a session: whoever was its customer by then has lost its
\* identifier, or there was none.
LEMMA OpenFirstStep ==
  ASSUME SiteInv, NEW h \in Handlers, Site!OpenFirst(h) PROVE SiteInv' /\ Keeps
  <1> PICK s \in Sessions : s = visit[h].session
    BY DEF Site!OpenFirst, SiteInv, Visiting
  <1> PICK c \in Customers : c = Site!New(Customers, rows)
    BY NewIsNew, SiteTypes DEF Site!OpenFirst, Site!CreateWith
  <1>1. /\ UNCHANGED <<widget, feedback, acts>> /\ Site!Over(h) /\ Site!AddConversation(c)
        /\ Site!CreateWith(Site!Widget(s)) /\ Site!Link(s, c)
    BY DEF Site!OpenFirst
  <1>2. Site!Widget(s) \in Site!Identifiers
    BY DEF Site!Widget, Site!Identifiers
  <1>3. /\ rows' = rows \cup {c} /\ ids' = [ids EXCEPT ![c] = {Site!Widget(s)}]
        /\ {Site!Widget(s)} \in SUBSET Site!Identifiers
        /\ \A j \in {Site!Widget(s)} : Site!Holders(j) \subseteq {c}
    BY <1>1, <1>2, Creates
  <1>4. Identified
    BY <1>3, Identifies
  <1>5. Site!Holders(Site!Widget(s)) = {}
    BY <1>1 DEF Site!CreateWith
  <1>6. /\ session \in [Sessions -> SessionRow(rows')]
        /\ session' \in [Sessions -> SessionRow(rows')]
        /\ \A t \in Sessions : t # s => session'[t] = session[t]
    <2>1. session \in [Sessions -> SessionRow(rows')]
      BY <1>3, SiteTypes, RowsGrow
    <2> DEFINE x == [session[s] EXCEPT !.customer = c]
    <2>2. session' = session \/ session' = [session EXCEPT ![s] = x]
      BY <1>1 DEF Site!Link
    <2>3. x \in SessionRow(rows')
      BY <1>3, <2>1 DEF SessionRow
    <2> HIDE DEF x
    <2> QED
      BY <2>1, <2>2, <2>3
  <1>7. /\ conversation' \in [Conversations -> TalkRow(rows')]
        /\ \A v \in Conversations : conversation[v].customer # Nobody => conversation'[v] = conversation[v]
        /\ newer' \subseteq Conversations \X Conversations
    BY <1>1, <1>3, Adds
  <1>8. /\ visit' \in [Handlers -> VisitRow(rows')]
        /\ \A k \in Handlers : Visiting(visit'[k])
    BY <1>1, <1>3, VisitOver
  <1>9. Site!TypeOK'
    BY <1>1, <1>4, <1>6, <1>7, <1>8 DEF Identified, SiteInv, Site!TypeOK, SessionRow, TalkRow, VisitRow
  <1>10. SiteInv'
    BY <1>4, <1>8, <1>9 DEF SiteInv, Identified
  <1>11. KeepsShown
    <2> SUFFICES ASSUME NEW t \in Sessions, session[t].customer # Nobody
                 PROVE  \/ \A v \in Site!Shown(t) : Followed(t, v)
                        \/ Site!Holders(Site!Widget(t)) = {}
      BY DEF KeepsShown
    <2>1. CASE t = s
      BY <1>5, <2>1
    <2>2. CASE t # s
      <3> SUFFICES ASSUME NEW v \in Site!Shown(t) PROVE Followed(t, v)
        OBVIOUS
      <3>1. session'[t].customer = session[t].customer
        BY <1>6, <2>2
      <3>2. /\ v \in Conversations
            /\ conversation'[v] = [customer |-> session[t].customer, status |-> "open"]
        BY <1>7 DEF Site!Shown, Site!Open
      <3> QED
        BY <3>1, <3>2 DEF Followed, Site!Shown, Site!Open
    <2> QED
      BY <2>1, <2>2
  <1> QED
    BY <1>1, <1>4, <1>10, <1>11 DEF Keeps, KeepsRatings, Identified

LEMMA SiteNext == ASSUME SiteInv, Site!Next PROVE SiteInv' /\ Keeps
  <1>1. ASSUME Site!Staff PROVE SiteInv' /\ Keeps
    BY <1>1, StaffSite, StaffTalks, StaffCustomers DEF Site!Staff
  <1>2. ASSUME NEW h \in Handlers, Site!Visitor(h) PROVE SiteInv' /\ Keeps
    <2>1. ASSUME Site!OpenFirst(h) PROVE SiteInv' /\ Keeps
      BY <2>1, OpenFirstStep
    <2>2. ASSUME Site!OpenAnother(h) PROVE SiteInv' /\ Keeps
      BY <2>2, OpenAnotherStep
    <2>3. ASSUME NEW rating \in Ratings, Site!Rate(h, rating) PROVE SiteInv' /\ Keeps
      BY <2>3, RateStep
    <2>4. ASSUME Site!Say(h) PROVE SiteInv' /\ Keeps
      BY <2>4, SayStep
    <2> QED
      BY <1>2, <2>1, <2>2, <2>3, <2>4, HandlerSteps DEF Site!Visitor
  <1> QED
    BY <1>1, <1>2, SessionsStep, WritesStep, StaffTalks DEF Site!Next

LEMMA SiteStutter == ASSUME SiteInv, UNCHANGED siteVars PROVE SiteInv' /\ Keeps
  <1>1. UNCHANGED <<widget, session, ids, rows, conversation, newer, feedback, visit, acts>>
    BY DEF siteVars
  <1>2. SiteInv'
    BY <1>1 DEF SiteInv, Site!TypeOK
  <1> QED
    BY <1>1, <1>2, KeptIds, KeptShown DEF Keeps, KeepsRatings


-----------------------------------------------------------------------------
(* Who is there to answer (Presence).                                      *)

Streaming == {Dashboard!Closed} \cup [of : Members, state : {"open", "dropping"}]

LEMMA DashboardCardinality == \A S : Dashboard!Cardinality(S) = Cardinality(S)
  BY DEF Dashboard!Cardinality, Cardinality

LEMMA DashboardConstants == NoMember \notin Members
  BY ChannelsAssumption DEF Dashboard!PresenceAssumption

\* The invariant, in the terms of the steps.
LEMMA PresenceIs ==
  ASSUME PresenceInv
  PROVE  /\ available \subseteq Members /\ unwatched \subseteq Members
         /\ present \in [Members -> Nat] /\ sleeping \in [Members -> Nat]
         /\ reverting \in [Members -> Nat]
         /\ \A m \in Members :
              /\ IsFiniteSet(Dashboard!Held(m)) /\ present[m] = Cardinality(Dashboard!Held(m))
              /\ present[m] \in Nat /\ sleeping[m] \in Nat /\ reverting[m] \in Nat
              /\ present[m] = 0 <=> Dashboard!Held(m) = {}
              /\ m \in available /\ Dashboard!Held(m) = {} /\ m \notin unwatched =>
                   sleeping[m] + reverting[m] > 0
  <1>1. ASSUME NEW m \in Members
        PROVE  /\ IsFiniteSet(Dashboard!Held(m)) /\ present[m] = Cardinality(Dashboard!Held(m))
               /\ m \in available /\ Dashboard!Held(m) = {} /\ m \notin unwatched =>
                    sleeping[m] + reverting[m] > 0
    BY DashboardCardinality DEF PresenceInv, Dashboard!AbsentAreReverted, Dashboard!Pending
  <1>2. ASSUME NEW m \in Members PROVE present[m] = 0 <=> Dashboard!Held(m) = {}
    BY <1>1, FS_EmptySet
  <1> QED
    BY <1>1, <1>2 DEF PresenceInv, Dashboard!TypeOK

LEMMA PresenceHolds ==
  ASSUME available \subseteq Members, unwatched \subseteq Members,
         present \in [Members -> Nat], sleeping \in [Members -> Nat],
         reverting \in [Members -> Nat],
         stream = [s \in Streams |-> stream[s]],
         \A s \in Streams : stream[s] = Dashboard!Closed
           \/ (stream[s].of \in Members /\ stream[s].state \in {"open", "dropping"}),
         \A m \in Members :
           /\ IsFiniteSet(Dashboard!Held(m)) /\ present[m] = Cardinality(Dashboard!Held(m))
           /\ m \in available /\ Dashboard!Held(m) = {} /\ m \notin unwatched =>
                sleeping[m] + reverting[m] > 0
  PROVE  PresenceInv
  <1>1. Dashboard!AbsentAreReverted
    BY DashboardCardinality DEF Dashboard!AbsentAreReverted, Dashboard!Pending
  <1> QED
    BY <1>1 DEF PresenceInv, Dashboard!TypeOK

LEMMA InitPresence == ASSUME Dashboard!Init PROVE PresenceInv
  <1>1. \A m \in Members : Dashboard!Held(m) = {}
    BY DashboardConstants DEF Dashboard!Init, Dashboard!Held, Dashboard!Closed
  <1>2. \A m \in Members : present[m] = 0
    BY DEF Dashboard!Init, Dashboard!None
  <1> QED
    BY <1>1, <1>2, PresenceHolds, FS_EmptySet DEF Dashboard!Init, Dashboard!None

\* A stream that opens or closes, and the count with it.
LEMMA HeldMoves ==
  ASSUME PresenceInv, NEW s \in Streams, NEW m \in Members, NEW x,
         stream' = [stream EXCEPT ![s] = x]
  PROVE  /\ stream' = [t \in Streams |-> stream'[t]]
         /\ \A t \in Streams : stream'[t] = IF t = s THEN x ELSE stream[t]
         /\ x.of = m /\ stream[s].of # m => Dashboard!Held(m)' = Dashboard!Held(m) \cup {s}
         /\ x.of # m /\ stream[s].of = m => Dashboard!Held(m)' = Dashboard!Held(m) \ {s}
         /\ (x.of = m <=> stream[s].of = m) => Dashboard!Held(m)' = Dashboard!Held(m)
  <1>1. stream' = [t \in Streams |-> IF t = s THEN x ELSE stream[t]]
    BY DEF PresenceInv
  <1>2. \A t \in Streams : stream'[t] = IF t = s THEN x ELSE stream[t]
    BY <1>1
  <1> QED
    BY <1>1, <1>2 DEF Dashboard!Held

\* Rows, reverts and their watch change under the same streams.
LEMMA SameStreams ==
  ASSUME PresenceInv, UNCHANGED <<present, stream>>,
         available' \subseteq Members, unwatched' \subseteq Members,
         sleeping' \in [Members -> Nat], reverting' \in [Members -> Nat],
         \A m \in Members :
           m \in available' /\ Dashboard!Held(m) = {} /\ m \notin unwatched' =>
             sleeping'[m] + reverting'[m] > 0
  PROVE  PresenceInv'
  <1>1. \A m \in Members : Dashboard!Held(m)' = Dashboard!Held(m)
    BY DEF Dashboard!Held
  <1>2. Dashboard!AbsentAreReverted'
    BY <1>1, PresenceIs, DashboardCardinality DEF Dashboard!AbsentAreReverted, Dashboard!Pending
  <1>3. Dashboard!TypeOK'
    BY DEF PresenceInv, Dashboard!TypeOK
  <1> QED
    BY <1>1, <1>2, <1>3 DEF PresenceInv

LEMMA AvailabilityStep ==
  ASSUME PresenceInv, NEW m \in Members, NEW state \in {"available", "away"},
         Dashboard!SetAvailability(m, state)
  PROVE  PresenceInv'
  <1>1. UNCHANGED <<present, stream, sleeping, reverting>>
    BY DEF Dashboard!SetAvailability
  <1>2. /\ available' \subseteq Members /\ unwatched' \subseteq Members
        /\ \A a \in Members : a # m => (a \in available' <=> a \in available)
                                       /\ (a \in unwatched' <=> a \in unwatched)
        /\ m \in available' /\ Dashboard!Held(m) = {} /\ Dashboard!Pending(m) = 0 => m \in unwatched'
    <2>1. CASE state = "away"
      BY <2>1, PresenceIs DEF Dashboard!SetAvailability
    <2>2. CASE state = "available"
      BY <2>2, PresenceIs DEF Dashboard!SetAvailability
    <2> QED
      BY <2>1, <2>2
  <1>3. \A a \in Members :
          a \in available' /\ Dashboard!Held(a) = {} /\ a \notin unwatched' => sleeping[a] + reverting[a] > 0
    BY <1>2, PresenceIs DEF Dashboard!Pending
  <1> QED
    BY <1>1, <1>2, <1>3, PresenceIs, SameStreams

LEMMA WakeStep ==
  ASSUME PresenceInv, NEW m \in Members, Dashboard!Wake(m) PROVE PresenceInv'
  <1>1. /\ sleeping[m] > 0 /\ sleeping' = [sleeping EXCEPT ![m] = sleeping[m] - 1]
        /\ reverting' = IF present[m] = 0 THEN [reverting EXCEPT ![m] = reverting[m] + 1] ELSE reverting
        /\ UNCHANGED <<available, present, stream, unwatched>>
    BY DEF Dashboard!Wake
  <1>2. sleeping' \in [Members -> Nat] /\ reverting' \in [Members -> Nat]
    BY <1>1, PresenceIs
  <1>3. ASSUME NEW a \in Members, a \in available, Dashboard!Held(a) = {}, a \notin unwatched
        PROVE  sleeping'[a] + reverting'[a] > 0
    BY <1>1, <1>3, PresenceIs
  <1> QED
    BY <1>1, <1>2, <1>3, PresenceIs, SameStreams

LEMMA RevertStep ==
  ASSUME PresenceInv, NEW m \in Members, NEW fails \in BOOLEAN, Dashboard!Revert(m, fails)
  PROVE  PresenceInv'
  <1>1. /\ reverting[m] > 0 /\ reverting' = [reverting EXCEPT ![m] = reverting[m] - 1]
        /\ UNCHANGED <<present, stream, sleeping>>
    BY DEF Dashboard!Revert
  <1>2. reverting' \in [Members -> Nat] /\ \A a \in Members : a # m => reverting'[a] = reverting[a]
    BY <1>1, PresenceIs
  <1>3. \/ available' = available /\ unwatched' = unwatched \cup {m}
        \/ available' = available \ {m} /\ unwatched' = unwatched \ {m}
    BY Zenon DEF Dashboard!Revert
  <1>4. available' \subseteq Members /\ unwatched' \subseteq Members
    BY <1>3, PresenceIs
  <1>5. ASSUME NEW a \in Members, a \in available', Dashboard!Held(a) = {}, a \notin unwatched'
        PROVE  sleeping'[a] + reverting'[a] > 0
    <2>1. a # m /\ a \in available /\ a \notin unwatched
      BY <1>3, <1>5
    <2> QED
      BY <1>1, <1>2, <1>5, <2>1, PresenceIs
  <1> QED
    BY <1>1, <1>2, <1>4, <1>5, PresenceIs, SameStreams

LEMMA ConnectStep ==
  ASSUME PresenceInv, NEW s \in Streams, NEW m \in Members, Dashboard!Connect(s, m)
  PROVE  PresenceInv'
  <1> DEFINE x == [of |-> m, state |-> "open"]
  <1>1. /\ stream[s] = Dashboard!Closed /\ stream' = [stream EXCEPT ![s] = x]
        /\ present' = [present EXCEPT ![m] = present[m] + 1] /\ unwatched' = unwatched \ {m}
        /\ UNCHANGED <<available, sleeping, reverting>>
    BY DEF Dashboard!Connect
  <1>2. x.of = m /\ x.state = "open"
    OBVIOUS
  <1> HIDE DEF x
  <1>3. stream[s].of = NoMember
    BY <1>1 DEF Dashboard!Closed
  <1>4. Dashboard!Held(m)' = Dashboard!Held(m) \cup {s} /\ s \notin Dashboard!Held(m)
    BY <1>1, <1>2, <1>3, DashboardConstants, HeldMoves DEF Dashboard!Held
  <1>5. ASSUME NEW a \in Members, a # m PROVE Dashboard!Held(a)' = Dashboard!Held(a)
    <2>1. x.of = a <=> stream[s].of = a
      BY <1>2, <1>3, <1>5, DashboardConstants
    <2> QED
      BY <1>1, <2>1, HeldMoves
  <1>6. /\ IsFiniteSet(Dashboard!Held(m)')
        /\ Cardinality(Dashboard!Held(m)') = Cardinality(Dashboard!Held(m)) + 1
    BY <1>4, PresenceIs, FS_AddElement
  <1>7. present' \in [Members -> Nat] /\ present'[m] = present[m] + 1
        /\ \A a \in Members : a # m => present'[a] = present[a]
    BY <1>1, PresenceIs
  <1>8. ASSUME NEW a \in Members
        PROVE  /\ IsFiniteSet(Dashboard!Held(a)') /\ present'[a] = Cardinality(Dashboard!Held(a)')
               /\ a \in available' /\ Dashboard!Held(a)' = {} /\ a \notin unwatched' =>
                    sleeping'[a] + reverting'[a] > 0
    <2>1. CASE a = m
      BY <1>4, <1>6, <1>7, <2>1, PresenceIs
    <2>2. CASE a # m
      BY <1>1, <1>5, <1>7, <2>2, PresenceIs
    <2> QED
      BY <2>1, <2>2
  <1>9. /\ stream' = [t \in Streams |-> stream'[t]]
        /\ \A t \in Streams : stream'[t] = IF t = s THEN x ELSE stream[t]
    BY <1>1, HeldMoves
  <1>10. Dashboard!AbsentAreReverted'
    BY <1>8, DashboardCardinality DEF Dashboard!AbsentAreReverted, Dashboard!Pending
  <1>11. Dashboard!TypeOK'
    BY <1>1, <1>2, <1>7, <1>9, PresenceIs DEF PresenceInv, Dashboard!TypeOK
  <1> QED
    BY <1>8, <1>9, <1>10, <1>11 DEF PresenceInv

LEMMA LeaveStep ==
  ASSUME PresenceInv, NEW s \in Streams, Dashboard!Leave(s) PROVE PresenceInv'
  <1> DEFINE x == [stream[s] EXCEPT !.state = "dropping"]
  <1>1. /\ stream[s].state = "open" /\ stream' = [stream EXCEPT ![s] = x]
        /\ UNCHANGED <<available, present, sleeping, reverting, unwatched>>
    BY DEF Dashboard!Leave
  <1>2. stream[s] # Dashboard!Closed
    BY <1>1 DEF Dashboard!Closed
  <1>3. stream[s].of \in Members
    BY <1>2 DEF PresenceInv, Dashboard!TypeOK
  <1>4. x.of = stream[s].of /\ x.state = "dropping"
    BY DEF PresenceInv, Dashboard!TypeOK
  <1> HIDE DEF x
  <1>5. ASSUME NEW a \in Members PROVE Dashboard!Held(a)' = Dashboard!Held(a)
    <2>1. x.of = a <=> stream[s].of = a
      BY <1>4
    <2> QED
      BY <1>1, <2>1, HeldMoves
  <1>6. /\ stream' = [t \in Streams |-> stream'[t]]
        /\ \A t \in Streams : stream'[t] = IF t = s THEN x ELSE stream[t]
    BY <1>1, <1>3, HeldMoves
  <1>7. Dashboard!AbsentAreReverted'
    BY <1>1, <1>5, DashboardCardinality, PresenceIs DEF Dashboard!AbsentAreReverted, Dashboard!Pending
  <1>8. Dashboard!TypeOK'
    BY <1>1, <1>3, <1>4, <1>6, PresenceIs DEF PresenceInv, Dashboard!TypeOK
  <1> QED
    BY <1>5, <1>6, <1>7, <1>8, PresenceIs DEF PresenceInv

\* The last of a member's streams leaves a revert behind.
LEMMA TakeBackStep ==
  ASSUME PresenceInv, NEW s \in Streams, Dashboard!TakeBack(s) PROVE PresenceInv'
  <1>1. stream[s] # Dashboard!Closed
    BY DEF Dashboard!TakeBack, Dashboard!Closed
  <1> PICK m \in Members : m = stream[s].of
    BY <1>1 DEF PresenceInv, Dashboard!TypeOK
  <1> PICK x : x = Dashboard!Closed
    OBVIOUS
  <1>2. /\ stream' = [stream EXCEPT ![s] = x]
        /\ present' = [present EXCEPT ![m] = present[m] - 1]
        /\ sleeping' = IF present[m] = 1 THEN [sleeping EXCEPT ![m] = sleeping[m] + 1] ELSE sleeping
        /\ UNCHANGED <<available, reverting, unwatched>>
    BY DEF Dashboard!TakeBack
  <1>3. x.of = NoMember
    BY DEF Dashboard!Closed
  <1>4. Dashboard!Held(m)' = Dashboard!Held(m) \ {s} /\ s \in Dashboard!Held(m)
    BY <1>2, <1>3, DashboardConstants, HeldMoves DEF Dashboard!Held
  <1>5. ASSUME NEW a \in Members, a # m PROVE Dashboard!Held(a)' = Dashboard!Held(a)
    <2>1. x.of = a <=> stream[s].of = a
      BY <1>3, <1>5, DashboardConstants
    <2> QED
      BY <1>2, <2>1, HeldMoves
  <1>6. /\ IsFiniteSet(Dashboard!Held(m)')
        /\ Cardinality(Dashboard!Held(m)') = Cardinality(Dashboard!Held(m)) - 1
    BY <1>4, PresenceIs, FS_RemoveElement
  <1>7. present[m] >= 1
    BY <1>4, PresenceIs
  <1>8. present' \in [Members -> Nat] /\ present'[m] = present[m] - 1
        /\ \A a \in Members : a # m => present'[a] = present[a]
    BY <1>2, <1>7, PresenceIs
  <1>9. /\ sleeping' \in [Members -> Nat]
        /\ present[m] = 1 => sleeping'[m] > 0
        /\ \A a \in Members : a # m => sleeping'[a] = sleeping[a]
    BY <1>2, PresenceIs
  <1>10. ASSUME NEW a \in Members
        PROVE  /\ IsFiniteSet(Dashboard!Held(a)') /\ present'[a] = Cardinality(Dashboard!Held(a)')
               /\ a \in available' /\ Dashboard!Held(a)' = {} /\ a \notin unwatched' =>
                    sleeping'[a] + reverting'[a] > 0
    <2>1. CASE a = m
      <3>1. present'[m] = Cardinality(Dashboard!Held(m)')
        BY <1>6, <1>8, PresenceIs
      <3>2. ASSUME Dashboard!Held(m)' = {} PROVE sleeping'[m] > 0
        <4>1. Cardinality(Dashboard!Held(m)') = 0
          BY <3>2, FS_EmptySet
        <4>2. present[m] = 1
          BY <1>6, <4>1, PresenceIs
        <4> QED
          BY <1>9, <4>2
      <3>3. sleeping'[m] \in Nat /\ reverting'[m] \in Nat
        BY <1>2, <1>9, PresenceIs
      <3> QED
        BY <1>6, <2>1, <3>1, <3>2, <3>3
    <2>2. CASE a # m
      BY <1>2, <1>5, <1>8, <1>9, <2>2, PresenceIs
    <2> QED
      BY <2>1, <2>2
  <1>11. /\ stream' = [t \in Streams |-> stream'[t]]
        /\ \A t \in Streams : stream'[t] = IF t = s THEN x ELSE stream[t]
    BY <1>2, HeldMoves
  <1>12. Dashboard!AbsentAreReverted'
    BY <1>10, DashboardCardinality DEF Dashboard!AbsentAreReverted, Dashboard!Pending
  <1>13. Dashboard!TypeOK'
    BY <1>2, <1>8, <1>9, <1>11, PresenceIs DEF PresenceInv, Dashboard!TypeOK
  <1> QED
    BY <1>10, <1>11, <1>12, <1>13 DEF PresenceInv

\* A process begins with a revert for everybody who is available, or with nobody watched.
LEMMA RestartStep ==
  ASSUME PresenceInv, NEW swept \in BOOLEAN, Dashboard!Restart(swept) PROVE PresenceInv'
  <1>1. /\ present' = Dashboard!None /\ reverting' = Dashboard!None /\ available' = available
        /\ stream' = [s \in Streams |-> Dashboard!Closed]
    BY DEF Dashboard!Restart
  <1>2. \A m \in Members : Dashboard!Held(m)' = {}
    BY <1>1, DashboardConstants DEF Dashboard!Held, Dashboard!Closed
  <1>3. \A m \in Members : present'[m] = 0 /\ reverting'[m] = 0
    BY <1>1 DEF Dashboard!None
  <1>4. \A m \in Members : IsFiniteSet(Dashboard!Held(m)') /\ Cardinality(Dashboard!Held(m)') = 0
    BY <1>2, FS_EmptySet
  <1>5. /\ sleeping' \in [Members -> Nat] /\ unwatched' \subseteq Members
        /\ \A m \in Members : m \in available /\ m \notin unwatched' => sleeping'[m] = 1
    <2>1. CASE swept
      <3>1. sleeping' = [m \in Members |-> IF m \in available THEN 1 ELSE 0] /\ unwatched' = {}
        BY <2>1, Zenon DEF Dashboard!Restart
      <3> QED
        BY <3>1
    <2>2. CASE ~swept
      <3>1. unwatched' = available /\ sleeping' = [m \in Members |-> 0]
        BY <2>2, Zenon DEF Dashboard!Restart
      <3> QED
        BY <3>1, PresenceIs
    <2> QED
      BY <2>1, <2>2
  <1>6. Dashboard!AbsentAreReverted'
    BY <1>1, <1>3, <1>4, <1>5, DashboardCardinality DEF Dashboard!AbsentAreReverted, Dashboard!Pending
  <1>7. Dashboard!TypeOK'
    BY <1>1, <1>5, PresenceIs DEF Dashboard!TypeOK, Dashboard!None
  <1>8. stream' = [s \in Streams |-> stream'[s]]
    BY <1>1
  <1> QED
    BY <1>4, <1>6, <1>7, <1>8 DEF PresenceInv

LEMMA PresenceNext == ASSUME PresenceInv, Dashboard!Next PROVE PresenceInv'
  BY AvailabilityStep, WakeStep, RevertStep, ConnectStep, LeaveStep, TakeBackStep, RestartStep
  DEF Dashboard!Next

LEMMA PresenceStutter == ASSUME PresenceInv, UNCHANGED presenceVars PROVE PresenceInv'
  <1>1. UNCHANGED <<available, present, stream, sleeping, reverting, unwatched>>
    BY DEF presenceVars
  <1> QED
    BY <1>1, PresenceIs, SameStreams


-----------------------------------------------------------------------------
(* Who reads a list page by page (Paging).                                 *)

Written == [talk : Pages!Ids, at : 0 .. MaxClock, seq : 0 .. MaxWrites,
            step : {"begun", "inserted", "there"}]

LEMMA PagesCardinality == \A S : Pages!Cardinality(S) = Cardinality(S)
  BY DEF Pages!Cardinality, Cardinality

LEMMA PagesConstants ==
  /\ Talks \in Nat /\ PageLimit \in Nat /\ Talks >= 1 /\ PageLimit >= 1
  /\ MaxWrites \in Nat /\ MaxClock \in Nat /\ MaxPatches \in Nat /\ Talks <= MaxWrites
  BY ChannelsAssumption DEF Pages!PagingAssumption

\* The comparison of keys is a strict total order.
LEMMA KeyIs == ASSUME NEW k \in Keys PROVE k[1] \in Nat /\ k[2] \in Nat /\ k = <<k[1], k[2]>>
  BY DEF Keys

LEMMA BelowTransitive ==
  ASSUME NEW k \in Keys, NEW l \in Keys, NEW m \in Keys, Pages!Below(k, l), Pages!Below(l, m)
  PROVE  Pages!Below(k, m)
  BY KeyIs DEF Pages!Below

LEMMA BelowTotal ==
  ASSUME NEW k \in Keys, NEW l \in Keys
  PROVE  /\ k = l \/ Pages!Below(k, l) \/ Pages!Below(l, k)
         /\ ~ Pages!Below(k, k)
         /\ Pages!Below(k, l) => ~ Pages!Below(l, k)
  BY KeyIs DEF Pages!Below

\* The top of a list is no key.
LEMMA TopIsNoKey == Pages!Top \notin Keys
  BY DEF Pages!Top, Keys

LEMMA PageTypes ==
  ASSUME PageInv
  PROVE  /\ write \in Seq(Written) /\ activity \in [Pages!Ids -> 0 .. MaxClock]
         /\ \A w \in DOMAIN write : write[w] \in Written
         /\ \A list : Pages!RowsOf(list) \subseteq Keys
  <1>1. write \in Seq(Written) /\ activity \in [Pages!Ids -> 0 .. MaxClock]
    BY DEF PageInv, Pages!TypeOK, Written
  <1>2. \A w \in DOMAIN write : write[w] \in Written
    BY <1>1
  <1>3. Pages!OpenTalks \subseteq Keys
    <2> SUFFICES ASSUME NEW c \in Pages!Ids PROVE <<activity[c], c>> \in Keys
      BY DEF Pages!OpenTalks
    <2>1. activity[c] \in Nat /\ c \in Nat
      BY <1>1, PagesConstants DEF Pages!Ids
    <2> QED
      BY <2>1 DEF Keys
  <1>4. ASSUME NEW list PROVE Pages!Timeline(list) \subseteq Keys
    <2>1. \A w \in DOMAIN write : <<write[w].at, write[w].seq>> \in Keys
      BY <1>2, PagesConstants DEF Written, Keys
    <2> QED
      BY <2>1 DEF Pages!Timeline, Pages!Range
  <1> QED
    BY <1>1, <1>2, <1>3, <1>4 DEF Pages!RowsOf

LEMMA InitPages == ASSUME Pages!Init PROVE PageInv
  <1>1. /\ now = 0 /\ activity = [c \in Pages!Ids |-> 0] /\ ended = {} /\ patches = 0
        /\ write = [c \in Pages!Ids |-> [talk |-> c, at |-> 0, seq |-> c, step |-> "there"]]
        /\ walk = [list |-> Pages!Inbox, cursor |-> Pages!Top, seen |-> <<>>, settled |-> {},
                   step |-> "idle"]
    BY DEF Pages!Init
  <1>2. 0 \in 0 .. MaxClock /\ 0 \in 0 .. MaxPatches
    BY PagesConstants
  <1>3. \A c \in Pages!Ids : [talk |-> c, at |-> 0, seq |-> c, step |-> "there"] \in Written
    BY <1>2, PagesConstants DEF Written, Pages!Ids
  <1>4. write \in Seq(Written) /\ Len(write) = Talks /\ DOMAIN write = Pages!Ids
    BY <1>1, <1>3, PagesConstants DEF Pages!Ids
  <1>5. Pages!TypeOK
    BY <1>1, <1>2, <1>4 DEF Pages!TypeOK, Written
  <1>6. \A w \in DOMAIN write : write[w].step = "begun" <=> write[w].seq = 0
    BY <1>1, <1>4 DEF Pages!Ids
  <1>7. WalkInv
    BY <1>1 DEF WalkInv
  <1>8. Pages!PagesAreWhole
    BY <1>1 DEF Pages!PagesAreWhole
  <1> QED
    BY <1>1, <1>4, <1>5, <1>6, <1>7, <1>8, PagesConstants DEF PageInv

\* The lists change under the walk: what he cannot miss is still there.
LEMMA ListsChange ==
  ASSUME PageInv, Pages!TypeOK', Len(write') <= MaxWrites,
         \A w \in DOMAIN write' : write'[w].step = "begun" <=> write'[w].seq = 0,
         NEW settled, settled \subseteq walk.settled, walk' = [walk EXCEPT !.settled = settled],
         walk.step \in {"idle", "more"} => settled \subseteq Pages!RowsOf(walk.list)'
  PROVE  PageInv'
  <1>1. /\ walk' = [list |-> walk'.list, cursor |-> walk'.cursor, seen |-> walk'.seen,
                    settled |-> walk'.settled, step |-> walk'.step]
        /\ walk'.list = walk.list /\ walk'.cursor = walk.cursor /\ walk'.seen = walk.seen
        /\ walk'.settled = settled /\ walk'.step = walk.step
    BY DEF PageInv
  <1>2. WalkInv'
    BY <1>1 DEF PageInv, WalkInv
  <1>3. Pages!PagesAreWhole'
    BY <1>1 DEF PageInv, Pages!PagesAreWhole, Pages!Passed
  <1> QED
    BY <1>1, <1>2, <1>3 DEF PageInv

LEMMA SameWalk == ASSUME PageInv PROVE walk = [walk EXCEPT !.settled = walk.settled]
  BY DEF PageInv

\* A timeline has what is there.
LEMMA TimelineIs ==
  ASSUME NEW list, NEW k
  PROVE  k \in Pages!Timeline(list) <=>
           \E w \in DOMAIN write :
             write[w].talk = list /\ write[w].step = "there" /\ k = <<write[w].at, write[w].seq>>
  BY DEF Pages!Timeline, Pages!Range

LEMMA BeginWriteStep == ASSUME PageInv, Pages!BeginWrite PROVE PageInv'
  <1> PICK c \in Pages!Ids, t \in {now, now + 1} :
        /\ t <= MaxClock /\ now' = t
        /\ write' = Append(write, [talk |-> c, at |-> t, seq |-> 0, step |-> "begun"])
    BY DEF Pages!BeginWrite
  <1> DEFINE new == [talk |-> c, at |-> t, seq |-> 0, step |-> "begun"]
  <1>1. /\ Len(write) < MaxWrites /\ UNCHANGED <<activity, ended, patches, walk>>
    BY DEF Pages!BeginWrite
  <1>2. t \in 0 .. MaxClock
    BY PagesConstants DEF PageInv, Pages!TypeOK
  <1>3. new \in Written /\ new.seq = 0 /\ new.step = "begun"
    BY <1>2, PagesConstants DEF Written
  <1>4. write' = Append(write, new)
    OBVIOUS
  <1> HIDE DEF new
  <1>5. /\ write' \in Seq(Written) /\ Len(write') = Len(write) + 1
        /\ \A w \in DOMAIN write : w \in DOMAIN write' /\ write'[w] = write[w]
        /\ \A w \in DOMAIN write' : w \in DOMAIN write \/ write'[w] = new
    BY <1>3, <1>4, PageTypes
  <1>6. Pages!TypeOK'
    BY <1>1, <1>2, <1>5 DEF PageInv, Pages!TypeOK, Written
  <1>7. \A w \in DOMAIN write' : write'[w].step = "begun" <=> write'[w].seq = 0
    BY <1>3, <1>5 DEF PageInv
  <1>8. Pages!RowsOf(walk.list) \subseteq Pages!RowsOf(walk.list)'
    <2>1. Pages!OpenTalks' = Pages!OpenTalks
      BY <1>1 DEF Pages!OpenTalks
    <2>2. ASSUME NEW k \in Pages!Timeline(walk.list) PROVE k \in Pages!Timeline(walk.list)'
      <3>1. PICK w \in DOMAIN write :
              write[w].talk = walk.list /\ write[w].step = "there" /\ k = <<write[w].at, write[w].seq>>
        BY TimelineIs
      <3> QED
        BY <1>1, <1>5, <3>1 DEF Pages!Timeline, Pages!Range
    <2> QED
      BY <1>1, <2>1, <2>2 DEF Pages!RowsOf
  <1>9. walk.step \in {"idle", "more"} => walk.settled \subseteq Pages!RowsOf(walk.list)'
    BY <1>8 DEF PageInv, WalkInv
  <1>10. Len(write') <= MaxWrites
    BY <1>1, <1>5, PageTypes, PagesConstants
  <1>11. walk' = [walk EXCEPT !.settled = walk.settled]
    BY <1>1, SameWalk
  <1> QED
    BY <1>6, <1>7, <1>9, <1>10, <1>11, ListsChange

\* One written message changes in place.
LEMMA Rewrites ==
  ASSUME PageInv, NEW w \in DOMAIN write, NEW x \in Written, write' = [write EXCEPT ![w] = x],
         x.step = "begun" <=> x.seq = 0
  PROVE  /\ write' \in Seq(Written) /\ Len(write') = Len(write) /\ Len(write') <= MaxWrites
         /\ DOMAIN write' = DOMAIN write
         /\ \A v \in DOMAIN write : write'[v] = IF v = w THEN x ELSE write[v]
         /\ \A v \in DOMAIN write' : write'[v].step = "begun" <=> write'[v].seq = 0
  <1>1. write' \in Seq(Written) /\ Len(write') = Len(write) /\ DOMAIN write' = DOMAIN write
    BY PageTypes
  <1>2. \A v \in DOMAIN write : write'[v] = IF v = w THEN x ELSE write[v]
    BY PageTypes
  <1> QED
    BY <1>1, <1>2 DEF PageInv

LEMMA InsertMessageStep ==
  ASSUME PageInv, NEW w \in DOMAIN write, Pages!InsertMessage(w) PROVE PageInv'
  <1> DEFINE counted == {v \in DOMAIN write : write[v].seq > 0}
  <1> PICK seq : seq = 1 + Cardinality(counted)
    OBVIOUS
  <1>1. /\ write[w].step = "begun"
        /\ write' = [write EXCEPT ![w].seq = seq, ![w].step = "inserted"]
        /\ UNCHANGED <<now, activity, ended, patches, walk>>
    BY PagesCardinality DEF Pages!InsertMessage
  <1>2. seq \in 0 .. MaxWrites /\ seq # 0
    <2>1. PICK n \in Nat : DOMAIN write = 1 .. n /\ n <= MaxWrites
      BY PageTypes DEF PageInv
    <2>2. IsFiniteSet(1 .. n) /\ Cardinality(1 .. n) = n
      BY FS_Interval
    <2>3. w \in 1 .. n /\ counted \subseteq (1 .. n) \ {w}
      BY <1>1, <2>1 DEF PageInv
    <2>4. IsFiniteSet((1 .. n) \ {w}) /\ Cardinality((1 .. n) \ {w}) = n - 1
      BY <2>2, <2>3, FS_RemoveElement
    <2>5. Cardinality(counted) \in Nat /\ Cardinality(counted) <= n - 1
      BY <2>3, <2>4, FS_Subset, FS_CardinalityType
    <2> QED
      BY <2>1, <2>5, PagesConstants
  <1> HIDE DEF counted
  <1> DEFINE x == [write[w] EXCEPT !.seq = seq, !.step = "inserted"]
  <1>3. write' = [write EXCEPT ![w] = x]
    BY <1>1
  <1>4. x \in Written /\ x.seq = seq /\ x.step = "inserted"
    BY <1>2, PageTypes DEF Written
  <1> HIDE DEF x
  <1>5. /\ write' \in Seq(Written) /\ Len(write') <= MaxWrites /\ DOMAIN write' = DOMAIN write
        /\ \A v \in DOMAIN write : write'[v] = IF v = w THEN x ELSE write[v]
        /\ \A v \in DOMAIN write' : write'[v].step = "begun" <=> write'[v].seq = 0
    BY <1>2, <1>3, <1>4, Rewrites
  <1>6. Pages!TypeOK'
    BY <1>1, <1>5 DEF PageInv, Pages!TypeOK, Written
  <1>7. Pages!RowsOf(walk.list) \subseteq Pages!RowsOf(walk.list)'
    <2>1. Pages!OpenTalks' = Pages!OpenTalks
      BY <1>1 DEF Pages!OpenTalks
    <2>2. ASSUME NEW k \in Pages!Timeline(walk.list) PROVE k \in Pages!Timeline(walk.list)'
      <3>1. PICK v \in DOMAIN write :
              write[v].talk = walk.list /\ write[v].step = "there" /\ k = <<write[v].at, write[v].seq>>
        BY TimelineIs
      <3>2. v # w
        BY <1>1, <3>1
      <3> QED
        BY <1>1, <1>5, <3>1, <3>2 DEF Pages!Timeline, Pages!Range
    <2> QED
      BY <1>1, <2>1, <2>2 DEF Pages!RowsOf
  <1>8. walk.step \in {"idle", "more"} => walk.settled \subseteq Pages!RowsOf(walk.list)'
    BY <1>7 DEF PageInv, WalkInv
  <1>9. walk' = [walk EXCEPT !.settled = walk.settled]
    BY <1>1, SameWalk
  <1> QED
    BY <1>5, <1>6, <1>8, <1>9, ListsChange

\* A conversation leaves the rows that a walk through the inbox cannot miss, and the others
\* keep their place.
LEMMA Unsettles ==
  ASSUME PageInv, NEW c \in Pages!Ids, Pages!Unsettle(c), Pages!TypeOK', Len(write') <= MaxWrites,
         \A w \in DOMAIN write' : write'[w].step = "begun" <=> write'[w].seq = 0,
         \A list : Pages!Timeline(list) \subseteq Pages!Timeline(list)',
         \A d \in Pages!Ids : d # c => activity'[d] = activity[d] /\ (d \in ended' => d \in ended)
  PROVE  PageInv'
  <1>1. PICK settled \in SUBSET walk.settled :
          /\ walk' = [walk EXCEPT !.settled = settled]
          /\ walk.list = Pages!Inbox => \A k \in settled : k[2] # c
    <2>1. CASE walk.list = Pages!Inbox
      <3> DEFINE others == {k \in walk.settled : k[2] # c}
      <3>1. walk' = [walk EXCEPT !.settled = others]
        BY <2>1 DEF Pages!Unsettle
      <3>2. others \in SUBSET walk.settled /\ \A k \in others : k[2] # c
        OBVIOUS
      <3> HIDE DEF others
      <3> QED
        BY <3>1, <3>2
    <2>2. CASE walk.list # Pages!Inbox
      BY <2>2, SameWalk DEF Pages!Unsettle
    <2> QED
      BY <2>1, <2>2
  <1>2. ASSUME walk.step \in {"idle", "more"} PROVE settled \subseteq Pages!RowsOf(walk.list)'
    <2>1. settled \subseteq Pages!RowsOf(walk.list)
      BY <1>2 DEF PageInv, WalkInv
    <2>2. walk.list' = walk.list
      BY <1>1 DEF PageInv
    <2>3. CASE walk.list = Pages!Inbox
      <3> SUFFICES ASSUME NEW k \in settled PROVE k \in Pages!OpenTalks'
        BY <2>2, <2>3 DEF Pages!RowsOf
      <3>1. PICK d \in Pages!Ids \ ended : k = <<activity[d], d>>
        BY <2>1, <2>3 DEF Pages!RowsOf, Pages!OpenTalks
      <3>2. d # c
        BY <1>1, <2>3, <3>1
      <3> QED
        BY <3>1, <3>2 DEF Pages!OpenTalks
    <2>4. CASE walk.list # Pages!Inbox
      BY <2>1, <2>2, <2>4 DEF Pages!RowsOf
    <2> QED
      BY <2>3, <2>4
  <1> QED
    BY <1>1, <1>2, ListsChange

LEMMA BumpStep ==
  ASSUME PageInv, NEW w \in DOMAIN write, NEW kind \in {"customer", "note"}, Pages!Bump(w, kind)
  PROVE  PageInv'
  <1> PICK c \in Pages!Ids : c = write[w].talk
    BY PageTypes DEF Written
  <1> DEFINE x == [write[w] EXCEPT !.step = "there"]
  <1>1. /\ write[w].step = "inserted" /\ write' = [write EXCEPT ![w] = x]
        /\ activity' = [activity EXCEPT ![c] = write[w].at]
        /\ ended' = ended \/ ended' = ended \ {c}
        /\ Pages!Unsettle(c) /\ UNCHANGED <<now, patches>>
    BY DEF Pages!Bump
  <1>2. x \in Written /\ x.seq = write[w].seq /\ x.step = "there"
    BY PageTypes DEF Written
  <1>3. write[w].seq # 0 /\ write[w].at \in 0 .. MaxClock
    BY <1>1, PageTypes DEF PageInv, Written
  <1> HIDE DEF x
  <1>4. /\ write' \in Seq(Written) /\ Len(write') <= MaxWrites /\ DOMAIN write' = DOMAIN write
        /\ \A v \in DOMAIN write : write'[v] = IF v = w THEN x ELSE write[v]
        /\ \A v \in DOMAIN write' : write'[v].step = "begun" <=> write'[v].seq = 0
    BY <1>1, <1>2, <1>3, Rewrites
  <1>5. /\ activity' \in [Pages!Ids -> 0 .. MaxClock] /\ ended' \subseteq Pages!Ids
        /\ \A d \in Pages!Ids : d # c => activity'[d] = activity[d] /\ (d \in ended' => d \in ended)
    BY <1>1, <1>3, PageTypes DEF PageInv, Pages!TypeOK
  <1>6. walk'.step = walk.step /\ walk'.list = walk.list
    BY <1>1 DEF Pages!Unsettle, PageInv
  <1>7. Pages!TypeOK'
    BY <1>1, <1>4, <1>5, <1>6 DEF PageInv, Pages!TypeOK, Written
  <1>8. ASSUME NEW list PROVE Pages!Timeline(list) \subseteq Pages!Timeline(list)'
    <2> SUFFICES ASSUME NEW k \in Pages!Timeline(list) PROVE k \in Pages!Timeline(list)'
      OBVIOUS
    <2>1. PICK v \in DOMAIN write :
            write[v].talk = list /\ write[v].step = "there" /\ k = <<write[v].at, write[v].seq>>
      BY TimelineIs
    <2>2. v # w
      BY <1>1, <2>1
    <2> QED
      BY <1>4, <2>1, <2>2 DEF Pages!Timeline, Pages!Range
  <1> QED
    BY <1>1, <1>4, <1>5, <1>7, <1>8, Unsettles

LEMMA SetStatusStep ==
  ASSUME PageInv, NEW c \in Pages!Ids, Pages!SetStatus(c) PROVE PageInv'
  <1>1. /\ patches < MaxPatches /\ patches' = patches + 1
        /\ ended' = ended \ {c} \/ ended' = ended \cup {c}
        /\ Pages!Unsettle(c) /\ UNCHANGED <<now, write, activity>>
    BY DEF Pages!SetStatus
  <1>2. walk'.step = walk.step /\ walk'.list = walk.list
    BY <1>1 DEF Pages!Unsettle, PageInv
  <1>3. patches' \in 0 .. MaxPatches
    BY <1>1, PagesConstants DEF PageInv, Pages!TypeOK
  <1>4. Pages!TypeOK'
    BY <1>1, <1>2, <1>3 DEF PageInv, Pages!TypeOK
  <1>5. \A list : Pages!Timeline(list)' = Pages!Timeline(list)
    BY <1>1 DEF Pages!Timeline
  <1>6. Len(write') <= MaxWrites
        /\ \A w \in DOMAIN write' : write'[w].step = "begun" <=> write'[w].seq = 0
    BY <1>1 DEF PageInv
  <1>7. \A d \in Pages!Ids : d # c => activity'[d] = activity[d] /\ (d \in ended' => d \in ended)
    BY <1>1
  <1> QED
    BY <1>1, <1>4, <1>5, <1>6, <1>7, Unsettles

\* A walk begins at the top, and cannot miss what is there.
LEMMA OpenStep ==
  ASSUME PageInv, NEW list \in Pages!Ids \cup {Pages!Inbox}, Pages!Open(list) PROVE PageInv'
  <1>1. /\ walk' = [list |-> list, cursor |-> Pages!Top, seen |-> <<>>,
                    settled |-> Pages!RowsOf(list), step |-> "more"]
        /\ UNCHANGED <<now, write, activity, ended, patches>>
    BY DEF Pages!Open
  <1>2. /\ walk'.list = list /\ walk'.cursor = Pages!Top /\ walk'.seen = <<>>
        /\ walk'.settled = Pages!RowsOf(list) /\ walk'.step = "more"
        /\ walk' = [list |-> walk'.list, cursor |-> walk'.cursor, seen |-> walk'.seen,
                    settled |-> walk'.settled, step |-> walk'.step]
    BY <1>1
  <1>3. Pages!RowsOf(list)' = Pages!RowsOf(list)
    BY <1>1 DEF Pages!RowsOf, Pages!OpenTalks, Pages!Timeline
  <1>4. Pages!TypeOK'
    BY <1>1, <1>2 DEF PageInv, Pages!TypeOK
  <1>5. WalkInv'
    BY <1>2, <1>3, PageTypes DEF WalkInv
  <1>6. Pages!PagesAreWhole'
    BY <1>2 DEF Pages!PagesAreWhole, Pages!Passed
  <1>7. Len(write') <= MaxWrites
        /\ \A w \in DOMAIN write' : write'[w].step = "begun" <=> write'[w].seq = 0
    BY <1>1 DEF PageInv
  <1> QED
    BY <1>2, <1>4, <1>5, <1>6, <1>7 DEF PageInv

\* What a statement may return: the rows below the cursor, in order, and none left out.
LEMMA FetchedIs ==
  ASSUME PageInv, NEW list, NEW cursor, NEW got \in Pages!Fetched(list, cursor)
  PROVE  /\ got \in Seq(Keys) /\ Len(got) \in 0 .. PageLimit + 1
         /\ \A i \in 1 .. Len(got) :
              got[i] \in Keys /\ (cursor # Pages!Top => Pages!Below(got[i], cursor))
         /\ \A i, j \in 1 .. Len(got) : i < j => Pages!Below(got[j], got[i])
         /\ \A k \in Pages!RowsOf(list) :
              cursor = Pages!Top \/ Pages!Below(k, cursor) =>
                \/ \E i \in 1 .. Len(got) : k = got[i]
                \/ /\ Len(got) = PageLimit + 1
                   /\ Pages!Below(k, got[PageLimit + 1])
  <1> DEFINE below == Pages!RowsBelow(list, cursor)
  <1>1. below \subseteq Keys /\ \A k \in below : cursor # Pages!Top => Pages!Below(k, cursor)
    BY PageTypes DEF Pages!RowsBelow
  <1>2. \A k \in Pages!RowsOf(list) : cursor = Pages!Top \/ Pages!Below(k, cursor) => k \in below
    BY DEF Pages!RowsBelow
  <1>3. /\ \E n \in 0 .. PageLimit + 1 : got \in [1 .. n -> below]
        /\ \A i, j \in DOMAIN got :
             i < j => got[i] # got[j] /\ ~ Pages!Below(got[i], got[j])
        /\ \A k \in below \ Pages!Range(got) :
             Len(got) = PageLimit + 1 /\ ~ Pages!Below(got[PageLimit + 1], k)
    BY DEF Pages!Fetched
  <1> HIDE DEF below
  <1>4. PICK n \in 0 .. PageLimit + 1 : got \in [1 .. n -> below]
    BY <1>3
  <1>5. n \in Nat
    BY PagesConstants
  <1>6. got \in Seq(Keys) /\ Len(got) = n /\ DOMAIN got = 1 .. n
    BY <1>1, <1>4, <1>5
  <1>7. \A i \in 1 .. n : got[i] \in below /\ got[i] \in Keys
    BY <1>1, <1>4
  <1>8. \A i, j \in 1 .. n : i < j => Pages!Below(got[j], got[i])
    BY <1>3, <1>6, <1>7, BelowTotal
  <1>9. ASSUME NEW k \in Pages!RowsOf(list), cursor = Pages!Top \/ Pages!Below(k, cursor),
               \A i \in 1 .. n : k # got[i]
        PROVE  n = PageLimit + 1 /\ Pages!Below(k, got[PageLimit + 1])
    <2>1. k \in below /\ k \in Keys /\ k \notin Pages!Range(got)
      BY <1>1, <1>2, <1>6, <1>9 DEF Pages!Range
    <2>2. n = PageLimit + 1 /\ ~ Pages!Below(got[n], k)
      BY <1>3, <1>6, <2>1
    <2>3. n \in 1 .. n
      BY <1>5, <2>2, PagesConstants
    <2>4. got[n] \in Keys /\ got[n] # k
      BY <1>7, <1>9, <2>3
    <2> QED
      BY <2>1, <2>2, <2>4, BelowTotal
  <1> QED
    BY <1>1, <1>6, <1>7, <1>8, <1>9

\* The pages read so far and the next.
LEMMA PageFollows ==
  ASSUME PageInv, walk.step = "more", NEW got \in Pages!Fetched(walk.list, walk.cursor),
         NEW page \in Seq(Keys), Len(page) <= Len(got),
         \A i \in 1 .. Len(page) : page[i] = got[i]
  PROVE  \A i, j \in 1 .. Len(walk.seen \o page) :
           i < j => Pages!Below((walk.seen \o page)[j], (walk.seen \o page)[i])
  <1> PICK seen \in Seq(Keys) : seen = walk.seen
    BY DEF PageInv, WalkInv
  <1> PICK n \in Nat, p \in Nat : n = Len(seen) /\ p = Len(page)
    OBVIOUS
  <1>1. /\ \A i \in 1 .. n : seen[i] \in Keys
        /\ \A i, j \in 1 .. n : i < j => Pages!Below(seen[j], seen[i])
    BY DEF PageInv, Pages!PagesAreWhole
  <1>2. /\ \A i \in 1 .. p : page[i] \in Keys
        /\ \A i, j \in 1 .. p : i < j => Pages!Below(page[j], page[i])
    <2>1. Len(got) \in Nat /\ \A i \in 1 .. p : i \in 1 .. Len(got)
      BY FetchedIs
    <2>2. \A i, j \in 1 .. Len(got) : i < j => Pages!Below(got[j], got[i])
      BY FetchedIs
    <2>3. \A i, j \in 1 .. p : i < j => Pages!Below(page[j], page[i])
      BY <2>1, <2>2
    <2> QED
      BY <2>3
  <1>3. \A i \in 1 .. n, j \in 1 .. p : Pages!Below(page[j], seen[i])
    <2> SUFFICES ASSUME NEW i \in 1 .. n, NEW j \in 1 .. p PROVE Pages!Below(page[j], seen[i])
      OBVIOUS
    <2>1. walk.cursor # Pages!Top
      BY DEF PageInv, WalkInv
    <2>2. walk.cursor = seen[n]
      BY <2>1 DEF PageInv, WalkInv
    <2>3. Len(got) \in Nat /\ j \in 1 .. Len(got)
      BY FetchedIs
    <2>4. Pages!Below(page[j], seen[n])
      BY <2>1, <2>2, <2>3, FetchedIs
    <2>5. i = n \/ Pages!Below(seen[n], seen[i])
      BY <1>1
    <2>6. n \in 1 .. n
      OBVIOUS
    <2> QED
      BY <1>1, <1>2, <2>4, <2>5, <2>6, BelowTransitive
  <1>4. /\ Len(seen \o page) = n + p
        /\ \A i \in 1 .. n + p :
             (seen \o page)[i] = IF i <= n THEN seen[i] ELSE page[i - n]
    BY ConcatProperties
  <1> PICK all : all = seen \o page
    OBVIOUS
  <1>5a. \A i \in 1 .. n + p : all[i] = IF i <= n THEN seen[i] ELSE page[i - n]
    BY <1>4
  <1> SUFFICES ASSUME NEW i \in 1 .. n + p, NEW j \in 1 .. n + p, i < j
               PROVE  Pages!Below(all[j], all[i])
    BY <1>4
  <1>5. CASE j <= n
    BY <1>1, <1>5, <1>5a
  <1>6. CASE i <= n /\ j > n
    <2>1. i \in 1 .. n /\ j - n \in 1 .. p
      BY <1>6
    <2>2. all[i] = seen[i] /\ all[j] = page[j - n]
      BY <1>6, <1>5a
    <2>3. Pages!Below(page[j - n], seen[i])
      BY <1>3, <2>1
    <2> QED
      BY <2>2, <2>3
  <1>7. CASE i > n
    <2>1. i - n \in 1 .. p /\ j - n \in 1 .. p /\ i - n < j - n
      BY <1>7
    <2>2. all[i] = page[i - n] /\ all[j] = page[j - n]
      BY <1>7, <1>5a
    <2>3. Pages!Below(page[j - n], page[i - n])
      BY <1>2, <2>1
    <2> QED
      BY <2>2, <2>3
  <1> QED
    BY <1>5, <1>6, <1>7

\* What is appended keeps its order behind the rest.
LEMMA Shifted ==
  ASSUME NEW n \in Nat, NEW p \in Nat, NEW seen, NEW page, NEW all,
         DOMAIN all = 1 .. n + p,
         \A i \in 1 .. n + p : all[i] = IF i <= n THEN seen[i] ELSE page[i - n]
  PROVE  \A i \in 1 .. p : n + i \in DOMAIN all /\ all[n + i] = page[i]
  <1> SUFFICES ASSUME NEW i \in 1 .. p PROVE n + i \in DOMAIN all /\ all[n + i] = page[i]
    OBVIOUS
  <1>1. n + i \in 1 .. n + p /\ ~(n + i <= n) /\ n + i - n = i
    OBVIOUS
  <1> QED
    BY <1>1

\* Nothing of what cannot be missed is between the pages, or lost in the row too many.
LEMMA NextPageStep == ASSUME PageInv, Pages!NextPage PROVE PageInv'
  <1> PICK got \in Pages!Fetched(walk.list, walk.cursor) :
        walk' = [walk EXCEPT
          !.seen = walk.seen \o (IF Len(got) > PageLimit THEN SubSeq(got, 1, PageLimit) ELSE got),
          !.cursor = IF Len(got) > PageLimit THEN got[PageLimit] ELSE walk.cursor,
          !.step = IF Len(got) > PageLimit THEN "more" ELSE "done"]
    BY DEF Pages!NextPage, Pages!CursorAfter
  <1>1. walk.step = "more" /\ UNCHANGED <<now, write, activity, ended, patches>>
    BY DEF Pages!NextPage
  <1>2. got \in Seq(Keys) /\ Len(got) \in 0 .. PageLimit + 1 /\ Len(got) \in Nat
    BY FetchedIs, PagesConstants
  <1>15. walk.cursor \in Keys \cup {Pages!Top} /\ \A i \in 1 .. Len(got) : got[i] \in Keys
    BY FetchedIs DEF PageInv, WalkInv
  <1>3. PICK page \in Seq(Keys), cursor \in Keys \cup {Pages!Top}, step \in {"more", "done"} :
          /\ walk' = [walk EXCEPT !.seen = walk.seen \o page, !.cursor = cursor, !.step = step]
          /\ Len(page) <= Len(got) /\ \A i \in 1 .. Len(page) : page[i] = got[i]
          /\ \/ /\ Len(got) = PageLimit + 1 /\ Len(page) = PageLimit
                /\ cursor = got[PageLimit] /\ step = "more"
             \/ Len(got) <= PageLimit /\ page = got /\ cursor = walk.cursor /\ step = "done"
    <2>1. CASE Len(got) > PageLimit
      <3>1. Len(got) = PageLimit + 1
        BY <1>2, <2>1, PagesConstants
      <3> DEFINE page == SubSeq(got, 1, PageLimit)
      <3>2. /\ page \in Seq(Keys) /\ Len(page) = PageLimit
            /\ \A i \in 1 .. Len(page) : page[i] = got[i]
        BY <1>2, <3>1, PagesConstants
      <3>3. walk' = [walk EXCEPT !.seen = walk.seen \o page, !.cursor = got[PageLimit], !.step = "more"]
        BY <2>1
      <3> HIDE DEF page
      <3>4. Len(page) <= Len(got)
        BY <3>1, <3>2, PagesConstants
      <3>5. got[PageLimit] \in Keys
        BY <1>15, <3>1, PagesConstants
      <3> QED
        BY <3>1, <3>2, <3>3, <3>4, <3>5
    <2>2. CASE ~(Len(got) > PageLimit)
      <3>1. Len(got) <= PageLimit
        BY <1>2, <2>2, PagesConstants
      <3>2. walk' = [walk EXCEPT !.seen = walk.seen \o got, !.cursor = walk.cursor, !.step = "done"]
        BY <2>2
      <3>3. Len(got) <= Len(got) /\ \A i \in 1 .. Len(got) : got[i] = got[i]
        BY <1>2
      <3> QED
        BY <1>2, <1>15, <3>1, <3>2, <3>3
    <2> QED
      BY <2>1, <2>2
  <1>4. /\ walk' = [list |-> walk'.list, cursor |-> walk'.cursor, seen |-> walk'.seen,
                    settled |-> walk'.settled, step |-> walk'.step]
        /\ walk'.list = walk.list /\ walk'.settled = walk.settled
        /\ walk'.seen = walk.seen \o page /\ walk'.cursor = cursor /\ walk'.step = step
    BY <1>3 DEF PageInv
  <1>5. /\ walk.seen \in Seq(Keys) /\ walk.settled \subseteq Pages!RowsOf(walk.list)
        /\ walk.settled \subseteq Keys /\ walk.cursor \in {Pages!Top} \cup Keys
    BY <1>1 DEF PageInv, WalkInv
  <1> PICK seen \in Seq(Keys) : seen = walk.seen
    BY <1>5
  <1> PICK all \in Seq(Keys) : all = seen \o page
    BY ConcatProperties
  <1> PICK n \in Nat, p \in Nat : n = Len(seen) /\ p = Len(page)
    BY LenProperties
  <1>6. DOMAIN seen = 1 .. n /\ DOMAIN page = 1 .. p
    BY LenProperties
  <1>7. /\ Len(all) = n + p /\ DOMAIN all = 1 .. n + p
        /\ \A i \in 1 .. n : i \in DOMAIN all /\ all[i] = seen[i]
        /\ \A i \in 1 .. p : n + i \in DOMAIN all /\ all[n + i] = page[i]
    <2>1. Len(all) = n + p /\ DOMAIN all = 1 .. n + p
      BY ConcatProperties, LenProperties
    <2>2. \A i \in 1 .. n + p : all[i] = IF i <= n THEN seen[i] ELSE page[i - n]
      BY ConcatProperties
    <2>3. ASSUME NEW i \in 1 .. n PROVE i \in DOMAIN all /\ all[i] = seen[i]
      BY <2>1, <2>2
    <2>4. \A i \in 1 .. p : n + i \in DOMAIN all /\ all[n + i] = page[i]
      BY <2>1, <2>2, Shifted
    <2> QED
      BY <2>1, <2>3, <2>4
  <1>8. \A i, j \in DOMAIN all : i < j => Pages!Below(all[j], all[i])
    <2>1. \A i, j \in 1 .. Len(all) : i < j => Pages!Below(all[j], all[i])
      BY <1>1, <1>3, PageFollows
    <2> QED
      BY <1>7, <2>1
  <1>9. step = "more" => PageLimit \in 1 .. Len(got) /\ got[PageLimit] \in Keys
                         /\ got[PageLimit] = page[p] /\ p = PageLimit
    BY <1>2, <1>3, PagesConstants
  <1>10. Pages!TypeOK'
    BY <1>1, <1>3, <1>4 DEF PageInv, Pages!TypeOK
  <1>11. WalkInv'
    <2>1. step = "more" => cursor \in Keys /\ Len(all) > 0 /\ cursor = all[Len(all)]
      BY <1>3, <1>6, <1>7, <1>9, PagesConstants
    <2>2. cursor \in {Pages!Top} \cup Keys
      BY <1>3, <1>5, <2>1
    <2>3. Pages!RowsOf(walk.list)' = Pages!RowsOf(walk.list)
      BY <1>1, <1>4 DEF Pages!RowsOf, Pages!OpenTalks, Pages!Timeline
    <2>4. walk'.seen = all
      BY <1>4
    <2>5. walk'.settled \subseteq Keys /\ walk'.settled \subseteq Pages!RowsOf(walk.list)'
      BY <1>4, <1>5, <2>3
    <2>6. step = "more" => walk'.cursor # Pages!Top /\ Len(walk'.seen) > 0
                           /\ walk'.cursor = walk'.seen[Len(walk'.seen)]
      BY <1>4, <2>1, <2>4, TopIsNoKey
    <2> QED
      BY <1>3, <1>4, <2>2, <2>4, <2>5, <2>6 DEF WalkInv
  <1>12. ASSUME NEW k \in walk.settled, Pages!Passed(k)' PROVE \E i \in DOMAIN all : k = all[i]
    <2>1. k \in Keys /\ k \in Pages!RowsOf(walk.list)
      BY <1>5
    <2>2. CASE Pages!Passed(k)
      <3>1. PICK i \in DOMAIN seen : k = seen[i]
        BY <2>2 DEF PageInv, Pages!PagesAreWhole, Pages!Range
      <3> QED
        BY <1>6, <1>7, <3>1
    <2>3. CASE ~ Pages!Passed(k)
      <3>1. walk.cursor = Pages!Top \/ Pages!Below(k, walk.cursor)
        BY <2>3 DEF Pages!Passed
      <3>2. \/ \E i \in 1 .. Len(got) : k = got[i]
            \/ Len(got) = PageLimit + 1 /\ Pages!Below(k, got[PageLimit + 1])
        BY <2>1, <3>1, FetchedIs
      <3>3. CASE step = "done"
        <4>1. Len(got) <= PageLimit /\ page = got
          BY <1>3, <3>3
        <4>2. PICK i \in 1 .. Len(got) : k = got[i]
          BY <1>2, <3>2, <4>1, PagesConstants
        <4>3. i \in 1 .. p
          BY <4>1, <4>2
        <4>4. n + i \in DOMAIN all /\ all[n + i] = k
          BY <1>7, <4>1, <4>2, <4>3
        <4> QED
          BY <4>4
      <3>4. CASE step = "more"
        <4>1. /\ Len(got) = PageLimit + 1 /\ p = PageLimit /\ cursor = got[PageLimit]
              /\ got[PageLimit] \in Keys /\ got[PageLimit + 1] \in Keys
          BY <1>2, <1>3, <1>9, <3>4, PagesConstants
        <4>2. Pages!Below(got[PageLimit + 1], got[PageLimit])
          <5>1. PageLimit \in 1 .. Len(got) /\ PageLimit + 1 \in 1 .. Len(got)
                /\ PageLimit < PageLimit + 1
            BY <4>1, PagesConstants
          <5> QED
            BY <5>1, FetchedIs
        <4>3. ~ Pages!Below(k, got[PageLimit])
          BY <1>4, <1>12, <3>4, <4>1 DEF Pages!Passed
        <4>4. ~ Pages!Below(k, got[PageLimit + 1])
          BY <2>1, <4>1, <4>2, <4>3, BelowTransitive
        <4>5. PICK i \in 1 .. Len(got) : k = got[i]
          BY <3>2, <4>4
        <4>6. i # PageLimit + 1
          BY <4>2, <4>3, <4>5
        <4>7. i \in 1 .. p
          BY <4>1, <4>6, PagesConstants
        <4>8. page[i] = got[i]
          BY <1>3, <4>7
        <4>9. n + i \in DOMAIN all /\ all[n + i] = k
          BY <1>7, <4>5, <4>7, <4>8
        <4> QED
          BY <4>9
      <3> QED
        BY <1>3, <3>3, <3>4
    <2> QED
      BY <2>2, <2>3
  <1>13. Pages!PagesAreWhole'
    <2>1. walk'.seen = all /\ walk'.settled = walk.settled
      BY <1>4
    <2> QED
      BY <1>8, <1>12, <2>1 DEF Pages!PagesAreWhole, Pages!Range
  <1>14. Len(write') <= MaxWrites
         /\ \A w \in DOMAIN write' : write'[w].step = "begun" <=> write'[w].seq = 0
    BY <1>1 DEF PageInv
  <1> QED
    BY <1>4, <1>10, <1>11, <1>13, <1>14 DEF PageInv

LEMMA PagesNext == ASSUME PageInv, Pages!Next PROVE PageInv'
  BY BeginWriteStep, InsertMessageStep, BumpStep, SetStatusStep, OpenStep, NextPageStep
  DEF Pages!Next

LEMMA PagesStutter == ASSUME PageInv, UNCHANGED pagingVars PROVE PageInv'
  <1>1. UNCHANGED <<now, write, activity, ended, patches, walk>>
    BY DEF pagingVars
  <1>2. Pages!RowsOf(walk.list)' = Pages!RowsOf(walk.list)
    BY <1>1 DEF Pages!RowsOf, Pages!OpenTalks, Pages!Timeline
  <1>3. Pages!TypeOK'
    BY <1>1 DEF PageInv, Pages!TypeOK
  <1>4. WalkInv'
    BY <1>1, <1>2 DEF PageInv, WalkInv
  <1>5. Pages!PagesAreWhole'
    BY <1>1 DEF PageInv, Pages!PagesAreWhole, Pages!Passed
  <1> QED
    BY <1>1, <1>3, <1>4, <1>5 DEF PageInv


-----------------------------------------------------------------------------
(* The channels together.                                                  *)

ChannelsInv ==
  ConnInv /\ SenderInv /\ InboundInv /\ LossInv /\ SiteInv /\ PresenceInv /\ PageInv

LEMMA InitChannels == ChannelsInit => ChannelsInv
  BY InitConn, InitSender, InitInbound, InitLoss, InitSite, InitPresence, InitPages
  DEF ChannelsInit, ChannelsInv

\* Traffic reads the connection, and only staff change it.
LEMMA SenderReads == ASSUME Sender!Next PROVE UNCHANGED <<conn, changes>>
  BY DEF Sender!Next, Sender!Emit, Sender!Work, Sender!Claim, Sender!Prepare, Sender!CheckWindow,
         Sender!FindConnection, Sender!FindToken, Sender!CallProvider, Sender!RecordSent,
         Sender!RecordFailed, Sender!Die, Sender!EditNumber, Sender!ReadStatus, Sender!WriteStatus

LEMMA InboundReads == ASSUME Inbound!Next PROVE UNCHANGED <<conn, changes>>
  BY DEF Inbound!Next, Inbound!Receive, Inbound!ResolveCustomer, Inbound!FindConversation,
         Inbound!Store, Inbound!GiveUp, Inbound!Conflict, Inbound!Abort,
         Inbound!ResolveConversation, Inbound!Work, Inbound!ClaimMedium, Inbound!LoseHeart,
         Inbound!Fetch, Inbound!Settle, Inbound!StoreMedium, Inbound!FailMedium, Inbound!Drop

LEMMA DeliveriesRead == ASSUME Outside PROVE UNCHANGED <<conn, changes>>
  BY DEF Outside, Receive, Verify, Record, Sweep, Advance

\* Every step is of one part, and keeps the invariants of all, and the visitors' places.
LEMMA ChannelsNext == ChannelsInv /\ [Next]_vars => ChannelsInv' /\ Keeps
  <1> SUFFICES ASSUME ChannelsInv, [Next]_vars PROVE ChannelsInv' /\ Keeps
    OBVIOUS
  <1> USE DEF ChannelsInv
  <1>1. ASSUME UNCHANGED senderVars, UNCHANGED <<conn, changes>> PROVE SenderInv'
    BY <1>1, SenderStutter
  <1>2. ASSUME UNCHANGED <<conn, changes>>, UNCHANGED <<request, delivery>> PROVE ConnInv'
    BY <1>2, ConnStutter DEF connVars
  <1>3. CASE OfStaff
    BY <1>3, StaffConn, SenderUnderStaff, InboundStutter, LossStutter, SiteStutter, PresenceStutter,
       PagesStutter DEF OfStaff
  <1>4. CASE OfDeliveries
    BY <1>1, <1>4, OutsideConn, DeliveriesRead, InboundStutter, LossStutter, SiteStutter, PresenceStutter,
       PagesStutter DEF OfDeliveries
  <1>5. CASE OfReplies
    BY <1>2, <1>5, SenderNext, SenderReads, InboundStutter, LossStutter, SiteStutter, PresenceStutter,
       PagesStutter DEF OfReplies
  <1>6. CASE OfMessages
    BY <1>1, <1>2, <1>6, InboundNext, LossNext, InboundReads, SiteStutter, PresenceStutter, PagesStutter
    DEF OfMessages
  <1>7. CASE OfVisitors
    BY <1>1, <1>2, <1>7, SiteNext, InboundStutter, LossStutter, PresenceStutter, PagesStutter
    DEF OfVisitors, connVars
  <1>8. CASE OfDashboard
    BY <1>1, <1>2, <1>8, PresenceNext, InboundStutter, LossStutter, SiteStutter, PagesStutter
    DEF OfDashboard, connVars
  <1>9. CASE OfPages
    BY <1>1, <1>2, <1>9, PagesNext, InboundStutter, LossStutter, SiteStutter, PresenceStutter
    DEF OfPages, connVars
  <1>10. CASE UNCHANGED vars
    BY <1>1, <1>2, <1>10, InboundStutter, LossStutter, SiteStutter, PresenceStutter, PagesStutter
    DEF vars, connVars
  <1> QED
    BY <1>3, <1>4, <1>5, <1>6, <1>7, <1>8, <1>9, <1>10 DEF Next

\* Every behaviour of the channels keeps the inductive invariants of their six parts.
THEOREM ChannelsInvariance == Spec => []ChannelsInv
  <1>1. ChannelsInit => ChannelsInv
    BY InitChannels
  <1>2. ChannelsInv /\ [Next]_vars => ChannelsInv'
    BY ChannelsNext
  <1> QED
    BY <1>1, <1>2, PTL DEF Spec

\* The types hold, and so do the bounds in them: no medium is tried more often than the
\* code allows, but for those who had claimed it before (WhatsAppInbound).
THEOREM TypeCorrect == Spec => []TypeOK
  <1>1. ChannelsInv => TypeOK
    BY DEF ChannelsInv, ConnInv, SenderInv, InboundInv, SiteInv, PresenceInv, PageInv, TypeOK
  <1> QED
    BY <1>1, ChannelsInvariance, PTL

\* What leaves or enters through a connection does so only while it is on, or was when the
\* call or the delivery began; and an absent member is on the way to being away.
THEOREM OnlyConnected == Spec => []OnlyWhileConnected
  <1>1. ChannelsInv => OnlyWhileConnected
    <2> SUFFICES ASSUME ChannelsInv PROVE OnlyWhileConnected
      OBVIOUS
    <2>1. \A s \in Senders : sender[s].step = "call" => OnSince(sender[s].at)
      BY DEF ChannelsInv, SenderInv, SenderStep
    <2>2. \A d \in Deliveries : delivery[d].step = "record" => OnSince(delivery[d].at)
      BY DEF ChannelsInv, ConnInv, WaitsSince
    <2>3. Dashboard!AbsentAreReverted
      BY DEF ChannelsInv, PresenceInv
    <2> QED
      BY <2>1, <2>2, <2>3 DEF OnlyWhileConnected
  <1> QED
    BY <1>1, ChannelsInvariance, PTL

\* No message is sent, stored or shown twice, and none left out of the pages; of those that
\* came in at once before the number had a customer, one is stored.
THEOREM NoneTwice == Spec => []NoMessageTwice
  <1>1. ChannelsInv => NoMessageTwice
    BY LostIsBounded DEF ChannelsInv, SenderInv, InboundInv, PageInv, NoMessageTwice
  <1> QED
    BY <1>1, ChannelsInvariance, PTL

\* A visitor keeps the conversation he is shown until it ends or another is later, his
\* rating and his identifier, in every step.
THEOREM PlaceKept == Spec => VisitorKeepsPlace
  <1>1. ChannelsInv /\ [Next]_vars =>
          [ /\ \A s \in Sessions : session[s].customer # Nobody =>
                 \/ \A v \in Site!Shown(s) :
                      \/ v \in Site!Shown(s)' \/ conversation'[v].status = "ended"
                      \/ \E u \in Conversations :
                           /\ conversation'[u] = [customer |-> session[s].customer, status |-> "open"]
                           /\ <<u, v>> \in newer'
                 \/ session'[s].status = "gone"
                 \/ Site!Holders(Site!Widget(s)) = {}
            /\ \A v \in Conversations : feedback[v] # Nobody => feedback'[v] = feedback[v]
            /\ \A c, d \in rows, i \in Site!Identifiers :
                 c # d /\ i \in ids[c] => i \notin ids'[d] ]_(Site!visitorVars)
    BY ChannelsNext DEF Keeps, KeepsShown, Followed, KeepsRatings, KeepsIds
  <1> QED
    BY <1>1, ChannelsInvariance, PTL DEF Spec, VisitorKeepsPlace, Site!VisitorKeepsPlace

=============================================================================
