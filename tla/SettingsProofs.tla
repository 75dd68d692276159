---------------------------- MODULE SettingsProofs ----------------------------
(***************************************************************************)
(* Proofs about what staff set up for the AI and its use, in MCSettings,   *)
(* for any number of items, editors, indexers, providers and texts: first  *)
(* the providers' calls, then the agent's prompt and configuration, then   *)
(* the knowledge base, at the end the composition of them.                 *)
(***************************************************************************)
EXTENDS MCSettings, FiniteSetTheorems, SequenceTheorems, TLAPS

-----------------------------------------------------------------------------
(* The calls to the providers (AiCalls).                                   *)

Names == Providers \cup {Nobody}
Plan == [primary : Names, fallback : Names]
Steps == {"idle", "primary", "fallback", "ready", "complete", "open", "stream", "over"}
CallRow == [step : Steps,
            mode : {"none", "complete", "stream", "complete_with_override", "stream_with_override"},
            config : Plan, attempts : Seq(Names), at : Nat, try : Nat, told : BOOLEAN]
Event == [kind : {"tool", "delta", "done", "error"}, at : Nat, try : Nat]
Usage == [status : {"success", "failure"}, provider : Names]

CallTypes ==
  /\ config \in [Calls!Scopes -> Plan] /\ keys \in [Calls!Scopes -> SUBSET Providers]
  /\ call \in CallRow /\ sent \in Seq(Event) /\ records \in Seq(Usage)

\* Before an attempt runs it is the first try of the first one; the one that runs is there.
Position ==
  /\ call.try \in 1..Tries
  /\ call.step \in {"idle", "primary", "fallback", "ready"} => call.at = 1
  /\ call.step \in {"complete", "open", "stream"} => call.at \in 1..Len(call.attempts)
  /\ \A i \in DOMAIN call.attempts : call.attempts[i] \in {call.config.primary, call.config.fallback}

\* Nothing is heard before the call runs, nor recorded before it is over; a try that is
\* opened follows no text, and the text there is was sent on the try that is under way.
Heard ==
  /\ call.step \notin {"open", "stream", "over"} => sent = <<>>
  /\ call.step # "over" => records = <<>>
  /\ call.step \notin {"stream", "over"} => ~call.told
  /\ \A i \in DOMAIN sent :
       /\ sent[i].kind = "delta" => call.told
       /\ sent[i].kind \in {"delta", "done"} => sent[i].at = call.at /\ sent[i].try = call.try

CallsInv == CallTypes /\ Position /\ Heard /\ Calls!StreamIsCoherent

-----------------------------------------------------------------------------
(* The prompt and the agent's configuration (AgentSettings).               *)

Tongue == Contents \cup {"none"}
Version == [base : Nat, text : Tongue, from : Nat]
WriterRow == [step : {"idle", "save", "insert", "config", "update", "retire", "insert avatar", "bump"},
              base : Nat, text : Tongue, from : Nat, kind : {"none", "preset", "upload"},
              saw : Nat, inserted : BOOLEAN]

AgentTypes ==
  /\ versions \in Seq(Version) /\ writer \in [Writers -> WriterRow]
  /\ agent \in [version : 0..MaxVersions, kind : {"none", "preset", "upload"}, base : Nat]
  /\ live \in Nat /\ uploads \in Nat /\ live <= uploads
  /\ rowBy \in Writers \cup {Free} /\ liveBy \in Writers \cup {Free}

\* What an editor is about to save: a new text, or that of the version it names; and the
\* first version names none.
Saving(w) ==
  /\ writer[w].step = "save" =>
       /\ writer[w].from \in 0..Len(versions)
       /\ writer[w].from # 0 => writer[w].text = versions[writer[w].from].text
  /\ writer[w].step = "insert" => writer[w].base = 0 /\ writer[w].from = 0

\* A restored version is older.
Restores == \A n \in DOMAIN versions : versions[n].from < n

\* Who holds the configuration's row updates it over the version it was shown, and keeps an
\* upload only while there is one.
HoldsRow(w) ==
  /\ rowBy = w <=> writer[w].step = "update"
  /\ writer[w].step \in {"config", "update"} => writer[w].kind \in {"preset", "upload"}
  /\ writer[w].step = "update" =>
       /\ agent.version \in 1..(MaxVersions - 1)
       /\ writer[w].base = agent.version
       /\ writer[w].kind = "upload" => live # 0

\* Who deletes the upload there is goes on to insert another.
HoldsLive ==
  /\ liveBy # Free => live # 0 /\ writer[liveBy].step \in {"insert avatar", "bump"}
  /\ agent.version = 0 => agent.kind = "none"

AgentInv ==
  /\ AgentTypes
  /\ \A w \in Writers : Saving(w) /\ HoldsRow(w)
  /\ Restores /\ HoldsLive
  /\ Agent!NothingOverwritten

-----------------------------------------------------------------------------
(* The knowledge base (Knowledge).                                         *)

Written == Texts \cup {NoText}
State == {"none", "draft", "published", "archived"}
IndexRow == [status : {"none", "pending", "indexing", "indexed", "not_indexed", "not_indexable", "failed"},
             of : Written, counted : BOOLEAN, attempts : Nat]
Ask == [n : Nat, item : Base!Items, claimed : BOOLEAN, waits : BOOLEAN]
RequestRow == [step : {"idle", "set", "persist"}, item : Base!Items \cup {"none"},
               from : State, to : State]
WorkerRow == [step : {"idle", "read", "mark", "extract", "compare", "embed", "retry", "replace", "delete"},
              event : Nat, item : Base!Items \cup {"none"}, text : Written, tries : Nat, clash : BOOLEAN]

BaseTypes ==
  /\ alone \in BOOLEAN
  /\ item \in [Base!Items -> [status : State, text : Written]]
  /\ file \in [Documents -> BOOLEAN]
  /\ index \in [Base!Items -> IndexRow] /\ chunks \in [Base!Items -> Written]
  /\ events \in SUBSET Ask /\ asked \in 0..MaxEvents
  /\ request \in [Editors -> RequestRow] /\ worker \in [Indexers -> WorkerRow]

\* An item has a text from its first status on, and a document its file.
ItemInv ==
  /\ \A i \in Base!Items : item[i].text = NoText <=> item[i].status = "none"
  /\ \A d \in Documents : item[d].status # "none" => file[d]

\* A request acts on an item that is there; an upload on a file that is, and nobody else's.
RequestInv ==
  /\ \A r \in Editors :
       /\ request[r].step = "set" =>
            /\ request[r].item \in Base!Items /\ item[request[r].item].status # "none"
            /\ request[r].to # "none"
       /\ request[r].step = "persist" =>
            /\ request[r].item \in Documents /\ item[request[r].item].status = "none"
            /\ file[request[r].item] /\ request[r].to # "none"
  /\ \A r, q \in Editors :
       request[r].step = "persist" /\ request[q].step = "persist"
         /\ request[r].item = request[q].item => r = q

\* The rows are numbered, each of an item that is there.
RowInv ==
  /\ \A e \in events : e.n \in 1..asked /\ item[e.item].status # "none"
  /\ \A e, f \in events : e.n = f.n => e = f

\* Who works holds one row, that nobody else does, and goes on with a text that can be
\* indexed.
WorkerInv(x) ==
  /\ worker[x].step = "idle" => worker[x] = Base!Resting
  /\ worker[x].step # "idle" =>
       \E e \in events : e.n = worker[x].event /\ e.item = worker[x].item /\ e.claimed
  /\ worker[x].step \notin {"idle", "read"} => worker[x].text \in Texts
  /\ worker[x].step \in {"compare", "embed", "retry", "replace"} => worker[x].text # Bare

WorkersInv ==
  /\ \A x \in Indexers : WorkerInv(x)
  /\ \A x, y \in Indexers :
       worker[x].step # "idle" /\ worker[y].step # "idle" /\ worker[x].event = worker[y].event => x = y
  /\ \A x \in Indexers : alone /\ x # Base!First => worker[x].step = "idle"

\* Row n may still have chunks embedded; each that may no more has raised the attempts of
\* an item past the limit at most once.
MayEmbed(n) ==
  \/ \E e \in events : e.n = n /\ ~e.claimed
  \/ \E x \in Indexers :
       /\ worker[x].event = n
       /\ \/ worker[x].step \in {"read", "mark", "extract", "compare", "embed"}
          \/ worker[x].step = "retry" /\ worker[x].tries < MaxRetries

Spent == {n \in 1..asked : ~MayEmbed(n)}

AttemptsInv ==
  \A i \in Base!Items : index[i].attempts < MaxRetries + Cardinality(Spent)

\* The item's index state is about its current text.
Settled(i) ==
  \/ index[i].status = "indexed" /\ chunks[i] = item[i].text
  \/ index[i].status = "not_indexable" /\ item[i].text = Bare
  \/ index[i].status = "failed"

\* A row of the item waits to be claimed, or was lost.
Waits(i, x) ==
  \E e \in events :
    e.item = i /\ (~e.claimed \/ worker[x].step = "idle" \/ worker[x].event # e.n)

\* The worker works for the item, on a text it has still to read or has read as it is.
Follows(i, x) ==
  /\ worker[x].step \notin {"idle", "delete"} /\ worker[x].item = i
  /\ worker[x].step # "read" => worker[x].text = item[i].text

ConvergeInv ==
  alone =>
    \A i \in Base!Items : item[i].status = "published" =>
      \/ Waits(i, Base!First)
      \/ Follows(i, Base!First)
      \/ /\ Settled(i)
         /\ worker[Base!First].item = i => worker[Base!First].step \in {"idle", "delete"}

BaseInv ==
  /\ BaseTypes /\ ItemInv /\ RequestInv /\ RowInv /\ WorkersInv
  /\ AttemptsInv /\ Base!IndexedIsTrue /\ ConvergeInv

-----------------------------------------------------------------------------
(* The calls keep their invariant.                                         *)

\* No call has been made.
LEMMA CallsStart ==
  ASSUME Calls!CallsAssumption, Calls!Init
  PROVE  CallsInv
<1>1. CallTypes
  <2>1. Calls!NoConfig \in Plan BY DEF Calls!NoConfig, Plan, Names
  <2>2. <<>> \in Seq(Names) /\ <<>> \in Seq(Event) /\ <<>> \in Seq(Usage) OBVIOUS
  <2>3. \A b \in BOOLEAN :
          [step |-> "idle", mode |-> "none", config |-> Calls!NoConfig, attempts |-> <<>>,
           at |-> 1, try |-> 1, told |-> b] \in CallRow BY <2>1, <2>2 DEF CallRow, Steps
  <2>4. FALSE \in BOOLEAN BY Zenon
  <2>5. Calls!NoCall \in CallRow BY <2>3, <2>4, Zenon DEF Calls!NoCall
  <2>. QED BY <2>1, <2>2, <2>5 DEF Calls!Init, CallTypes
<1>2. Position BY DEF Position, Calls!Init, Calls!NoCall, Calls!CallsAssumption
<1>3. Heard BY DEF Heard, Calls!Init, Calls!NoCall
<1>4. Calls!StreamIsCoherent BY DEF Calls!StreamIsCoherent, Calls!Init, Calls!NoCall
<1>. QED BY <1>1, <1>2, <1>3, <1>4 DEF CallsInv

\* Nothing of the call depends on the configuration once it was resolved.
LEMMA ConfigureKeeps ==
  ASSUME CallsInv, Calls!Configure
  PROVE  CallsInv'
<1>1. config' \in [Calls!Scopes -> Plan] /\ keys' \in [Calls!Scopes -> SUBSET Providers]
  <2>1. Calls!ConfigPayload \subseteq Plan /\ Calls!NoConfig \in Plan
    BY DEF Calls!ConfigPayload, Calls!NoConfig, Plan, Names
  <2>. USE DEF CallsInv, CallTypes, Calls!Edit
  <2>2. CASE Calls!PutTenantConfig BY <2>1, <2>2 DEF Calls!PutTenantConfig
  <2>3. CASE Calls!PutPlatformConfig BY <2>1, <2>3 DEF Calls!PutPlatformConfig
  <2>4. CASE Calls!DeleteTenantConfig BY <2>1, <2>4 DEF Calls!DeleteTenantConfig
  <2>5. ASSUME NEW p \in Providers,
               \/ Calls!PutTenantCredential(p) \/ Calls!DeleteTenantCredential(p)
               \/ Calls!PutPlatformCredential(p) \/ Calls!DeletePlatformCredential(p)
        PROVE  config' \in [Calls!Scopes -> Plan] /\ keys' \in [Calls!Scopes -> SUBSET Providers]
    BY <2>5 DEF Calls!SetKeys, Calls!PutTenantCredential, Calls!DeleteTenantCredential,
         Calls!PutPlatformCredential, Calls!DeletePlatformCredential, Calls!Scopes
  <2>. QED BY <2>2, <2>3, <2>4, <2>5 DEF Calls!Configure
<1>2. UNCHANGED <<call, sent, gone, records>>
  BY DEF Calls!Configure, Calls!PutTenantConfig, Calls!PutPlatformConfig, Calls!DeleteTenantConfig,
     Calls!SetKeys, Calls!PutTenantCredential, Calls!DeleteTenantCredential,
     Calls!PutPlatformCredential, Calls!DeletePlatformCredential, Calls!Edit, Calls!callVars
<1>. QED
  BY <1>1, <1>2 DEF CallsInv, CallTypes, Position, Heard, Calls!StreamIsCoherent, Calls!Here, Calls!Ends

\* The fields of a call after each kind of step.
LEMMA CallFields ==
  ASSUME NEW c \in CallRow
  PROVE  /\ \A s \in Steps :
              \E d \in CallRow :
                /\ d = [c EXCEPT !.step = s]
                /\ d.step = s /\ d.mode = c.mode /\ d.config = c.config /\ d.attempts = c.attempts
                /\ d.at = c.at /\ d.try = c.try /\ d.told = c.told
         /\ \E d \in CallRow :
              /\ d = Calls!Again(c)
              /\ d.step = c.step /\ d.config = c.config /\ d.attempts = c.attempts
              /\ d.at = c.at /\ d.try = c.try + 1 /\ d.told = c.told
         /\ \E d \in CallRow :
              /\ d = Calls!NextAttempt(c)
              /\ d.step = c.step /\ d.config = c.config /\ d.attempts = c.attempts
              /\ d.at = c.at + 1 /\ d.try = 1 /\ d.told = c.told
<1>1. ASSUME NEW s \in Steps
      PROVE  \E d \in CallRow :
               /\ d = [c EXCEPT !.step = s]
               /\ d.step = s /\ d.mode = c.mode /\ d.config = c.config /\ d.attempts = c.attempts
               /\ d.at = c.at /\ d.try = c.try /\ d.told = c.told
  <2> DEFINE d == [c EXCEPT !.step = s]
  <2>1. d \in CallRow BY <1>1 DEF CallRow, Steps
  <2>2. /\ d.step = s /\ d.mode = c.mode /\ d.config = c.config /\ d.attempts = c.attempts
        /\ d.at = c.at /\ d.try = c.try /\ d.told = c.told
    BY DEF CallRow, Steps
  <2>. QED BY <2>1, <2>2, Zenon
<1>2. \E d \in CallRow :
        /\ d = Calls!Again(c)
        /\ d.step = c.step /\ d.config = c.config /\ d.attempts = c.attempts
        /\ d.at = c.at /\ d.try = c.try + 1 /\ d.told = c.told
  <2> DEFINE d == Calls!Again(c)
  <2>1. d \in CallRow BY DEF CallRow, Steps, Calls!Again
  <2>2. /\ d.step = c.step /\ d.config = c.config /\ d.attempts = c.attempts
        /\ d.at = c.at /\ d.try = c.try + 1 /\ d.told = c.told
    BY DEF CallRow, Steps, Calls!Again
  <2>. QED BY <2>1, <2>2, Zenon
<1>3. \E d \in CallRow :
        /\ d = Calls!NextAttempt(c)
        /\ d.step = c.step /\ d.config = c.config /\ d.attempts = c.attempts
        /\ d.at = c.at + 1 /\ d.try = 1 /\ d.told = c.told
  <2> DEFINE d == Calls!NextAttempt(c)
  <2>1. d \in CallRow
    <3>1. \A m, n \in Nat : [c EXCEPT !.at = m, !.try = n] \in CallRow BY DEF CallRow, Steps
    <3>2. c.at \in Nat BY DEF CallRow, Steps
    <3>3. c.at + 1 \in Nat /\ 1 \in Nat BY <3>2
    <3>. QED BY <3>1, <3>3, Zenon DEF Calls!NextAttempt
  <2>2. /\ d.step = c.step /\ d.config = c.config /\ d.attempts = c.attempts
        /\ d.at = c.at + 1 /\ d.try = 1 /\ d.told = c.told
    BY DEF CallRow, Steps, Calls!NextAttempt
  <2>. QED BY <2>1, <2>2, Zenon
<1>. QED BY <1>1, <1>2, <1>3, Zenon

\* A call that begins is at its first try.
LEMMA BeginKeeps ==
  ASSUME Calls!CallsAssumption, CallsInv,
         NEW mode \in {"complete", "stream", "complete_with_override", "stream_with_override"},
         NEW c \in Plan, Calls!Begin(mode, c)
  PROVE  CallsInv'
<1>1. call.step = "idle" /\ UNCHANGED <<config, keys, edits, sent, gone, records>>
  BY DEF Calls!Begin, Calls!configVars
<1>2. sent = <<>> /\ records = <<>> BY <1>1 DEF CallsInv, Heard
<1>3. PICK d \in CallRow :
        /\ d = call' /\ d.step = "primary" /\ d.attempts = <<>> /\ d.at = 1 /\ d.try = 1 /\ ~d.told
  <2> DEFINE d(b) == [step |-> "primary", mode |-> mode, config |-> c, attempts |-> <<>>,
                      at |-> 1, try |-> 1, told |-> b]
  <2>1. \A b \in BOOLEAN : d(b) \in CallRow
    <3>1. <<>> \in Seq(Names) OBVIOUS
    <3>. QED BY <3>1 DEF CallRow, Steps
  <2>2. FALSE \in BOOLEAN BY Zenon
  <2>3. call' = d(FALSE) BY DEF Calls!Begin, Calls!NoCall
  <2>4. d(FALSE).step = "primary" /\ d(FALSE).attempts = <<>> /\ d(FALSE).at = 1 /\ d(FALSE).try = 1
        /\ ~d(FALSE).told
    OBVIOUS
  <2>5. d(FALSE) \in CallRow BY <2>1, <2>2, Zenon
  <2>. QED BY <2>3, <2>4, <2>5, Zenon
<1>4. call' \in CallRow /\ call'.step = "primary" /\ call'.attempts = <<>> /\ call'.at = 1 /\ call'.try = 1
      /\ ~call'.told
  BY <1>3
<1>5. CallTypes' BY <1>1, <1>4 DEF CallsInv, CallTypes
<1>6. Position' BY <1>4 DEF Position, Calls!CallsAssumption
<1>7. Heard' BY <1>1, <1>2, <1>4 DEF Heard
<1>8. Calls!StreamIsCoherent' BY <1>1, <1>2 DEF Calls!StreamIsCoherent
<1>. QED BY <1>5, <1>6, <1>7, <1>8 DEF CallsInv

\* Looking for the key of a provider adds an attempt or none.
LEMMA LookKeeps ==
  ASSUME Calls!CallsAssumption, CallsInv,
         NEW step \in {"primary", "fallback"}, NEW next \in {"fallback", "ready"},
         NEW p \in {call.config.primary, call.config.fallback}, Calls!Look(step, p, next)
  PROVE  CallsInv'
<1>1. call.step = step /\ UNCHANGED <<config, keys, edits, sent, gone, records>>
  BY DEF Calls!Look, Calls!configVars
<1>2. sent = <<>> /\ records = <<>> BY <1>1 DEF CallsInv, Heard
<1>3. call \in CallRow /\ p \in Names /\ call.attempts \in Seq(Names)
  BY DEF CallsInv, CallTypes, CallRow, Steps, Plan
<1>4. PICK a \in Seq(Names) :
        /\ a = IF Calls!HasKey(p) THEN Append(call.attempts, p) ELSE call.attempts
        /\ \A i \in DOMAIN a : a[i] \in {call.config.primary, call.config.fallback}
  <2> DEFINE a == IF Calls!HasKey(p) THEN Append(call.attempts, p) ELSE call.attempts
  <2>1. a \in Seq(Names) BY <1>3
  <2>2. ASSUME NEW i \in DOMAIN a PROVE a[i] \in {call.config.primary, call.config.fallback}
    <3>1. i \in DOMAIN call.attempts \/ a[i] = p BY <1>3, <2>2
    <3>2. i \in DOMAIN call.attempts => a[i] = call.attempts[i] BY <1>3, <2>2
    <3>. QED BY <3>1, <3>2 DEF CallsInv, Position
  <2>. QED BY <2>1, <2>2, Zenon
<1>5. PICK d \in CallRow :
        /\ d = call' /\ d.step = next /\ d.attempts = a /\ d.config = call.config
        /\ d.at = call.at /\ d.try = call.try /\ d.told = call.told
  <2> DEFINE d == [call EXCEPT !.step = next, !.attempts = a]
  <2>1. d \in CallRow BY <1>3 DEF CallRow, Steps
  <2>2. call' = d BY <1>4 DEF Calls!Look
  <2>3. /\ d.step = next /\ d.attempts = a /\ d.config = call.config
        /\ d.at = call.at /\ d.try = call.try /\ d.told = call.told
    BY <1>3 DEF CallRow, Steps
  <2>. QED BY <2>1, <2>2, <2>3, Zenon
<1>6. /\ call' \in CallRow /\ call'.step = next /\ call'.attempts = a /\ call'.config = call.config
      /\ call'.at = call.at /\ call'.try = call.try /\ call'.told = call.told
  BY <1>5
<1>7. CallTypes' BY <1>1, <1>6 DEF CallsInv, CallTypes
<1>8. Position' BY <1>1, <1>4, <1>6 DEF CallsInv, Position
<1>9. Heard'
  <2>1. ~call.told BY <1>1 DEF CallsInv, Heard
  <2>. QED BY <1>1, <1>2, <1>6, <2>1 DEF Heard
<1>10. Calls!StreamIsCoherent' BY <1>1, <1>2 DEF Calls!StreamIsCoherent
<1>. QED BY <1>7, <1>8, <1>9, <1>10 DEF CallsInv

\* A call starts with its first attempt, if it has one.
LEMMA StartKeeps ==
  ASSUME Calls!CallsAssumption, CallsInv, Calls!Start
  PROVE  CallsInv'
<1>1. call.step = "ready" /\ UNCHANGED <<config, keys, edits, sent, gone, records>>
  BY DEF Calls!Start, Calls!configVars
<1>2. sent = <<>> /\ records = <<>> BY <1>1 DEF CallsInv, Heard
<1>3. call \in CallRow /\ call.attempts \in Seq(Names) /\ call.at = 1
  BY <1>1 DEF CallsInv, CallTypes, CallRow, Steps, Position
<1>4. PICK s \in {"over", "open", "complete"} :
        /\ s # "over" => call.attempts # <<>>
        /\ call' = [call EXCEPT !.step = s]
  BY DEF Calls!Start
<1>5. PICK d \in CallRow :
        /\ d = [call EXCEPT !.step = s]
        /\ d.step = s /\ d.mode = call.mode /\ d.config = call.config /\ d.attempts = call.attempts
        /\ d.at = call.at /\ d.try = call.try /\ d.told = call.told
  <2>1. s \in Steps BY DEF Steps
  <2>. QED BY <1>3, <2>1, CallFields, Zenon
<1>6. /\ call' \in CallRow /\ call'.step = s /\ call'.attempts = call.attempts
      /\ call'.config = call.config /\ call'.at = call.at /\ call'.try = call.try
      /\ call'.told = call.told
  BY <1>4, <1>5
<1>7. CallTypes' BY <1>1, <1>6 DEF CallsInv, CallTypes
<1>8. Position'
  <2>1. s # "over" => Len(call.attempts) >= 1 BY <1>3, <1>4
  <2>. QED BY <1>1, <1>3, <1>6, <2>1 DEF CallsInv, Position
<1>9. Heard'
  <2>1. ~call.told
    BY <1>1, <1>4 DEF Calls!Start, CallsInv, Heard
  <2>. QED BY <1>1, <1>2, <1>6, <2>1 DEF Heard
<1>10. Calls!StreamIsCoherent' BY <1>1, <1>2 DEF Calls!StreamIsCoherent
<1>. QED BY <1>7, <1>8, <1>9, <1>10 DEF CallsInv

\* What the consumer hears is added at the end, unless he is gone.
LEMMA SendAdds ==
  ASSUME CallTypes, NEW kind \in {"tool", "delta", "done", "error"}, Calls!Send(kind)
  PROVE  /\ sent' \in Seq(Event)
         /\ \/ gone /\ sent' = sent
            \/ /\ ~gone /\ Len(sent') = Len(sent) + 1
               /\ DOMAIN sent \subseteq DOMAIN sent'
               /\ \A i \in DOMAIN sent' :
                    \/ i \in DOMAIN sent /\ i < Len(sent') /\ sent'[i] = sent[i]
                    \/ /\ i = Len(sent') /\ sent'[i].kind = kind
                       /\ sent'[i].at = call.at /\ sent'[i].try = call.try
<1>1. sent \in Seq(Event) /\ call.at \in Nat /\ call.try \in Nat BY DEF CallTypes, CallRow
<1>2. PICK e \in Event : e = [kind |-> kind, at |-> call.at, try |-> call.try]
  BY <1>1 DEF Event
<1>3. CASE gone BY <1>1, <1>3 DEF Calls!Send
<1>4. CASE ~gone
  <2>1. PICK all \in Seq(Event) : all = Append(sent, e) BY <1>1, <1>2, AppendProperties
  <2>2. sent' = all BY <1>2, <1>4, <2>1 DEF Calls!Send
  <2>3. /\ Len(all) = Len(sent) + 1 /\ DOMAIN all = 1..(Len(sent) + 1) /\ DOMAIN sent = 1..Len(sent)
        /\ all[Len(sent) + 1] = e /\ \A i \in 1..Len(sent) : all[i] = sent[i]
        /\ Len(sent) \in Nat
    BY <1>1, <2>1
  <2>4. \A i \in DOMAIN all :
          \/ i \in DOMAIN sent /\ i < Len(all) /\ all[i] = sent[i]
          \/ i = Len(all) /\ all[i] = e
    BY <2>3
  <2>5. DOMAIN sent \subseteq DOMAIN all BY <2>3
  <2>6. e.kind = kind /\ e.at = call.at /\ e.try = call.try BY <1>2
  <2>. QED BY <1>4, <2>2, <2>3, <2>4, <2>5, <2>6
<1>. QED BY <1>3, <1>4

\* A record of the attempt under way, or none.
LEMMA RecordAdds ==
  ASSUME CallTypes, Position, call.step \in {"complete", "open", "stream"}, records = <<>>,
         NEW status \in {"success", "failure"}, Calls!Record(status, Calls!Here)
  PROVE  /\ records' \in Seq(Usage) /\ Len(records') <= 1
         /\ \A i \in DOMAIN records' :
              records'[i].provider = Calls!Here /\ records'[i].status = status
<1>1. Calls!Here \in Names
  <2>1. call.attempts \in Seq(Names) BY DEF CallTypes, CallRow
  <2>2. call.at \in 1..Len(call.attempts) BY DEF Position
  <2>. QED BY <2>1, <2>2 DEF Calls!Here
<1>2. PICK u \in Usage : u = [status |-> status, provider |-> Calls!Here]
  BY <1>1 DEF Usage
<1>3. u.status = status /\ u.provider = Calls!Here BY <1>2
<1>4. records' = <<>> \/ records' = Append(<<>>, u) BY <1>2 DEF Calls!Record
<1>5. PICK none \in Seq(Usage) : none = <<>>
  <2>1. <<>> \in Seq(Usage) OBVIOUS
  <2>. QED BY <2>1, Zenon
<1>6. Len(none) = 0 /\ DOMAIN none = {}
  <2>1. Len(none) = 0 BY <1>5
  <2>2. DOMAIN none = 1..Len(none) BY <1>5
  <2>. QED BY <2>1, <2>2
<1>7. PICK one \in Seq(Usage) : one = Append(none, u) BY <1>2, <1>5, AppendProperties
<1>8. Len(one) = 1 /\ DOMAIN one = 1..1 /\ one[1] = u
  <2>1. Len(one) = Len(none) + 1 /\ one[Len(none) + 1] = u BY <1>2, <1>7, AppendProperties
  <2>2. DOMAIN one = 1..Len(one) BY <1>7
  <2>3. Len(none) + 1 = 1 BY <1>6
  <2>. QED BY <2>1, <2>2, <2>3
<1>9. CASE records' = none BY <1>9, <1>6
<1>10. CASE records' = one BY <1>3, <1>7, <1>8, <1>10
<1>. QED BY <1>4, <1>5, <1>7, <1>9, <1>10

\* The call is over: the last event agrees with the record.
LEMMA EndKeeps ==
  ASSUME CallsInv, call.step \in {"complete", "open", "stream"}, Calls!End,
         UNCHANGED <<config, keys, edits>>,
         NEW kind \in {"tool", "delta", "done", "error"},
         sent' = sent \/ (Calls!Send(kind) /\ (kind \in {"tool", "delta"} => gone)),
         NEW status \in {"success", "failure"},
         records' = records \/ Calls!Record(status, Calls!Here),
         kind = "done" => call.step = "stream",
         sent' # sent => (status = "success") = (kind = "done")
  PROVE  CallsInv'
<1>1. records = <<>> BY DEF CallsInv, Heard
<1>2. PICK d \in CallRow :
        /\ d = [call EXCEPT !.step = "over"]
        /\ d.step = "over" /\ d.mode = call.mode /\ d.config = call.config
        /\ d.attempts = call.attempts
        /\ d.at = call.at /\ d.try = call.try /\ d.told = call.told
  <2>1. call \in CallRow /\ "over" \in Steps BY DEF CallsInv, CallTypes, Steps
  <2>. QED BY <2>1, CallFields, Zenon
<1>3. /\ call' \in CallRow /\ call'.step = "over" /\ call'.attempts = call.attempts
      /\ call'.config = call.config /\ call'.at = call.at /\ call'.try = call.try
      /\ call'.told = call.told
  BY <1>2 DEF Calls!End
<1>4. /\ sent' \in Seq(Event)
      /\ \/ sent' = sent
         \/ /\ kind \in {"done", "error"}
            /\ Len(sent') = Len(sent) + 1
            /\ DOMAIN sent \subseteq DOMAIN sent'
            /\ \A i \in DOMAIN sent' :
                 \/ i \in DOMAIN sent /\ i < Len(sent') /\ sent'[i] = sent[i]
                 \/ /\ i = Len(sent') /\ sent'[i].kind = kind
                    /\ sent'[i].at = call.at /\ sent'[i].try = call.try
  <2>1. CASE sent' = sent BY <2>1 DEF CallsInv, CallTypes
  <2>2. CASE Calls!Send(kind) /\ (kind \in {"tool", "delta"} => gone)
    BY <2>2, SendAdds DEF CallsInv
  <2>. QED BY <2>1, <2>2
<1>5. /\ records' \in Seq(Usage) /\ Len(records') <= 1
      /\ \A i \in DOMAIN records' :
           records'[i].provider = Calls!Here /\ records'[i].status = status
  <2>1. CASE records' = records BY <1>1, <2>1
  <2>2. CASE Calls!Record(status, Calls!Here) BY <1>1, <2>2, RecordAdds DEF CallsInv
  <2>. QED BY <2>1, <2>2
<1>6. CallTypes' BY <1>3, <1>4, <1>5 DEF CallsInv, CallTypes
<1>7. Position' BY <1>3 DEF CallsInv, Position
<1>8. Heard'
  <2>1. ASSUME NEW i \in DOMAIN sent'
        PROVE  /\ sent'[i].kind = "delta" => call'.told
               /\ sent'[i].kind \in {"delta", "done"} =>
                    sent'[i].at = call'.at /\ sent'[i].try = call'.try
    BY <1>3, <1>4, <2>1 DEF CallsInv, Heard
  <2>. QED BY <1>3, <2>1 DEF Heard
<1>9. Calls!StreamIsCoherent'
  <2>1. \A i \in DOMAIN sent : ~Calls!Ends(sent[i]) BY DEF CallsInv, Calls!StreamIsCoherent
  <2>2. ASSUME NEW i \in DOMAIN sent', NEW j \in DOMAIN sent',
               sent'[i].kind = "delta", sent'[j].kind \in {"delta", "done"}
        PROVE  sent'[i].at = sent'[j].at /\ sent'[i].try = sent'[j].try
    BY <1>8, <2>2 DEF Heard
  <2>3. ASSUME NEW i \in DOMAIN sent', Calls!Ends(sent'[i])
        PROVE  i = Len(sent') /\ call'.step = "over" /\ kind \in {"done", "error"} /\ sent' # sent
               /\ sent'[i].kind = kind
    BY <1>3, <1>4, <2>1, <2>3 DEF Calls!Ends
  <2>4. Calls!Here' = Calls!Here BY <1>3 DEF Calls!Here
  <2>5. ASSUME NEW i \in DOMAIN records'
        PROVE  /\ records'[i].provider = Calls!Here'
               /\ \A j \in DOMAIN sent' :
                    Calls!Ends(sent'[j]) => (records'[i].status = "success") = (sent'[j].kind = "done")
    <3>1. records'[i].provider = Calls!Here' BY <1>5, <2>4, <2>5
    <3>2. ASSUME NEW j \in DOMAIN sent', Calls!Ends(sent'[j])
          PROVE  (records'[i].status = "success") = (sent'[j].kind = "done")
      <4>1. records'[i].status = status /\ sent'[j].kind = kind BY <1>5, <2>3, <2>5, <3>2
      <4>2. (status = "success") = (kind = "done") BY <2>3, <3>2
      <4>. QED BY <4>1, <4>2
    <3>. QED BY <3>1, <3>2
  <2>6. \A i, j \in DOMAIN sent' :
          /\ sent'[i].kind = "delta" /\ sent'[j].kind \in {"delta", "done"} =>
               sent'[i].at = sent'[j].at /\ sent'[i].try = sent'[j].try
          /\ Calls!Ends(sent'[i]) => i = Len(sent') /\ call'.step = "over"
    BY <2>2, <2>3
  <2>. QED BY <1>5, <2>5, <2>6 DEF Calls!StreamIsCoherent, Calls!Ends
<1>. QED BY <1>6, <1>7, <1>8, <1>9 DEF CallsInv

\* As long as no text has left, a call may move to another try or attempt.
LEMMA MoveKeeps ==
  ASSUME CallsInv, ~call.told, UNCHANGED <<config, keys, edits, sent, records>>,
         NEW next \in CallRow, call' = next,
         \/ call.step \in {"open", "stream"} /\ next.step \in {"open", "stream"}
         \/ call.step = "complete" /\ next.step = "complete",
         next.config = call.config, next.attempts = call.attempts, next.told = call.told,
         next.at \in 1..Len(call.attempts), next.try \in 1..Tries
  PROVE  CallsInv'
<1>1. CallTypes' BY DEF CallsInv, CallTypes
<1>2. Position' BY DEF CallsInv, Position
<1>3. \A i \in DOMAIN sent : sent[i].kind # "delta" /\ sent[i].kind # "done"
  BY DEF CallsInv, Heard, Calls!StreamIsCoherent, Calls!Ends
<1>4. Heard' BY <1>3 DEF CallsInv, Heard
<1>5. Calls!StreamIsCoherent'
  <2>1. records = <<>> BY DEF CallsInv, Heard
  <2>2. \A i \in DOMAIN sent : ~Calls!Ends(sent[i]) BY DEF CallsInv, Calls!StreamIsCoherent
  <2>3. Len(records) <= 1 /\ DOMAIN records = {} BY <2>1
  <2>. QED BY <1>3, <2>2, <2>3 DEF Calls!StreamIsCoherent, Calls!Ends
<1>. QED BY <1>1, <1>2, <1>4, <1>5 DEF CallsInv

\* A text or a tool call of the try that is under way reaches the consumer.
LEMMA HearKeeps ==
  ASSUME CallsInv, call.step = "stream", ~gone, UNCHANGED <<config, keys, edits, records>>,
         NEW kind \in {"tool", "delta"}, Calls!Send(kind),
         call' = IF kind = "delta" THEN [call EXCEPT !.told = TRUE] ELSE call
  PROVE  CallsInv'
<1>1. call \in CallRow BY DEF CallsInv, CallTypes
<1>2. /\ call' \in CallRow /\ call'.step = "stream" /\ call'.attempts = call.attempts
      /\ call'.config = call.config /\ call'.at = call.at /\ call'.try = call.try
      /\ kind = "delta" => call'.told
      /\ call.told => call'.told
  <2> DEFINE c == [call EXCEPT !.told = TRUE]
  <2>1. c \in CallRow
    <3>1. \A b \in BOOLEAN : [call EXCEPT !.told = b] \in CallRow BY <1>1 DEF CallRow
    <3>2. TRUE \in BOOLEAN BY Zenon
    <3>. QED BY <3>1, <3>2, Zenon
  <2>2. /\ c.step = "stream" /\ c.attempts = call.attempts
        /\ c.config = call.config /\ c.at = call.at /\ c.try = call.try /\ c.told
    BY <1>1 DEF CallRow
  <2>3. CASE kind = "delta"
    <3>1. call' = c BY <2>3
    <3>. QED BY <2>1, <2>2, <3>1
  <2>4. CASE kind # "delta"
    <3>1. call' = call BY <2>4
    <3>. QED BY <1>1, <2>4, <3>1
  <2>. QED BY <2>3, <2>4
<1>3. /\ sent' \in Seq(Event) /\ Len(sent') = Len(sent) + 1
      /\ \A i \in DOMAIN sent' :
           \/ i \in DOMAIN sent /\ sent'[i] = sent[i]
           \/ sent'[i].kind = kind /\ sent'[i].at = call.at /\ sent'[i].try = call.try
  BY SendAdds DEF CallsInv
<1>4. CallTypes' BY <1>2, <1>3 DEF CallsInv, CallTypes
<1>5. Position' BY <1>2 DEF CallsInv, Position
<1>6. Heard'
  <2>1. ASSUME NEW i \in DOMAIN sent'
        PROVE  /\ sent'[i].kind = "delta" => call'.told
               /\ sent'[i].kind \in {"delta", "done"} =>
                    sent'[i].at = call'.at /\ sent'[i].try = call'.try
    BY <1>2, <1>3, <2>1 DEF CallsInv, Heard
  <2>2. records' = <<>> BY DEF CallsInv, Heard
  <2>. QED BY <1>2, <2>1, <2>2 DEF Heard
<1>7. Calls!StreamIsCoherent'
  <2>1. records = <<>> BY DEF CallsInv, Heard
  <2>2. Len(records) <= 1 /\ DOMAIN records = {} BY <2>1
  <2>3. \A i \in DOMAIN sent : ~Calls!Ends(sent[i]) BY DEF CallsInv, Calls!StreamIsCoherent
  <2>4. \A i \in DOMAIN sent' : ~Calls!Ends(sent'[i]) BY <1>3, <2>3 DEF Calls!Ends
  <2>5. ASSUME NEW i \in DOMAIN sent', NEW j \in DOMAIN sent',
               sent'[i].kind = "delta", sent'[j].kind \in {"delta", "done"}
        PROVE  sent'[i].at = sent'[j].at /\ sent'[i].try = sent'[j].try
    BY <1>6, <2>5 DEF Heard
  <2>. QED BY <2>2, <2>4, <2>5 DEF Calls!StreamIsCoherent, Calls!Ends
<1>. QED BY <1>4, <1>5, <1>6, <1>7 DEF CallsInv

\* Trying again, or the next attempt, stays within the attempts and tries there are.
LEMMA TriesKeep ==
  ASSUME Calls!CallsAssumption, CallsInv, ~call.told, call.step \in {"complete", "open", "stream"},
         UNCHANGED <<config, keys, edits, sent, records>>,
         NEW c,
         (c = Calls!Again(call) /\ ~Calls!LastTry) \/ (c = Calls!NextAttempt(call) /\ ~Calls!LastAttempt),
         \/ call.step \in {"complete", "open"} /\ call' = c
         \/ call.step = "stream" /\ call' = [c EXCEPT !.step = "open"]
  PROVE  CallsInv'
<1>1. call \in CallRow /\ call.attempts \in Seq(Names) /\ call.try \in 1..Tries
      /\ call.at \in 1..Len(call.attempts) /\ Tries \in Nat \ {0}
  BY DEF CallsInv, CallTypes, CallRow, Position, Calls!CallsAssumption
<1>2. PICK d \in CallRow :
        /\ d = c /\ d.step = call.step /\ d.config = call.config /\ d.attempts = call.attempts
        /\ d.told = call.told /\ d.at \in 1..Len(call.attempts) /\ d.try \in 1..Tries
  <2>1. CASE c = Calls!Again(call) /\ ~Calls!LastTry
    <3>1. PICK d \in CallRow :
            /\ d = Calls!Again(call)
            /\ d.step = call.step /\ d.config = call.config /\ d.attempts = call.attempts
            /\ d.at = call.at /\ d.try = call.try + 1 /\ d.told = call.told
      BY <1>1, CallFields, Zenon
    <3>2. d.try \in 1..Tries BY <1>1, <2>1, <3>1 DEF Calls!LastTry
    <3>3. d.at \in 1..Len(call.attempts) BY <1>1, <3>1
    <3>. QED BY <2>1, <3>1, <3>2, <3>3, Zenon
  <2>2. CASE c = Calls!NextAttempt(call) /\ ~Calls!LastAttempt
    <3>1. PICK d \in CallRow :
            /\ d = Calls!NextAttempt(call)
            /\ d.step = call.step /\ d.config = call.config /\ d.attempts = call.attempts
            /\ d.at = call.at + 1 /\ d.try = 1 /\ d.told = call.told
      BY <1>1, CallFields, Zenon
    <3>2. d.try \in 1..Tries BY <1>1, <3>1
    <3>3. d.at \in 1..Len(call.attempts)
      <4>1. Len(call.attempts) \in Nat BY <1>1
      <4>. QED BY <1>1, <2>2, <3>1, <4>1 DEF Calls!LastAttempt
    <3>. QED BY <2>2, <3>1, <3>2, <3>3, Zenon
  <2>. QED BY <2>1, <2>2
<1>3. CASE call.step \in {"complete", "open"} /\ call' = c BY <1>2, <1>3, MoveKeeps
<1>4. CASE call.step = "stream" /\ call' = [c EXCEPT !.step = "open"]
  <2>1. PICK f \in CallRow :
          /\ f = [d EXCEPT !.step = "open"]
          /\ f.step = "open" /\ f.mode = d.mode /\ f.config = d.config /\ f.attempts = d.attempts
          /\ f.at = d.at /\ f.try = d.try /\ f.told = d.told
    <3>1. "open" \in Steps BY DEF Steps
    <3>. QED BY <1>2, <3>1, CallFields, Zenon
  <2>2. call' = f BY <1>2, <1>4, <2>1
  <2>. QED BY <1>2, <1>4, <2>1, <2>2, MoveKeeps
<1>. QED BY <1>3, <1>4

\* A try that failed before any text is followed by another,
LEMMA AgainKeeps ==
  ASSUME Calls!CallsAssumption, CallsInv, ~call.told, call.step \in {"complete", "open", "stream"},
         UNCHANGED <<config, keys, edits, sent, records>>, ~Calls!LastTry,
         \/ call.step \in {"complete", "open"} /\ call' = Calls!Again(call)
         \/ call.step = "stream" /\ call' = [Calls!Again(call) EXCEPT !.step = "open"]
  PROVE  CallsInv'
<1>1. PICK c : c = Calls!Again(call) OBVIOUS
<1>. QED BY <1>1, TriesKeep

\* the last of them by the next provider of the plan,
LEMMA NextAttemptKeeps ==
  ASSUME Calls!CallsAssumption, CallsInv, ~call.told, call.step \in {"complete", "open", "stream"},
         UNCHANGED <<config, keys, edits, sent, records>>, ~Calls!LastAttempt,
         \/ call.step \in {"complete", "open"} /\ call' = Calls!NextAttempt(call)
         \/ call.step = "stream" /\ call' = [Calls!NextAttempt(call) EXCEPT !.step = "open"]
  PROVE  CallsInv'
<1>1. PICK c : c = Calls!NextAttempt(call) OBVIOUS
<1>. QED BY <1>1, TriesKeep

\* A call fails: the consumer hears it, and the ledger takes the attempt as a failure.
LEMMA FailsKeep ==
  ASSUME CallsInv, call.step \in {"open", "stream"}, UNCHANGED <<config, keys, edits>>, Calls!Fails
  PROVE  CallsInv'
BY EndKeeps DEF Calls!Fails

\* the last provider by the error and its record.
LEMMA GiveUpKeeps ==
  ASSUME CallsInv, call.step \in {"open", "stream"}, UNCHANGED <<config, keys, edits>>, Calls!GiveUp
  PROVE  CallsInv'
BY EndKeeps DEF Calls!GiveUp

\* Each step of a call.
LEMMA CallsStep ==
  ASSUME Calls!CallsAssumption, CallsInv, Calls!Next
  PROVE  CallsInv'
<1>. USE DEF Calls!configVars
<1>1. CASE Calls!Configure BY <1>1, ConfigureKeeps
<1>2. CASE Calls!BeginComplete \/ Calls!BeginStream
  <2>1. Calls!Resolved \in Plan
    BY DEF Calls!Resolved, Calls!Scopes, CallsInv, CallTypes
  <2>. QED BY <1>2, <2>1, BeginKeeps DEF Calls!BeginComplete, Calls!BeginStream
<1>3. ASSUME NEW p \in Providers, Calls!BeginCompleteWithOverride(p) \/ Calls!BeginStreamWithOverride(p)
      PROVE  CallsInv'
  <2>1. Calls!Override(p) \in Plan BY DEF Calls!Override, Plan, Names
  <2>. QED BY <1>3, <2>1, BeginKeeps DEF Calls!BeginCompleteWithOverride, Calls!BeginStreamWithOverride
<1>4. CASE Calls!FindPrimary BY <1>4, LookKeeps DEF Calls!FindPrimary
<1>5. CASE Calls!FindFallback BY <1>5, LookKeeps DEF Calls!FindFallback
<1>6. CASE Calls!Start BY <1>6, StartKeeps
<1>7. CASE Calls!Complete
  <2>1. call.step = "complete" /\ ~call.told BY <1>7 DEF Calls!Complete, CallsInv, Heard
  <2>2. CASE (Calls!Record("success", Calls!Here) \/ Calls!Record("failure", Calls!Here)) /\ Calls!End
    BY <1>7, <2>1, <2>2, EndKeeps DEF Calls!Complete
  <2>3. CASE /\ ~(Calls!LastTry /\ Calls!LastAttempt)
             /\ call' = IF Calls!LastTry THEN Calls!NextAttempt(call) ELSE Calls!Again(call)
             /\ UNCHANGED records
    <3>1. CASE Calls!LastTry BY <1>7, <2>1, <2>3, <3>1, NextAttemptKeeps DEF Calls!Complete
    <3>2. CASE ~Calls!LastTry BY <1>7, <2>1, <2>3, <3>2, AgainKeeps DEF Calls!Complete
    <3>. QED BY <3>1, <3>2
  <2>. QED BY <1>7, <2>2, <2>3 DEF Calls!Complete
<1>8. CASE Calls!Open
  <2>1. call.step = "open" /\ ~call.told BY <1>8 DEF Calls!Open, CallsInv, Heard
  <2>2. call \in CallRow BY DEF CallsInv, CallTypes
  <2>3. PICK f \in CallRow :
          /\ f = [call EXCEPT !.step = "stream"]
          /\ f.step = "stream" /\ f.mode = call.mode /\ f.config = call.config
          /\ f.attempts = call.attempts /\ f.at = call.at /\ f.try = call.try /\ f.told = call.told
    <3>1. "stream" \in Steps BY DEF Steps
    <3>. QED BY <2>2, <3>1, CallFields, Zenon
  <2>4. call.at \in 1..Len(call.attempts) /\ call.try \in 1..Tries BY <2>1 DEF CallsInv, Position
  <2>. QED BY <1>8, <2>1, <2>3, <2>4, MoveKeeps DEF Calls!Open
<1>9. CASE Calls!OpenFails
  <2>1. call.step = "open" /\ ~call.told BY <1>9 DEF Calls!OpenFails, CallsInv, Heard
  <2>2. CASE ~Calls!LastTry /\ call' = Calls!Again(call) /\ UNCHANGED <<sent, records>>
    BY <1>9, <2>1, <2>2, AgainKeeps DEF Calls!OpenFails
  <2>3. CASE ~Calls!LastAttempt /\ call' = Calls!NextAttempt(call) /\ UNCHANGED <<sent, records>>
    BY <1>9, <2>1, <2>3, NextAttemptKeeps DEF Calls!OpenFails
  <2>4. CASE Calls!GiveUp BY <1>9, <2>1, <2>4, GiveUpKeeps DEF Calls!OpenFails
  <2>. QED BY <1>9, <2>2, <2>3, <2>4 DEF Calls!OpenFails
<1>10. CASE Calls!OverriddenFails BY <1>10, FailsKeep DEF Calls!OverriddenFails
<1>11. CASE Calls!ToolCall
  <2>1. CASE gone BY <1>11, <2>1, EndKeeps DEF Calls!ToolCall
  <2>2. CASE ~gone BY <1>11, <2>2, HearKeeps DEF Calls!ToolCall
  <2>. QED BY <2>1, <2>2
<1>12. CASE Calls!Delta
  <2>1. CASE gone
    <3>1. sent' = sent BY <1>12, <2>1 DEF Calls!Delta, Calls!Send
    <3>. QED BY <1>12, <2>1, <3>1, EndKeeps DEF Calls!Delta
  <2>2. CASE ~gone BY <1>12, <2>2, HearKeeps DEF Calls!Delta
  <2>. QED BY <2>1, <2>2
<1>13. CASE Calls!Finish BY <1>13, EndKeeps DEF Calls!Finish
<1>14. CASE Calls!Break
  <2>1. CASE Calls!Fails BY <1>14, <2>1, FailsKeep DEF Calls!Break
  <2>2. CASE ~Calls!Fails
    BY <1>14, <2>2, AgainKeeps DEF Calls!Break
  <2>. QED BY <2>1, <2>2
<1>15. CASE Calls!EndEarly
  <2>1. call.step = "stream" BY <1>15 DEF Calls!EndEarly
  <2>2. CASE call.told BY <1>15, <2>1, <2>2, EndKeeps DEF Calls!EndEarly
  <2>3. CASE ~call.told /\ ~(Calls!LastTry /\ Calls!LastAttempt)
    <3>1. CASE Calls!LastTry BY <1>15, <2>1, <2>3, <3>1, NextAttemptKeeps DEF Calls!EndEarly
    <3>2. CASE ~Calls!LastTry BY <1>15, <2>1, <2>3, <3>2, AgainKeeps DEF Calls!EndEarly
    <3>. QED BY <3>1, <3>2
  <2>4. CASE ~call.told /\ Calls!LastTry /\ Calls!LastAttempt
    BY <1>15, <2>1, <2>4, GiveUpKeeps DEF Calls!EndEarly
  <2>. QED BY <2>2, <2>3, <2>4
<1>16. CASE Calls!OverriddenEndsEarly BY <1>16, FailsKeep DEF Calls!OverriddenEndsEarly
<1>17. CASE Calls!Leave
  BY <1>17 DEF Calls!Leave, CallsInv, CallTypes, Position, Heard, Calls!StreamIsCoherent,
     Calls!Here, Calls!Ends
<1>. QED
  BY <1>1, <1>2, <1>3, <1>4, <1>5, <1>6, <1>7, <1>8, <1>9, <1>10, <1>11, <1>12, <1>13, <1>14,
     <1>15, <1>16, <1>17 DEF Calls!Next

\* The types that the runs check follow.
LEMMA CallsTyped ==
  ASSUME CallsInv
  PROVE  Calls!TypeOK
<1>1. keys \in [Calls!Scopes -> SUBSET Providers] /\ config \in [Calls!Scopes -> Plan]
  BY DEF CallsInv, CallTypes
<1>2. \A s \in Calls!Scopes : keys[s] \subseteq Providers /\ config[s].primary \in Providers \cup {Nobody}
  BY <1>1 DEF Plan, Names
<1>3. call.step \notin {"idle", "over"} => call.at <= Len(call.attempts) + 1
  <2>1. call \in CallRow /\ call.attempts \in Seq(Names) /\ call.step \in Steps
    BY DEF CallsInv, CallTypes, CallRow
  <2>2. Len(call.attempts) \in Nat BY <2>1
  <2>. QED BY <2>1, <2>2 DEF CallsInv, Position, Steps
<1>. QED BY <1>2, <1>3 DEF Calls!TypeOK, CallsInv, Position

-----------------------------------------------------------------------------
(* The editors keep theirs.                                                *)

\* No editor is at work.
LEMMA AgentStart ==
  ASSUME Agent!SettingsAssumption, Agent!Init
  PROVE  AgentInv
<1>1. \A b \in BOOLEAN :
        [step |-> "idle", base |-> 0, text |-> "none", from |-> 0, kind |-> "none",
         saw |-> 0, inserted |-> b] \in WriterRow
  BY DEF WriterRow, Tongue
<1>2. FALSE \in BOOLEAN BY Zenon
<1>3. Agent!Absent \in WriterRow BY <1>1, <1>2, Zenon DEF Agent!Absent
<1>4. AgentTypes
  <2>1. writer \in [Writers -> WriterRow] BY <1>3 DEF Agent!Init
  <2>2. versions \in Seq(Version) BY DEF Agent!Init
  <2>. QED BY <2>1, <2>2 DEF AgentTypes, Agent!Init, Agent!SettingsAssumption
<1>5. \A w \in Writers : writer[w].step = "idle" BY DEF Agent!Init, Agent!Absent
<1>6. \A w \in Writers : Saving(w) /\ HoldsRow(w)
  BY <1>5 DEF Saving, HoldsRow, Agent!Init, Agent!SettingsAssumption
<1>7. Restores /\ HoldsLive BY DEF Restores, HoldsLive, Agent!Init
<1>8. Agent!NothingOverwritten BY DEF Agent!NothingOverwritten, Agent!Init
<1>. QED BY <1>4, <1>6, <1>7, <1>8 DEF AgentInv

\* A request that is done, or begins.
LEMMA AbsentRow ==
  Agent!Absent \in WriterRow /\ Agent!Absent.step = "idle" /\ Agent!Absent.from = 0
<1>1. \A b \in BOOLEAN :
        [step |-> "idle", base |-> 0, text |-> "none", from |-> 0, kind |-> "none",
         saw |-> 0, inserted |-> b] \in WriterRow
  BY DEF WriterRow, Tongue
<1>2. FALSE \in BOOLEAN BY Zenon
<1>3. Agent!Absent \in WriterRow BY <1>1, <1>2, Zenon DEF Agent!Absent
<1>4. Agent!Absent.step = "idle" /\ Agent!Absent.from = 0 BY DEF Agent!Absent
<1>. QED BY <1>3, <1>4

Renewing(b, t) == [Agent!Absent EXCEPT !.step = "save", !.base = b, !.text = t]

\* What an editor's row becomes: a text to save,
LEMMA SaveRow ==
  ASSUME NEW b \in Nat, NEW t \in Tongue
  PROVE  \E r \in WriterRow : r = Renewing(b, t) /\ r.step = "save" /\ r.base = b /\ r.text = t /\ r.from = 0
<1>1. PICK a \in WriterRow : a = Agent!Absent /\ a.from = 0 BY AbsentRow
<1> DEFINE r == [a EXCEPT !.step = "save", !.base = b, !.text = t]
<1>2. r \in WriterRow BY DEF WriterRow
<1>3. r.step = "save" /\ r.base = b /\ r.text = t /\ r.from = 0 BY <1>1 DEF WriterRow
<1>4. r = Renewing(b, t) BY <1>1 DEF Renewing
<1>. QED BY <1>2, <1>3, <1>4, Zenon

Restoring(b, t, f) == [Agent!Absent EXCEPT !.step = "save", !.base = b, !.text = t, !.from = f]

\* a version to restore,
LEMMA RestoreRow ==
  ASSUME NEW b \in Nat, NEW t \in Tongue, NEW f \in Nat
  PROVE  \E r \in WriterRow : r = Restoring(b, t, f) /\ r.step = "save" /\ r.base = b /\ r.text = t /\ r.from = f
<1>1. PICK a \in WriterRow : a = Agent!Absent /\ a.from = 0 BY AbsentRow
<1> DEFINE r == [a EXCEPT !.step = "save", !.base = b, !.text = t, !.from = f]
<1>2. r \in WriterRow BY DEF WriterRow
<1>3. r.step = "save" /\ r.base = b /\ r.text = t /\ r.from = f BY <1>1 DEF WriterRow
<1>4. r = Restoring(b, t, f) BY <1>1 DEF Restoring
<1>. QED BY <1>2, <1>3, <1>4, Zenon

Configuring(b, k) == [Agent!Absent EXCEPT !.step = "config", !.base = b, !.kind = k]

\* a configuration,
LEMMA ConfigRow ==
  ASSUME NEW b \in Nat, NEW k \in {"preset", "upload"}
  PROVE  \E r \in WriterRow : r = Configuring(b, k) /\ r.step = "config" /\ r.base = b /\ r.kind = k
<1>1. PICK a \in WriterRow : a = Agent!Absent /\ a.from = 0 BY AbsentRow
<1> DEFINE r == [a EXCEPT !.step = "config", !.base = b, !.kind = k]
<1>2. r \in WriterRow BY DEF WriterRow
<1>3. r.step = "config" /\ r.base = b /\ r.kind = k BY <1>1 DEF WriterRow
<1>4. r = Configuring(b, k) BY <1>1 DEF Configuring
<1>. QED BY <1>2, <1>3, <1>4, Zenon

\* an avatar whose predecessor was retired.
LEMMA RetireRow ==
  ASSUME NEW x \in Nat
  PROVE  \E r \in WriterRow :
           /\ r = [Agent!Absent EXCEPT !.step = "retire", !.saw = x]
           /\ r.step = "retire" /\ r.saw = x
<1>1. PICK a \in WriterRow : a = Agent!Absent /\ a.from = 0 BY AbsentRow
<1> DEFINE r == [a EXCEPT !.step = "retire", !.saw = x]
<1>2. r \in WriterRow BY DEF WriterRow
<1>3. r.step = "retire" /\ r.saw = x BY <1>1 DEF WriterRow
<1>. QED BY <1>1, <1>2, <1>3, Zenon

\* A request that goes on keeps what it carries.
LEMMA GoesRow ==
  ASSUME NEW w \in Writers, writer \in [Writers -> WriterRow],
         NEW s \in {"insert", "update", "insert avatar", "bump"}
  PROVE  \E r \in WriterRow :
           /\ [writer EXCEPT ![w].step = s] = [writer EXCEPT ![w] = r]
           /\ r.step = s /\ r.base = writer[w].base /\ r.text = writer[w].text
           /\ r.from = writer[w].from /\ r.kind = writer[w].kind
<1> DEFINE r == [writer[w] EXCEPT !.step = s]
<1>1. writer[w] \in WriterRow OBVIOUS
<1>2. r \in WriterRow BY <1>1 DEF WriterRow
<1>3. /\ r.step = s /\ r.base = writer[w].base /\ r.text = writer[w].text
      /\ r.from = writer[w].from /\ r.kind = writer[w].kind
  BY <1>1 DEF WriterRow
<1>4. [writer EXCEPT ![w].step = s] = [writer EXCEPT ![w] = r] OBVIOUS
<1>. QED BY <1>2, <1>3, <1>4, Zenon

\* One editor's row changes.
LEMMA RowSet ==
  ASSUME NEW w \in Writers, NEW r \in WriterRow, writer \in [Writers -> WriterRow],
         writer' = [writer EXCEPT ![w] = r]
  PROVE  /\ writer' \in [Writers -> WriterRow] /\ writer'[w] = r
         /\ \A v \in Writers : v # w => writer'[v] = writer[v]
OBVIOUS

\* What a request that holds no lock does leaves the locks as they are.
LEMMA LocksKept ==
  ASSUME Agent!SettingsAssumption, AgentInv, UNCHANGED <<agent, live, uploads, rowBy, liveBy>>,
         NEW w \in Writers, NEW r \in WriterRow, writer' = [writer EXCEPT ![w] = r],
         writer[w].step \notin {"update", "insert avatar", "bump"}, r.step # "update",
         r.step = "config" => r.kind \in {"preset", "upload"}
  PROVE  (\A v \in Writers : HoldsRow(v)') /\ HoldsLive'
<1>1. /\ writer' \in [Writers -> WriterRow] /\ writer'[w] = r
      /\ \A v \in Writers : v # w => writer'[v] = writer[v]
  BY RowSet DEF AgentInv, AgentTypes
<1>2. ASSUME NEW v \in Writers PROVE HoldsRow(v)'
  <2>1. HoldsRow(v) BY DEF AgentInv
  <2>2. CASE v = w BY <1>1, <2>1, <2>2 DEF HoldsRow
  <2>3. CASE v # w BY <1>1, <2>1, <2>3 DEF HoldsRow
  <2>. QED BY <2>2, <2>3
<1>3. HoldsLive'
  <2>1. liveBy # w BY DEF AgentInv, HoldsLive, Agent!SettingsAssumption, AgentTypes
  <2>2. liveBy \in Writers \cup {Free} BY DEF AgentInv, AgentTypes
  <2>. QED BY <1>1, <2>1, <2>2 DEF AgentInv, HoldsLive
<1>. QED BY <1>2, <1>3

\* What does not save leaves what the others save as it is.
LEMMA SavesKept ==
  ASSUME AgentInv, UNCHANGED versions,
         NEW w \in Writers, NEW r \in WriterRow, writer' = [writer EXCEPT ![w] = r],
         r.step = "save" =>
           r.from \in 0..Len(versions) /\ (r.from # 0 => r.text = versions[r.from].text),
         r.step = "insert" => r.base = 0 /\ r.from = 0
  PROVE  \A v \in Writers : Saving(v)'
<1>1. /\ writer' \in [Writers -> WriterRow] /\ writer'[w] = r
      /\ \A v \in Writers : v # w => writer'[v] = writer[v]
  BY RowSet DEF AgentInv, AgentTypes
<1>2. ASSUME NEW v \in Writers PROVE Saving(v)'
  <2>1. Saving(v) BY DEF AgentInv
  <2>2. CASE v = w BY <1>1, <2>2 DEF Saving
  <2>3. CASE v # w BY <1>1, <2>1, <2>3 DEF Saving
  <2>. QED BY <2>2, <2>3
<1>. QED BY <1>2

\* A request that changes neither the prompt nor the configuration.
LEMMA QuietKeeps ==
  ASSUME Agent!SettingsAssumption, AgentInv, UNCHANGED <<versions, agent, live, uploads, rowBy, liveBy>>,
         NEW w \in Writers, NEW r \in WriterRow, writer' = [writer EXCEPT ![w] = r],
         writer[w].step \notin {"update", "insert avatar", "bump"}, r.step # "update",
         r.step = "config" => r.kind \in {"preset", "upload"},
         r.step = "save" =>
           r.from \in 0..Len(versions) /\ (r.from # 0 => r.text = versions[r.from].text),
         r.step = "insert" => r.base = 0 /\ r.from = 0
  PROVE  AgentInv'
<1>1. (\A v \in Writers : HoldsRow(v)') /\ HoldsLive' BY LocksKept
<1>2. \A v \in Writers : Saving(v)' BY SavesKept
<1>3. AgentTypes' BY RowSet DEF AgentInv, AgentTypes
<1>4. Restores' /\ Agent!NothingOverwritten'
  BY DEF AgentInv, Restores, Agent!NothingOverwritten
<1>. QED BY <1>1, <1>2, <1>3, <1>4 DEF AgentInv

\* A version added over the one its author was shown.
LEMMA AddKeeps ==
  ASSUME Agent!SettingsAssumption, AgentInv, UNCHANGED <<agent, live, uploads, rowBy, liveBy>>,
         NEW w \in Writers, writer[w].step \in {"save", "insert"},
         Agent!AddVersion(w), Agent!Done(w),
         writer[w].base = Len(versions), writer[w].from \in 0..Len(versions),
         writer[w].from # 0 => writer[w].text = versions[writer[w].from].text,
         Len(versions) # 0 => versions[Len(versions)].text # writer[w].text
  PROVE  AgentInv'
<1>1. versions \in Seq(Version) /\ writer \in [Writers -> WriterRow] /\ writer[w] \in WriterRow
  BY DEF AgentInv, AgentTypes
<1>2. PICK e \in Version :
        /\ e = [base |-> writer[w].base, text |-> writer[w].text, from |-> writer[w].from]
        /\ e.base = writer[w].base /\ e.text = writer[w].text /\ e.from = writer[w].from
  <2>1. writer[w].base \in Nat /\ writer[w].text \in Tongue /\ writer[w].from \in Nat
    BY <1>1 DEF WriterRow
  <2> DEFINE e == [base |-> writer[w].base, text |-> writer[w].text, from |-> writer[w].from]
  <2>2. e \in Version BY <2>1 DEF Version
  <2>. QED BY <2>2, Zenon
<1>3. PICK all \in Seq(Version) : all = Append(versions, e) BY <1>1, <1>2, AppendProperties
<1>4. PICK n \in Nat : n = Len(versions) BY <1>1
<1>5. Len(all) = n + 1 /\ DOMAIN all = 1..(n + 1) /\ DOMAIN versions = 1..n /\ all[n + 1] = e
      /\ \A i \in 1..n : all[i] = versions[i]
  <2>1. Len(all) = Len(versions) + 1 /\ all[Len(versions) + 1] = e
        /\ \A i \in 1..Len(versions) : all[i] = versions[i]
    BY <1>1, <1>2, <1>3, AppendProperties
  <2>2. DOMAIN all = 1..Len(all) /\ DOMAIN versions = 1..Len(versions) BY <1>1, <1>3
  <2>. QED BY <1>4, <2>1, <2>2
<1>6. versions' = all BY <1>2, <1>3 DEF Agent!AddVersion
<1>7. /\ writer' \in [Writers -> WriterRow] /\ writer'[w].step = "idle"
      /\ \A v \in Writers : v # w => writer'[v] = writer[v]
  BY <1>1, AbsentRow, RowSet DEF Agent!Done
<1>8. (\A v \in Writers : HoldsRow(v)') /\ HoldsLive'
  BY AbsentRow, LocksKept DEF Agent!Done
<1>9. AgentTypes' BY <1>6, <1>7 DEF AgentInv, AgentTypes
<1>10. ASSUME NEW v \in Writers PROVE Saving(v)'
  <2>1. CASE v = w BY <1>7, <2>1 DEF Saving
  <2>2. CASE v # w
    <3>1. Saving(v) /\ writer'[v] = writer[v] /\ writer[v] \in WriterRow
      BY <1>1, <1>7, <2>2 DEF AgentInv
    <3>2. CASE writer[v].step = "save"
      <4>1. writer[v].from \in 0..n /\ (writer[v].from # 0 => writer[v].text = versions[writer[v].from].text)
        BY <1>4, <3>1, <3>2 DEF Saving
      <4>2. writer[v].from \in 0..(n + 1) /\ (writer[v].from # 0 => all[writer[v].from] = versions[writer[v].from])
        BY <1>5, <4>1
      <4>. QED BY <1>5, <1>6, <3>1, <3>2, <4>1, <4>2 DEF Saving
    <3>3. CASE writer[v].step # "save" BY <3>1, <3>3 DEF Saving
    <3>. QED BY <3>2, <3>3
  <2>. QED BY <2>1, <2>2
<1>11. Agent!NothingOverwritten'
  <2>1. ASSUME NEW i \in 1..(n + 1)
        PROVE  /\ all[i].base = i - 1
               /\ i > 1 => all[i].text # all[i - 1].text
               /\ all[i].from # 0 => all[i].text = all[all[i].from].text
    <3>1. CASE i = n + 1
      <4>1. all[i] = e BY <1>5, <3>1
      <4>2. all[i].base = i - 1 BY <1>2, <1>4, <3>1, <4>1
      <4>3. i > 1 => all[i].text # all[i - 1].text
        <5>1. i > 1 => i - 1 = n /\ n \in 1..n BY <1>4, <3>1
        <5>2. i > 1 => all[i - 1] = versions[n] BY <1>5, <5>1
        <5>. QED BY <1>2, <1>4, <4>1, <5>1, <5>2
      <4>4. all[i].from # 0 => all[i].text = all[all[i].from].text
        <5>1. e.from # 0 => e.from \in 1..n BY <1>2, <1>4
        <5>. QED BY <1>2, <1>5, <4>1, <5>1
      <4>. QED BY <4>2, <4>3, <4>4
    <3>2. CASE i # n + 1
      <4>1. i \in 1..n /\ all[i] = versions[i] BY <1>5, <3>2
      <4>2. /\ versions[i].base = i - 1
            /\ i > 1 => versions[i].text # versions[i - 1].text
            /\ versions[i].from # 0 => versions[i].text = versions[versions[i].from].text
        BY <1>5, <4>1 DEF AgentInv, Agent!NothingOverwritten
      <4>3. i > 1 => all[i - 1] = versions[i - 1] BY <1>5, <4>1
      <4>4. versions[i].from # 0 => all[versions[i].from] = versions[versions[i].from]
        <5>1. versions[i] \in Version BY <1>1, <1>5, <4>1
        <5>2. versions[i].from \in Nat /\ versions[i].from < i
          BY <1>5, <4>1, <5>1 DEF AgentInv, Restores, Version
        <5>. QED BY <1>5, <4>1, <5>2
      <4>. QED BY <4>1, <4>2, <4>3, <4>4
    <3>. QED BY <3>1, <3>2
  <2>2. /\ agent.version # 0 => agent.base = agent.version - 1
        /\ agent.kind = "upload" <=> live # 0
    BY DEF AgentInv, Agent!NothingOverwritten
  <2>. QED BY <1>5, <1>6, <2>1, <2>2 DEF Agent!NothingOverwritten
<1>12. Restores'
  <2>1. ASSUME NEW i \in 1..(n + 1) PROVE all[i].from < i
    <3>1. CASE i = n + 1 BY <1>2, <1>4, <1>5, <3>1
    <3>2. CASE i # n + 1
      <4>1. i \in 1..n BY <3>2
      <4>. QED BY <1>5, <4>1 DEF AgentInv, Restores
    <3>. QED BY <3>1, <3>2
  <2>. QED BY <1>5, <1>6, <2>1 DEF Restores
<1>. QED BY <1>8, <1>9, <1>10, <1>11, <1>12 DEF AgentInv

\* Every step on the prompt keeps the invariant.
LEMMA PromptStep ==
  ASSUME Agent!SettingsAssumption, AgentInv, Agent!PromptNext
  PROVE  AgentInv'
<1>. USE DEF Agent!promptVars, Agent!agentVars
<1>1. writer \in [Writers -> WriterRow] /\ versions \in Seq(Version) BY DEF AgentInv, AgentTypes
<1>2. PICK n \in Nat : n = Len(versions) /\ DOMAIN versions = 1..n BY <1>1
<1>3. PICK w \in Writers :
        \/ Agent!EditPrompt(w) \/ Agent!SaveOver(w) \/ Agent!NothingSaved(w)
        \/ Agent!FindNoPrompt(w) \/ Agent!InsertPrompt(w)
  BY DEF Agent!PromptNext
<1>4. writer[w] \in WriterRow /\ Saving(w) BY <1>1 DEF AgentInv
<1>5. CASE Agent!EditPrompt(w)
  <2>1. writer[w].step = "idle" BY <1>5, AbsentRow DEF Agent!EditPrompt
  <2>2. ASSUME NEW t \in Contents,
               writer' = [writer EXCEPT ![w] =
                 [Agent!Absent EXCEPT !.step = "save", !.base = Agent!Active, !.text = t]]
        PROVE  AgentInv'
    <3>1. PICK r \in WriterRow :
            r = Renewing(n, t) /\ r.step = "save" /\ r.base = n /\ r.text = t /\ r.from = 0
      <4>1. t \in Tongue BY DEF Tongue
      <4>2. n \in Nat BY <1>2
      <4>. QED BY <4>1, <4>2, SaveRow
    <3>2. writer' = [writer EXCEPT ![w] = r] BY <1>2, <2>2, <3>1 DEF Agent!Active, Renewing
    <3>3. r.from \in 0..Len(versions) BY <1>2, <3>1
    <3>. QED BY <1>5, <2>1, <3>1, <3>2, <3>3, QuietKeeps DEF Agent!EditPrompt
  <2>3. ASSUME NEW v \in 1..Agent!Active,
               writer' = [writer EXCEPT ![w] =
                 [Agent!Absent EXCEPT !.step = "save", !.base = Agent!Active,
                   !.text = versions[v].text, !.from = v]]
        PROVE  AgentInv'
    <3>1. v \in 1..n BY <1>2 DEF Agent!Active
    <3>2. versions[v] \in Version BY <1>1, <1>2, <3>1
    <3>3. PICK t \in Tongue, r \in WriterRow :
            /\ t = versions[v].text /\ r = Restoring(n, t, v)
            /\ r.step = "save" /\ r.base = n /\ r.text = t /\ r.from = v
      <4>1. PICK t \in Tongue : t = versions[v].text BY <3>2 DEF Version
      <4>2. v \in Nat /\ n \in Nat /\ t \in Tongue BY <1>2, <3>1, <4>1
      <4>3. \E r \in WriterRow :
              r = Restoring(n, t, v) /\ r.step = "save" /\ r.base = n /\ r.text = t /\ r.from = v
        BY <4>2, RestoreRow
      <4>. QED BY <4>1, <4>3
    <3>4. writer' = [writer EXCEPT ![w] = r] BY <1>2, <2>3, <3>3 DEF Agent!Active, Restoring
    <3>5. r.from \in 0..Len(versions) /\ (r.from # 0 => r.text = versions[r.from].text)
      BY <1>2, <3>1, <3>3
    <3>. QED BY <1>5, <2>1, <3>3, <3>4, <3>5, QuietKeeps DEF Agent!EditPrompt
  <2>. QED BY <1>5, <2>2, <2>3 DEF Agent!EditPrompt
<1>6. CASE Agent!SaveOver(w)
  <2>1. writer[w].from \in 0..Len(versions)
        /\ (writer[w].from # 0 => writer[w].text = versions[writer[w].from].text)
    BY <1>4, <1>6 DEF Agent!SaveOver, Saving
  <2>. QED BY <1>6, <2>1, AddKeeps DEF Agent!SaveOver, Agent!Active
<1>7. CASE Agent!NothingSaved(w)
  BY <1>7, AbsentRow, QuietKeeps DEF Agent!NothingSaved, Agent!Done
<1>8. CASE Agent!FindNoPrompt(w)
  <2>1. PICK r \in WriterRow :
          /\ [writer EXCEPT ![w].step = "insert"] = [writer EXCEPT ![w] = r]
          /\ r.step = "insert" /\ r.base = writer[w].base /\ r.text = writer[w].text
          /\ r.from = writer[w].from /\ r.kind = writer[w].kind
    BY <1>1, GoesRow
  <2>2. r.base = 0 /\ r.from = 0 BY <1>2, <1>4, <1>8, <2>1 DEF Agent!FindNoPrompt, Saving, Agent!Active
  <2>. QED BY <1>8, <2>1, <2>2, QuietKeeps DEF Agent!FindNoPrompt, Agent!Goes
<1>9. CASE Agent!InsertPrompt(w)
  <2>1. CASE Agent!Active = 0
    BY <1>2, <1>4, <1>9, <2>1, AddKeeps DEF Agent!InsertPrompt, Agent!Active, Saving
  <2>2. CASE Agent!Active # 0
    BY <1>9, <2>2, AbsentRow, QuietKeeps DEF Agent!InsertPrompt, Agent!Done
  <2>. QED BY <2>1, <2>2
<1>. QED BY <1>3, <1>5, <1>6, <1>7, <1>8, <1>9

\* The configuration and its avatar change together, under the locks that are held.
LEMMA CommitKeeps ==
  ASSUME Agent!SettingsAssumption, AgentInv, UNCHANGED versions,
         NEW w \in Writers, writer[w].step \notin {"save", "insert"}, Agent!Done(w),
         agent' \in [version : 0..MaxVersions, kind : {"none", "preset", "upload"}, base : Nat],
         live' \in Nat, uploads' \in Nat, live' <= uploads',
         rowBy' \in {rowBy, Free}, liveBy' \in {liveBy, Free},
         rowBy' # w, liveBy' # w, liveBy' # Free => live' # 0,
         rowBy' # rowBy => rowBy = w,
         \A v \in Writers \ {w} : rowBy' = v => agent' = agent /\ live' = live,
         \/ agent' = agent /\ live' = live
         \/ /\ agent'.version # 0 /\ agent'.base = agent'.version - 1
            /\ agent'.kind = "upload" <=> live' # 0
  PROVE  AgentInv'
<1>1. /\ writer' \in [Writers -> WriterRow] /\ writer'[w].step = "idle"
      /\ \A v \in Writers : v # w => writer'[v] = writer[v]
  <2>1. PICK r \in WriterRow : r = Agent!Absent /\ r.step = "idle" BY AbsentRow
  <2>2. writer \in [Writers -> WriterRow] BY DEF AgentInv, AgentTypes
  <2>3. writer' = [writer EXCEPT ![w] = r] BY <2>1 DEF Agent!Done
  <2>. QED BY <2>1, <2>2, <2>3
<1>2. AgentTypes' BY <1>1 DEF AgentInv, AgentTypes
<1>3. \A v \in Writers : Saving(v)' BY AbsentRow, SavesKept DEF Agent!Done
<1>4. ASSUME NEW v \in Writers PROVE HoldsRow(v)'
  <2>1. HoldsRow(v) BY DEF AgentInv
  <2>2. CASE v = w BY <1>1, <2>2 DEF HoldsRow
  <2>3. CASE v # w
    <3>1. writer'[v] = writer[v] BY <1>1, <2>3
    <3>2. rowBy' = v <=> rowBy = v BY <2>3 DEF Agent!SettingsAssumption
    <3>3. writer[v].step = "update" => agent' = agent /\ live' = live BY <2>1, <2>3, <3>2 DEF HoldsRow
    <3>. QED BY <2>1, <3>1, <3>2, <3>3 DEF HoldsRow
  <2>. QED BY <2>2, <2>3
<1>5. HoldsLive'
  <2>1. liveBy' # Free => writer'[liveBy'].step \in {"insert avatar", "bump"}
    BY <1>1 DEF AgentInv, HoldsLive, AgentTypes
  <2>2. agent'.version = 0 => agent'.kind = "none" BY DEF AgentInv, HoldsLive
  <2>. QED BY <2>1, <2>2 DEF HoldsLive
<1>6. Restores' /\ Agent!NothingOverwritten'
  BY DEF AgentInv, Restores, Agent!NothingOverwritten
<1>. QED BY <1>2, <1>3, <1>4, <1>5, <1>6 DEF AgentInv

\* Every step on the configuration and the avatar does.
LEMMA AgentStep ==
  ASSUME Agent!SettingsAssumption, AgentInv, Agent!AgentNext
  PROVE  AgentInv'
<1>. USE DEF Agent!promptVars, Agent!agentVars
<1>1. /\ writer \in [Writers -> WriterRow]
      /\ agent \in [version : 0..MaxVersions, kind : {"none", "preset", "upload"}, base : Nat]
      /\ live \in Nat /\ uploads \in Nat /\ live <= uploads
      /\ rowBy \in Writers \cup {Free} /\ liveBy \in Writers \cup {Free}
      /\ Free \notin Writers /\ MaxVersions \in Nat \ {0}
  BY DEF AgentInv, AgentTypes, Agent!SettingsAssumption
<1>2. agent.version \in 0..MaxVersions /\ agent.base \in Nat BY <1>1
<1>3. HoldsLive /\ \A v \in Writers : HoldsRow(v) BY DEF AgentInv
<1>4. agent.kind = "upload" <=> live # 0 BY DEF AgentInv, Agent!NothingOverwritten
<1>5. ASSUME NEW w \in Writers, Agent!EditConfig(w) PROVE AgentInv'
  <2>1. writer[w].step = "idle" BY <1>5, AbsentRow DEF Agent!EditConfig
  <2>2. PICK k \in {"preset", "upload"} :
          writer' = [writer EXCEPT ![w] =
            [Agent!Absent EXCEPT !.step = "config", !.base = agent.version, !.kind = k]]
    BY <1>5 DEF Agent!EditConfig
  <2>3. PICK n \in Nat : n = agent.version BY <1>2
  <2>4. PICK r \in WriterRow :
          r = Configuring(n, k) /\ r.step = "config" /\ r.base = n /\ r.kind = k
    <3>1. k \in {"preset", "upload"} BY <2>2
    <3>2. n \in Nat BY <2>3
    <3>. QED BY <3>1, <3>2, ConfigRow
  <2>5. writer' = [writer EXCEPT ![w] = r] BY <2>2, <2>3, <2>4 DEF Configuring
  <2>. QED BY <1>5, <2>1, <2>2, <2>4, <2>5, QuietKeeps DEF Agent!EditConfig
<1>6. ASSUME NEW w \in Writers, Agent!CreateConfig(w) PROVE AgentInv'
  <2>1. agent.version = 0 /\ live = 0 /\ writer[w].step = "config"
    BY <1>3, <1>4, <1>6 DEF HoldsLive, Agent!CreateConfig
  <2>2. agent' = [version |-> 1, kind |-> "preset", base |-> 0] BY <1>6 DEF Agent!CreateConfig
  <2>3. /\ agent' \in [version : 0..MaxVersions, kind : {"none", "preset", "upload"}, base : Nat]
        /\ agent'.version = 1 /\ agent'.base = 0 /\ agent'.kind = "preset"
    BY <1>1, <2>2
  <2>4. rowBy = Free /\ liveBy = Free BY <1>1, <1>3, <2>1 DEF HoldsLive, HoldsRow
  <2>. QED BY <1>1, <1>6, <2>1, <2>3, <2>4, CommitKeeps DEF Agent!CreateConfig
<1>7. ASSUME NEW w \in Writers, Agent!LockConfig(w) PROVE AgentInv'
  <2>1. PICK r \in WriterRow :
          /\ [writer EXCEPT ![w].step = "update"] = [writer EXCEPT ![w] = r]
          /\ r.step = "update" /\ r.base = writer[w].base /\ r.text = writer[w].text
          /\ r.from = writer[w].from /\ r.kind = writer[w].kind
    BY <1>1, GoesRow
  <2>2. writer' = [writer EXCEPT ![w] = r] BY <1>7, <2>1 DEF Agent!LockConfig, Agent!Goes
  <2>3. /\ writer' \in [Writers -> WriterRow] /\ writer'[w] = r
        /\ \A v \in Writers : v # w => writer'[v] = writer[v]
    BY <1>1, <2>2
  <2>4. AgentTypes' BY <1>7, <2>3 DEF AgentInv, AgentTypes, Agent!LockConfig
  <2>5. \A v \in Writers : Saving(v)' BY <1>7, <2>1, <2>2, SavesKept DEF Agent!LockConfig
  <2>6. ASSUME NEW v \in Writers PROVE HoldsRow(v)'
    <3>1. CASE v = w
      BY <1>1, <1>2, <1>3, <1>7, <2>1, <2>3, <3>1 DEF HoldsRow, Agent!LockConfig, Agent!Acceptable
    <3>2. CASE v # w BY <1>1, <1>3, <1>7, <2>3, <3>2 DEF HoldsRow, Agent!LockConfig
    <3>. QED BY <3>1, <3>2
  <2>7. HoldsLive' BY <1>1, <1>3, <1>7, <2>3 DEF HoldsLive, Agent!LockConfig
  <2>8. Restores' /\ Agent!NothingOverwritten'
    BY <1>7 DEF AgentInv, Restores, Agent!NothingOverwritten, Agent!LockConfig
  <2>. QED BY <2>4, <2>5, <2>6, <2>7, <2>8 DEF AgentInv
<1>8. ASSUME NEW w \in Writers, Agent!RefuseConfig(w) PROVE AgentInv'
  BY <1>8, AbsentRow, QuietKeeps DEF Agent!RefuseConfig, Agent!Done
<1>9. ASSUME NEW w \in Writers, Agent!CommitConfig(w) PROVE AgentInv'
  <2>1. /\ rowBy = w /\ writer[w].step = "update" /\ writer[w].kind \in {"preset", "upload"}
        /\ agent.version \in 1..(MaxVersions - 1) /\ writer[w].base = agent.version
        /\ writer[w].kind = "upload" => live # 0
    BY <1>3, <1>9 DEF HoldsRow, Agent!CommitConfig
  <2>2. agent' = [version |-> agent.version + 1, kind |-> writer[w].kind, base |-> writer[w].base]
    BY <1>9 DEF Agent!CommitConfig
  <2>3. agent.version + 1 \in 0..MaxVersions /\ writer[w].base \in Nat BY <1>1, <2>1
  <2>4. /\ agent' \in [version : 0..MaxVersions, kind : {"none", "preset", "upload"}, base : Nat]
        /\ agent'.version = agent.version + 1 /\ agent'.base = agent.version
        /\ agent'.kind = writer[w].kind
    BY <2>1, <2>2, <2>3
  <2>5. live' = IF writer[w].kind = "preset" THEN 0 ELSE live BY <1>9 DEF Agent!CommitConfig
  <2>6. liveBy # w /\ (liveBy # Free => live' # 0)
    BY <1>1, <1>3, <1>9, <2>1, <2>5 DEF HoldsLive, Agent!CommitConfig
  <2>7. live' \in Nat /\ live' <= uploads /\ (writer[w].kind = "upload" <=> live' # 0)
    BY <1>1, <2>1, <2>5
  <2>8. agent'.version # 0 /\ agent'.base = agent'.version - 1 BY <1>2, <2>4
  <2>. QED BY <1>1, <1>9, <2>1, <2>4, <2>6, <2>7, <2>8, CommitKeeps DEF Agent!CommitConfig
<1>10. ASSUME NEW w \in Writers, Agent!EditAvatar(w) PROVE AgentInv'
  <2>1. writer[w].step = "idle" BY <1>10, AbsentRow DEF Agent!EditAvatar
  <2>2. PICK r \in WriterRow :
          r = [Agent!Absent EXCEPT !.step = "retire", !.saw = live] /\ r.step = "retire" /\ r.saw = live
    BY <1>1, RetireRow
  <2>3. writer' = [writer EXCEPT ![w] = r] BY <1>10, <2>2 DEF Agent!EditAvatar
  <2>. QED BY <1>10, <2>1, <2>2, <2>3, QuietKeeps DEF Agent!EditAvatar
<1>11. ASSUME NEW w \in Writers, Agent!Retire(w) \/ Agent!InsertAvatar(w) PROVE AgentInv'
  <2>1. PICK r \in WriterRow :
          r.step \in {"insert avatar", "bump"} /\ writer' = [writer EXCEPT ![w] = r]
    <3>1. CASE Agent!Retire(w)
      <4>1. PICK r \in WriterRow :
              /\ [writer EXCEPT ![w].step = "insert avatar"] = [writer EXCEPT ![w] = r]
              /\ r.step = "insert avatar" /\ r.base = writer[w].base /\ r.text = writer[w].text
              /\ r.from = writer[w].from /\ r.kind = writer[w].kind
        BY <1>1, GoesRow
      <4>. QED BY <3>1, <4>1 DEF Agent!Retire, Agent!Goes
    <3>2. CASE Agent!InsertAvatar(w)
      <4> DEFINE r == [writer[w] EXCEPT !.step = "bump", !.inserted = TRUE]
      <4>1. \A b \in BOOLEAN : [writer[w] EXCEPT !.step = "bump", !.inserted = b] \in WriterRow
        <5>1. writer[w] \in WriterRow BY <1>1
        <5>. QED BY <5>1 DEF WriterRow
      <4>2. TRUE \in BOOLEAN BY Zenon
      <4>3. r \in WriterRow BY <4>1, <4>2, Zenon
      <4>4. r.step = "bump"
        <5>1. writer[w] \in WriterRow BY <1>1
        <5>. QED BY <5>1 DEF WriterRow
      <4>5. writer' = [writer EXCEPT ![w] = r] BY <3>2 DEF Agent!InsertAvatar
      <4>. QED BY <4>3, <4>4, <4>5, Zenon
    <3>. QED BY <1>11, <3>1, <3>2
  <2>2. /\ writer[w].step \in {"retire", "insert avatar"}
        /\ UNCHANGED <<versions, agent, live, uploads, rowBy>>
        /\ liveBy' = liveBy \/ (liveBy' = w /\ live # 0)
    BY <1>11 DEF Agent!Retire, Agent!InsertAvatar
  <2>3. /\ writer' \in [Writers -> WriterRow] /\ writer'[w] = r
        /\ \A v \in Writers : v # w => writer'[v] = writer[v]
    BY <1>1, <2>1
  <2>4. AgentTypes' BY <2>2, <2>3 DEF AgentInv, AgentTypes
  <2>5. \A v \in Writers : Saving(v)' BY <2>1, <2>2, SavesKept
  <2>6. ASSUME NEW v \in Writers PROVE HoldsRow(v)'
    <3>1. CASE v = w BY <1>3, <2>1, <2>2, <2>3, <3>1 DEF HoldsRow
    <3>2. CASE v # w BY <1>3, <2>2, <2>3, <3>2 DEF HoldsRow
    <3>. QED BY <3>1, <3>2
  <2>7. HoldsLive' BY <1>1, <1>3, <2>1, <2>2, <2>3 DEF HoldsLive
  <2>8. Restores' /\ Agent!NothingOverwritten'
    BY <2>2 DEF AgentInv, Restores, Agent!NothingOverwritten
  <2>. QED BY <2>4, <2>5, <2>6, <2>7, <2>8 DEF AgentInv
<1>12. ASSUME NEW w \in Writers, Agent!RefuseAvatar(w) PROVE AgentInv'
  <2>1. writer[w].step = "insert avatar" /\ liveBy = Free BY <1>12 DEF Agent!RefuseAvatar
  <2>2. rowBy # w BY <1>3, <2>1 DEF HoldsRow
  <2>. QED BY <1>1, <1>12, <2>1, <2>2, CommitKeeps DEF Agent!RefuseAvatar
<1>13. ASSUME NEW w \in Writers, Agent!CommitAvatar(w) PROVE AgentInv'
  <2>1. writer[w].step = "bump" /\ rowBy = Free /\ agent.version < MaxVersions
    BY <1>13 DEF Agent!CommitAvatar
  <2>2. agent' = [version |-> agent.version + 1, kind |-> "upload", base |-> agent.version]
    BY <1>13 DEF Agent!CommitAvatar
  <2>3. agent.version + 1 \in 0..MaxVersions /\ agent.version \in Nat BY <1>1, <1>2, <2>1
  <2>4. /\ agent' \in [version : 0..MaxVersions, kind : {"none", "preset", "upload"}, base : Nat]
        /\ agent'.version = agent.version + 1 /\ agent'.base = agent.version /\ agent'.kind = "upload"
    BY <2>2, <2>3
  <2>5. live' = uploads + 1 /\ uploads' = uploads + 1
        /\ liveBy' \in {liveBy, Free} /\ liveBy' # w /\ rowBy' = Free
    BY <1>1, <1>13, <2>1 DEF Agent!CommitAvatar
  <2>6. live' \in Nat /\ uploads' \in Nat /\ live' <= uploads' /\ live' # 0 BY <1>1, <2>5
  <2>7. agent'.version # 0 /\ agent'.base = agent'.version - 1 BY <1>2, <2>4
  <2>. QED BY <1>1, <1>13, <2>1, <2>4, <2>5, <2>6, <2>7, CommitKeeps DEF Agent!CommitAvatar
<1>14. ASSUME NEW c \in Writers, NEW a \in Writers, Agent!BreakDeadlock(c, a) PROVE AgentInv'
  <2>1. /\ writer[c].step = "update" /\ writer[a].step = "bump" /\ live # 0 /\ liveBy = a /\ c # a
        /\ rowBy = c
    BY <1>3, <1>14 DEF Agent!BreakDeadlock, HoldsRow
  <2>2. CASE rowBy' = Free /\ Agent!Done(c) /\ UNCHANGED liveBy
    BY <1>1, <1>14, <2>1, <2>2, CommitKeeps DEF Agent!BreakDeadlock
  <2>3. CASE liveBy' = Free /\ Agent!Done(a) /\ UNCHANGED rowBy
    BY <1>1, <1>14, <2>1, <2>3, CommitKeeps DEF Agent!BreakDeadlock
  <2>. QED BY <1>14, <2>2, <2>3 DEF Agent!BreakDeadlock
<1>. QED
  BY <1>5, <1>6, <1>7, <1>8, <1>9, <1>10, <1>11, <1>12, <1>13, <1>14 DEF Agent!AgentNext

\* The types that the runs check follow.
LEMMA AgentTyped ==
  ASSUME AgentInv
  PROVE  Agent!TypeOK
<1>1. agent.version \in 0..MaxVersions /\ agent.kind \in {"none", "preset", "upload"}
      /\ live \in 0..uploads
  BY DEF AgentInv, AgentTypes
<1>2. rowBy # Free => writer[rowBy].step = "update"
  BY DEF AgentInv, AgentTypes, HoldsRow
<1>. QED BY <1>1, <1>2 DEF AgentInv, HoldsLive, Agent!TypeOK

-----------------------------------------------------------------------------
(* The indexers keep theirs.                                               *)

\* The rows that mean nothing is under way.
LEMMA RestingRow ==
  /\ Base!Resting \in WorkerRow /\ Base!Resting.step = "idle" /\ Base!Resting.event = 0
  /\ Base!NoIndex \in IndexRow /\ Base!NoIndex.status = "none" /\ Base!NoIndex.of = NoText
  /\ ~Base!NoIndex.counted /\ Base!NoIndex.attempts = 0
  /\ Base!Unasked \in RequestRow /\ Base!Unasked.step = "idle"
<1>1. FALSE \in BOOLEAN BY Zenon
<1>2. Base!Resting \in WorkerRow
  <2>1. \A b \in BOOLEAN :
          [step |-> "idle", event |-> 0, item |-> "none", text |-> NoText, tries |-> 0, clash |-> b]
            \in WorkerRow
    BY DEF WorkerRow, Written
  <2>. QED BY <1>1, <2>1, Zenon DEF Base!Resting, Base!NoItem
<1>3. Base!NoIndex \in IndexRow
  <2>1. \A b \in BOOLEAN :
          [status |-> "none", of |-> NoText, counted |-> b, attempts |-> 0] \in IndexRow
    BY DEF IndexRow, Written
  <2>. QED BY <1>1, <2>1, Zenon DEF Base!NoIndex
<1>4. Base!Unasked \in RequestRow BY DEF Base!Unasked, Base!NoItem, RequestRow, State
<1>5. Base!Resting.step = "idle" /\ Base!Resting.event = 0 BY DEF Base!Resting
<1>6. /\ Base!NoIndex.status = "none" /\ Base!NoIndex.of = NoText
      /\ ~Base!NoIndex.counted /\ Base!NoIndex.attempts = 0
  BY DEF Base!NoIndex
<1>7. Base!Unasked.step = "idle" BY DEF Base!Unasked
<1>. QED BY <1>2, <1>3, <1>4, <1>5, <1>6, <1>7

\* At most every request is spent.
LEMMA SpentFinite ==
  ASSUME asked \in Nat
  PROVE  IsFiniteSet(Spent) /\ Cardinality(Spent) \in Nat /\ Cardinality(Spent) <= asked
<1>1. IsFiniteSet(1..asked) /\ Cardinality(1..asked) = asked
  <2>1. PICK n \in Nat : n = asked OBVIOUS
  <2>2. IsFiniteSet(1..n) /\ Cardinality(1..n) = IF 1 > n THEN 0 ELSE n - 1 + 1
    BY <2>1, FS_Interval
  <2>. QED BY <2>1, <2>2
<1>2. Spent \subseteq 1..asked BY DEF Spent
<1>. QED BY <1>1, <1>2, FS_Subset, FS_CardinalityType

\* There are no items.
LEMMA BaseStart ==
  ASSUME Base!KnowledgeAssumption, Base!Init
  PROVE  BaseInv
<1>1. BaseTypes
  <2>1. 0 \in 0..MaxEvents BY DEF Base!KnowledgeAssumption
  <2>2. item \in [Base!Items -> [status : State, text : Written]]
    BY DEF Base!Init, State, Written
  <2>3. file \in [Documents -> BOOLEAN]
    <3>1. FALSE \in BOOLEAN BY Zenon
    <3>. QED BY <3>1, Zenon DEF Base!Init
  <2>4. index \in [Base!Items -> IndexRow] /\ worker \in [Indexers -> WorkerRow]
        /\ request \in [Editors -> RequestRow]
    BY RestingRow DEF Base!Init
  <2>5. chunks \in [Base!Items -> Written] BY DEF Base!Init, Written
  <2>. QED BY <2>1, <2>2, <2>3, <2>4, <2>5 DEF BaseTypes, Base!Init
<1>2. ItemInv
  <2>1. Documents \subseteq Base!Items BY DEF Base!Items
  <2>. QED BY <2>1 DEF ItemInv, Base!Init
<1>3. RequestInv BY RestingRow DEF RequestInv, Base!Init
<1>4. RowInv BY DEF RowInv, Base!Init
<1>5. WorkersInv BY RestingRow DEF WorkersInv, WorkerInv, Base!Init
<1>6. AttemptsInv
  <2>1. asked \in Nat /\ MaxRetries \in Nat \ {0} BY DEF Base!Init, Base!KnowledgeAssumption
  <2>2. \A i \in Base!Items : index[i].attempts = 0 BY RestingRow DEF Base!Init
  <2>. QED BY <2>1, <2>2, SpentFinite DEF AttemptsInv
<1>7. Base!IndexedIsTrue BY RestingRow DEF Base!IndexedIsTrue, Base!Init
<1>8. ConvergeInv BY DEF ConvergeInv, Base!Init
<1>. QED BY <1>1, <1>2, <1>3, <1>4, <1>5, <1>6, <1>7, <1>8 DEF BaseInv

\* A row once spent stays so.
LEMMA SpentGrows ==
  ASSUME asked \in Nat, asked' \in Nat, asked <= asked',
         \A n \in 1..asked : MayEmbed(n)' => MayEmbed(n)
  PROVE  /\ Spent \subseteq Spent'
         /\ Cardinality(Spent) \in Nat /\ Cardinality(Spent') \in Nat
         /\ Cardinality(Spent) <= Cardinality(Spent')
         /\ \A n \in 1..asked : MayEmbed(n) /\ ~MayEmbed(n)' => Cardinality(Spent) + 1 <= Cardinality(Spent')
<1>1. Spent \subseteq Spent' BY DEF Spent
<1>2. IsFiniteSet(Spent) /\ Cardinality(Spent) \in Nat BY SpentFinite
<1>3. IsFiniteSet(Spent') /\ Cardinality(Spent') \in Nat
  <2>1. PICK n \in Nat : n = asked' OBVIOUS
  <2>2. IsFiniteSet(1..n) BY FS_Interval
  <2>3. Spent' \subseteq 1..n BY <2>1 DEF Spent
  <2>. QED BY <2>2, <2>3, FS_Subset, FS_CardinalityType
<1>4. Cardinality(Spent) <= Cardinality(Spent') BY <1>1, <1>3, FS_Subset
<1>5. ASSUME NEW n \in 1..asked, MayEmbed(n), ~MayEmbed(n)'
      PROVE  Cardinality(Spent) + 1 <= Cardinality(Spent')
  <2>1. n \in Spent' /\ n \notin Spent BY <1>5 DEF Spent
  <2>2. Cardinality(Spent \cup {n}) = Cardinality(Spent) + 1 BY <1>2, <2>1, FS_AddElement
  <2>3. Spent \cup {n} \subseteq Spent' BY <1>1, <2>1
  <2>4. Cardinality(Spent \cup {n}) <= Cardinality(Spent') BY <1>3, <2>3, FS_Subset
  <2>. QED BY <1>2, <1>3, <2>2, <2>4
<1>. QED BY <1>1, <1>2, <1>3, <1>4, <1>5

\* The row of the index state of an item after each kind of write.
LEMMA IndexSet ==
  ASSUME NEW i \in Base!Items, index \in [Base!Items -> IndexRow], NEW q \in IndexRow,
         index' = [index EXCEPT ![i] = q]
  PROVE  /\ index' \in [Base!Items -> IndexRow] /\ index'[i] = q
         /\ \A j \in Base!Items : j # i => index'[j] = index[j]
OBVIOUS

\* An index state whose status alone is written.
LEMMA StatusWritten ==
  ASSUME NEW i \in Base!Items, index \in [Base!Items -> IndexRow],
         NEW s \in {"pending", "indexing", "failed", "not_indexable"}
  PROVE  \E q \in IndexRow :
           /\ [index EXCEPT ![i].status = s] = [index EXCEPT ![i] = q]
           /\ q.status = s /\ q.attempts = index[i].attempts
<1> DEFINE q == [index[i] EXCEPT !.status = s]
<1>1. index[i] \in IndexRow OBVIOUS
<1>2. q \in IndexRow BY <1>1 DEF IndexRow
<1>3. q.status = s /\ q.attempts = index[i].attempts BY <1>1 DEF IndexRow
<1>4. [index EXCEPT ![i].status = s] = [index EXCEPT ![i] = q] OBVIOUS
<1>. QED BY <1>2, <1>3, <1>4, Zenon

\* Staff write the items and their requests; the indexers have theirs.
LEMMA RequestSet ==
  ASSUME NEW r \in Editors, request \in [Editors -> RequestRow], NEW q \in RequestRow,
         request' = [request EXCEPT ![r] = q]
  PROVE  /\ request' \in [Editors -> RequestRow] /\ request'[r] = q
         /\ \A s \in Editors : s # r => request'[s] = request[s]
OBVIOUS

\* Staff change an item that asks for no index run.
LEMMA QuietStaff ==
  ASSUME Base!KnowledgeAssumption, BaseInv,
         UNCHANGED <<alone, worker, index, chunks, events, asked>>,
         item' \in [Base!Items -> [status : State, text : Written]],
         file' \in [Documents -> BOOLEAN], request' \in [Editors -> RequestRow],
         ItemInv', RequestInv',
         \A j \in Base!Items : item[j].status # "none" => item'[j].status # "none",
         \A j \in Base!Items : item'[j].status = "published" => item'[j] = item[j]
  PROVE  BaseInv'
<1>1. BaseTypes' BY DEF BaseInv, BaseTypes
<1>2. RowInv'
  <2>1. \A e \in events : e.item \in Base!Items BY DEF BaseInv, BaseTypes, Ask
  <2>. QED BY <2>1 DEF BaseInv, RowInv
<1>3. WorkersInv' BY DEF BaseInv, WorkersInv, WorkerInv
<1>4. AttemptsInv' BY DEF BaseInv, AttemptsInv, Spent, MayEmbed
<1>5. Base!IndexedIsTrue' BY DEF BaseInv, Base!IndexedIsTrue
<1>6. ConvergeInv'
  <2>1. ASSUME alone, NEW j \in Base!Items, item'[j].status = "published"
        PROVE  (\/ Waits(j, Base!First)
                \/ Follows(j, Base!First)
                \/ /\ Settled(j)
                   /\ worker[Base!First].item = j => worker[Base!First].step \in {"idle", "delete"})'
    <3>1. item'[j] = item[j] BY <2>1
    <3>2. \/ Waits(j, Base!First)
          \/ Follows(j, Base!First)
          \/ /\ Settled(j)
             /\ worker[Base!First].item = j => worker[Base!First].step \in {"idle", "delete"}
      BY <2>1, <3>1 DEF BaseInv, ConvergeInv
    <3>. QED BY <3>1, <3>2 DEF Waits, Follows, Settled
  <2>. QED BY <2>1 DEF ConvergeInv
<1>. QED BY <1>1, <1>2, <1>3, <1>4, <1>5, <1>6 DEF BaseInv

\* What Enqueue adds.
LEMMA EnqueueAdds ==
  ASSUME Base!KnowledgeAssumption, BaseInv, NEW i \in Base!Items, Base!Enqueue(i)
  PROVE  /\ chunks' = chunks /\ asked' = asked + 1 /\ asked' \in 0..MaxEvents
         /\ \E e \in Ask :
              /\ events' = events \cup {e}
              /\ e.n = asked + 1 /\ e.item = i /\ ~e.claimed
         /\ index' \in [Base!Items -> IndexRow]
         /\ index'[i].status = "pending" /\ index'[i].attempts = 0
         /\ \A j \in Base!Items : j # i => index'[j] = index[j]
<1>1. asked \in 0..MaxEvents /\ MaxEvents \in Nat /\ index \in [Base!Items -> IndexRow]
  BY DEF BaseInv, BaseTypes, Base!KnowledgeAssumption
<1>2. chunks' = chunks /\ asked' = asked + 1 /\ asked' \in 0..MaxEvents BY <1>1 DEF Base!Enqueue
<1>3. PICK e \in Ask :
        /\ e = [n |-> asked + 1, item |-> i, claimed |-> FALSE, waits |-> FALSE]
        /\ e.n = asked + 1 /\ e.item = i /\ ~e.claimed
  <2> DEFINE e(b) == [n |-> asked + 1, item |-> i, claimed |-> b, waits |-> b]
  <2>1. \A b \in BOOLEAN : e(b) \in Ask BY <1>1 DEF Ask
  <2>2. FALSE \in BOOLEAN BY Zenon
  <2>3. e(FALSE) \in Ask BY <2>1, <2>2, Zenon
  <2>4. e(FALSE).n = asked + 1 /\ e(FALSE).item = i /\ ~e(FALSE).claimed OBVIOUS
  <2>. QED BY <2>3, <2>4, Zenon
<1>4. events' = events \cup {e} BY <1>3 DEF Base!Enqueue
<1>5. PICK q \in IndexRow :
        index' = [index EXCEPT ![i] = q] /\ q.status = "pending" /\ q.attempts = 0
  <2> DEFINE q == [index[i] EXCEPT !.status = "pending", !.attempts = 0]
  <2>1. index[i] \in IndexRow BY <1>1
  <2>2. q \in IndexRow BY <2>1 DEF IndexRow
  <2>3. q.status = "pending" /\ q.attempts = 0 BY <2>1 DEF IndexRow
  <2>4. index' = [index EXCEPT ![i] = q] BY <1>1 DEF Base!Enqueue
  <2>. QED BY <2>2, <2>3, <2>4, Zenon
<1>6. /\ index' \in [Base!Items -> IndexRow] /\ index'[i] = q
      /\ \A j \in Base!Items : j # i => index'[j] = index[j]
  BY <1>1, <1>5, IndexSet
<1>. QED BY <1>2, <1>3, <1>4, <1>5, <1>6

\* The three ways in which First looks after a published item.
Cared(j) ==
  \/ Waits(j, Base!First)
  \/ Follows(j, Base!First)
  \/ /\ Settled(j)
     /\ worker[Base!First].item = j => worker[Base!First].step \in {"idle", "delete"}

\* What a lone indexer owes an item, by name.
LEMMA ConvergeIsCared ==
  ConvergeInv <=> (alone => \A j \in Base!Items : item[j].status = "published" => Cared(j))
BY DEF ConvergeInv, Cared

\* Staff change an item and ask for an index run of it.
LEMMA AskingStaff ==
  ASSUME Base!KnowledgeAssumption, BaseInv, NEW i \in Base!Items, Base!Enqueue(i),
         UNCHANGED <<alone, worker>>,
         item' \in [Base!Items -> [status : State, text : Written]],
         file' \in [Documents -> BOOLEAN], request' \in [Editors -> RequestRow],
         ItemInv', RequestInv', item'[i].status # "none",
         \A j \in Base!Items : item[j].status # "none" => item'[j].status # "none",
         \A j \in Base!Items : j # i /\ item'[j].status = "published" => item'[j] = item[j]
  PROVE  BaseInv'
<1>1. /\ chunks' = chunks /\ asked' = asked + 1 /\ asked' \in 0..MaxEvents
      /\ index' \in [Base!Items -> IndexRow]
      /\ index'[i].status = "pending" /\ index'[i].attempts = 0
      /\ \A j \in Base!Items : j # i => index'[j] = index[j]
  BY EnqueueAdds
<1>2. PICK e \in Ask :
        events' = events \cup {e} /\ e.n = asked + 1 /\ e.item = i /\ ~e.claimed
  BY EnqueueAdds
<1>3. events \in SUBSET Ask /\ asked \in 0..MaxEvents /\ MaxRetries \in Nat \ {0} /\ MaxEvents \in Nat
  BY DEF BaseInv, BaseTypes, Base!KnowledgeAssumption
<1>4. BaseTypes' BY <1>1, <1>2, <1>3 DEF BaseInv, BaseTypes
<1>5. RowInv'
  <2>1. \A f \in events : f.n \in 1..asked /\ f.item \in Base!Items /\ item[f.item].status # "none"
    BY <1>3 DEF BaseInv, RowInv, Ask
  <2>2. \A f \in events' : f.n \in 1..asked' /\ item'[f.item].status # "none"
    BY <1>1, <1>2, <1>3, <2>1
  <2>3. \A f, g \in events' : f.n = g.n => f = g
    BY <1>2, <1>3, <2>1 DEF BaseInv, RowInv
  <2>. QED BY <2>2, <2>3 DEF RowInv
<1>6. WorkersInv'
  <2>1. events \subseteq events' BY <1>2
  <2>. QED BY <2>1 DEF BaseInv, WorkersInv, WorkerInv
<1>7. AttemptsInv'
  <2>1. \A n \in 1..asked : MayEmbed(n)' => MayEmbed(n) BY <1>2, <1>3 DEF MayEmbed
  <2>2. /\ Cardinality(Spent) \in Nat /\ Cardinality(Spent') \in Nat
        /\ Cardinality(Spent) <= Cardinality(Spent')
    <3>1. asked \in Nat /\ asked' \in Nat /\ asked <= asked' BY <1>1, <1>3
    <3>. QED BY <2>1, <3>1, SpentGrows
  <2>3. ASSUME NEW j \in Base!Items PROVE index'[j].attempts < MaxRetries + Cardinality(Spent')
    <3>1. CASE j = i BY <1>1, <1>3, <2>2, <3>1
    <3>2. CASE j # i
      <4>1. index'[j] = index[j] /\ index[j].attempts < MaxRetries + Cardinality(Spent)
        BY <1>1, <3>2 DEF BaseInv, AttemptsInv
      <4>2. index[j].attempts \in Nat BY DEF BaseInv, BaseTypes, IndexRow
      <4>. QED BY <1>3, <2>2, <4>1, <4>2
    <3>. QED BY <3>1, <3>2
  <2>. QED BY <2>3 DEF AttemptsInv
<1>8. Base!IndexedIsTrue' BY <1>1 DEF BaseInv, Base!IndexedIsTrue
<1>9. ConvergeInv'
  <2>1. ASSUME alone, NEW j \in Base!Items, item'[j].status = "published"
        PROVE  Cared(j)'
    <3>1. CASE j = i BY <1>2, <3>1 DEF Cared, Waits
    <3>2. CASE j # i
      <4>1. item'[j] = item[j] /\ index'[j] = index[j] BY <1>1, <2>1, <3>2
      <4>2. Cared(j) BY <2>1, <4>1, ConvergeIsCared DEF BaseInv
      <4>3. events \subseteq events' BY <1>2
      <4>4. CASE Waits(j, Base!First) BY <4>3, <4>4 DEF Cared, Waits
      <4>5. CASE Follows(j, Base!First) BY <4>1, <4>5 DEF Cared, Follows
      <4>6. CASE Settled(j)
                 /\ (worker[Base!First].item = j => worker[Base!First].step \in {"idle", "delete"})
        BY <1>1, <4>1, <4>6 DEF Cared, Settled
      <4>. QED BY <4>2, <4>4, <4>5, <4>6 DEF Cared
    <3>. QED BY <3>1, <3>2
  <2>. QED BY <2>1 DEF ConvergeInv, Cared
<1>. QED BY <1>4, <1>5, <1>6, <1>7, <1>8, <1>9 DEF BaseInv

\* Staff take back an item: what was indexed of it is cleared.
LEMMA ClearingStaff ==
  ASSUME Base!KnowledgeAssumption, BaseInv, NEW i \in Base!Items, Base!Clear(i),
         UNCHANGED <<alone, worker>>,
         item' \in [Base!Items -> [status : State, text : Written]],
         file' \in [Documents -> BOOLEAN], request' \in [Editors -> RequestRow],
         ItemInv', RequestInv', item'[i].status # "published",
         \A j \in Base!Items : item[j].status # "none" => item'[j].status # "none",
         \A j \in Base!Items : j # i /\ item'[j].status = "published" => item'[j] = item[j]
  PROVE  BaseInv'
<1>1. index \in [Base!Items -> IndexRow] /\ chunks \in [Base!Items -> Written]
      /\ MaxRetries \in Nat \ {0} /\ asked \in Nat /\ events \in SUBSET Ask
  BY DEF BaseInv, BaseTypes, Base!KnowledgeAssumption
<1>2. UNCHANGED <<events, asked>> BY DEF Base!Clear
<1>3. PICK q \in IndexRow :
        /\ index' = [index EXCEPT ![i] = q] /\ q.status = "not_indexed" /\ q.of = NoText
        /\ ~q.counted /\ q.attempts = 0
  <2>1. PICK o \in IndexRow : o = Base!NoIndex /\ o.of = NoText /\ ~o.counted /\ o.attempts = 0
    BY RestingRow
  <2> DEFINE q == [o EXCEPT !.status = "not_indexed"]
  <2>2. q \in IndexRow BY DEF IndexRow
  <2>3. q.status = "not_indexed" /\ q.of = NoText /\ ~q.counted /\ q.attempts = 0
    BY <2>1 DEF IndexRow
  <2>4. index' = [index EXCEPT ![i] = q] BY <2>1 DEF Base!Clear
  <2>. QED BY <2>2, <2>3, <2>4, Zenon
<1>4. /\ index' \in [Base!Items -> IndexRow] /\ index'[i] = q
      /\ \A j \in Base!Items : j # i => index'[j] = index[j]
  BY <1>1, <1>3, IndexSet
<1>5. /\ chunks' \in [Base!Items -> Written]
      /\ \A j \in Base!Items : j # i => chunks'[j] = chunks[j]
  <2>1. NoText \in Written BY DEF Written
  <2>. QED BY <1>1, <2>1 DEF Base!Clear
<1>6. BaseTypes' BY <1>2, <1>4, <1>5 DEF BaseInv, BaseTypes
<1>7. RowInv'
  <2>1. \A f \in events : f.item \in Base!Items BY <1>1 DEF Ask
  <2>. QED BY <1>2, <2>1 DEF BaseInv, RowInv
<1>8. WorkersInv' BY <1>2 DEF BaseInv, WorkersInv, WorkerInv
<1>9. AttemptsInv'
  <2>1. Spent' = Spent BY <1>2 DEF Spent, MayEmbed
  <2>2. Cardinality(Spent) \in Nat BY <1>1, SpentFinite
  <2>3. \A j \in Base!Items : index'[j].attempts < MaxRetries + Cardinality(Spent)
    BY <1>1, <1>3, <1>4, <2>2 DEF BaseInv, AttemptsInv
  <2>. QED BY <2>1, <2>3 DEF AttemptsInv
<1>10. Base!IndexedIsTrue' BY <1>3, <1>4, <1>5 DEF BaseInv, Base!IndexedIsTrue
<1>11. ConvergeInv'
  <2>1. ASSUME alone, NEW j \in Base!Items, item'[j].status = "published"
        PROVE  Cared(j)'
    <3>1. j # i BY <2>1
    <3>2. item'[j] = item[j] /\ index'[j] = index[j] /\ chunks'[j] = chunks[j]
      BY <1>4, <1>5, <2>1, <3>1
    <3>3. Cared(j) BY <2>1, <3>2, ConvergeIsCared DEF BaseInv
    <3>. QED BY <1>2, <3>2, <3>3 DEF Cared, Waits, Follows, Settled
  <2>. QED BY <2>1 DEF ConvergeInv, Cared
<1>. QED BY <1>6, <1>7, <1>8, <1>9, <1>10, <1>11 DEF BaseInv

\* Writing an item that no upload is about to.
LEMMA ItemWritten ==
  ASSUME Base!KnowledgeAssumption, BaseInv, NEW i \in Base!Items,
         NEW v \in [status : State, text : Written], item' = [item EXCEPT ![i] = v],
         v.status # "none", v.text \in Texts, i \in Documents => file[i], UNCHANGED file,
         request' \in [Editors -> RequestRow],
         \A q \in Editors : request'[q] \in {request[q], Base!Unasked},
         \A q \in Editors : request'[q].step = "persist" => request'[q].item # i
  PROVE  /\ item' \in [Base!Items -> [status : State, text : Written]] /\ item'[i] = v
         /\ \A j \in Base!Items : j # i => item'[j] = item[j]
         /\ ItemInv' /\ RequestInv' /\ file' \in [Documents -> BOOLEAN]
         /\ \A j \in Base!Items : item[j].status # "none" => item'[j].status # "none"
<1>1. /\ item \in [Base!Items -> [status : State, text : Written]] /\ file \in [Documents -> BOOLEAN]
      /\ Documents \subseteq Base!Items /\ NoText \notin Texts
  BY DEF BaseInv, BaseTypes, Base!Items, Base!KnowledgeAssumption
<1>2. /\ item' \in [Base!Items -> [status : State, text : Written]] /\ item'[i] = v
      /\ \A j \in Base!Items : j # i => item'[j] = item[j]
  BY <1>1
<1>3. ItemInv' BY <1>1, <1>2 DEF BaseInv, ItemInv
<1>4. \A j \in Base!Items : item[j].status # "none" => item'[j].status # "none" BY <1>2
<1>5. RequestInv'
  <2>1. ASSUME NEW q \in Editors
        PROVE  /\ request'[q].step = "set" =>
                    /\ request'[q].item \in Base!Items /\ item'[request'[q].item].status # "none"
                    /\ request'[q].to # "none"
               /\ request'[q].step = "persist" =>
                    /\ request'[q].item \in Documents /\ item'[request'[q].item].status = "none"
                    /\ file'[request'[q].item] /\ request'[q].to # "none"
    <3>1. request'[q].step \in {"set", "persist"} => request'[q] = request[q] BY RestingRow
    <3>2. CASE request'[q].step = "set" BY <1>4, <3>1, <3>2 DEF BaseInv, RequestInv
    <3>3. CASE request'[q].step = "persist"
      <4>1. /\ request[q].item \in Documents /\ item[request[q].item].status = "none"
            /\ file[request[q].item] /\ request[q].to # "none"
        BY <3>1, <3>3 DEF BaseInv, RequestInv
      <4>2. request[q].item # i BY <3>1, <3>3
      <4>. QED BY <1>1, <1>2, <3>1, <3>3, <4>1, <4>2
    <3>. QED BY <3>2, <3>3
  <2>2. \A q, p \in Editors :
          request'[q].step = "persist" /\ request'[p].step = "persist"
            /\ request'[q].item = request'[p].item => q = p
    <3>1. \A q \in Editors : request'[q].step = "persist" => request'[q] = request[q] BY RestingRow
    <3>. QED BY <3>1 DEF BaseInv, RequestInv
  <2>. QED BY <2>1, <2>2 DEF RequestInv
<1>. QED BY <1>1, <1>2, <1>3, <1>4, <1>5

\* An item that has a status, and its text.
LEMMA ItemThere ==
  ASSUME BaseInv, NEW i \in Base!Items, item[i].status # "none"
  PROVE  /\ item[i] \in [status : State, text : Written] /\ item[i].text \in Texts
         /\ i \in Documents => file[i]
         /\ \A q \in Editors : request[q].step = "persist" => request[q].item # i
<1>1. item[i] \in [status : State, text : Written] BY DEF BaseInv, BaseTypes
<1>2. item[i].text # NoText /\ (i \in Documents => file[i]) BY DEF BaseInv, ItemInv
<1>3. item[i].text \in Texts BY <1>1, <1>2 DEF Written
<1>. QED BY <1>1, <1>2, <1>3 DEF BaseInv, RequestInv

\* Staff: a draft,
LEMMA CreateKeeps ==
  ASSUME Base!KnowledgeAssumption, BaseInv, NEW i \in Base!Items, Base!CreateItem(i)
  PROVE  BaseInv'
<1>1. /\ i \in Articles /\ i \notin Documents
      /\ UNCHANGED <<alone, worker, index, chunks, events, asked, file, request>>
  BY DEF Base!CreateItem, Base!indexVars, Base!KnowledgeAssumption
<1>2. PICK t \in Texts : item' = [item EXCEPT ![i] = [status |-> "draft", text |-> t]]
  BY DEF Base!CreateItem
<1>3. PICK v \in [status : State, text : Written] :
        v = [status |-> "draft", text |-> t] /\ v.status = "draft" /\ v.text = t
  <2> DEFINE v == [status |-> "draft", text |-> t]
  <2>1. t \in Written BY <1>2 DEF Written
  <2>2. v \in [status : State, text : Written] BY <2>1 DEF State
  <2>3. v.status = "draft" /\ v.text = t OBVIOUS
  <2>. QED BY <2>2, <2>3, Zenon
<1>4. /\ item' = [item EXCEPT ![i] = v] /\ v.text \in Texts
  BY <1>2, <1>3
<1>5. request \in [Editors -> RequestRow]
      /\ \A q \in Editors : request[q].step = "persist" => request[q].item # i
  BY <1>1 DEF BaseInv, BaseTypes, RequestInv
<1>6. /\ item' \in [Base!Items -> [status : State, text : Written]] /\ item'[i] = v
      /\ \A j \in Base!Items : j # i => item'[j] = item[j]
      /\ ItemInv' /\ RequestInv' /\ file' \in [Documents -> BOOLEAN]
      /\ \A j \in Base!Items : item[j].status # "none" => item'[j].status # "none"
  <2>1. /\ request' \in [Editors -> RequestRow] /\ UNCHANGED file
        /\ \A q \in Editors : request'[q] \in {request[q], Base!Unasked}
        /\ \A q \in Editors : request'[q].step = "persist" => request'[q].item # i
        /\ i \in Documents => file[i]
    BY <1>1, <1>2, <1>5
  <2>2. v.status # "none" /\ v.text \in Texts BY <1>3, <1>4
  <2>. QED BY <1>3, <1>4, <2>1, <2>2, ItemWritten
<1>7. \A j \in Base!Items : item'[j].status = "published" => item'[j] = item[j] BY <1>3, <1>6
<1>. QED BY <1>1, <1>5, <1>6, <1>7, QuietStaff

\* an edit,
LEMMA UpdateKeeps ==
  ASSUME Base!KnowledgeAssumption, BaseInv, NEW i \in Base!Items, Base!UpdateItem(i)
  PROVE  BaseInv'
<1>1. UNCHANGED <<alone, worker, file, request>> /\ item[i].status # "none"
  BY DEF Base!UpdateItem
<1>2. /\ item[i] \in [status : State, text : Written] /\ item[i].text \in Texts
      /\ i \in Documents => file[i]
      /\ \A q \in Editors : request[q].step = "persist" => request[q].item # i
  BY <1>1, ItemThere
<1>3. PICK t \in Texts : item' = [item EXCEPT ![i].text = t] BY <1>2 DEF Base!UpdateItem
<1>4. PICK v \in [status : State, text : Written] :
        item' = [item EXCEPT ![i] = v] /\ v.status = item[i].status /\ v.text = t
  <2> DEFINE v == [item[i] EXCEPT !.text = t]
  <2>1. v \in [status : State, text : Written] BY <1>2, <1>3 DEF Written
  <2>2. v.status = item[i].status /\ v.text = t BY <1>2
  <2>3. item' = [item EXCEPT ![i] = v] BY <1>3
  <2>. QED BY <2>1, <2>2, <2>3, Zenon
<1>5. request \in [Editors -> RequestRow] BY DEF BaseInv, BaseTypes
<1>6. /\ item' \in [Base!Items -> [status : State, text : Written]] /\ item'[i] = v
      /\ \A j \in Base!Items : j # i => item'[j] = item[j]
      /\ ItemInv' /\ RequestInv' /\ file' \in [Documents -> BOOLEAN]
      /\ \A j \in Base!Items : item[j].status # "none" => item'[j].status # "none"
  <2>1. v.text \in Texts /\ v.status # "none" BY <1>1, <1>3, <1>4
  <2>2. /\ request' \in [Editors -> RequestRow] /\ UNCHANGED file
        /\ \A q \in Editors : request'[q] \in {request[q], Base!Unasked}
        /\ \A q \in Editors : request'[q].step = "persist" => request'[q].item # i
        /\ i \in Documents => file[i]
    BY <1>1, <1>2, <1>5
  <2>. QED BY <1>4, <2>1, <2>2, ItemWritten
<1>7. CASE item[i].status = "published"
  <2>1. Base!Enqueue(i) BY <1>7 DEF Base!UpdateItem, Base!Published
  <2>2. item'[i].status # "none" BY <1>1, <1>6
  <2>3. \A j \in Base!Items : j # i /\ item'[j].status = "published" => item'[j] = item[j] BY <1>6
  <2>. QED BY <1>1, <1>5, <1>6, <2>1, <2>2, <2>3, AskingStaff
<1>8. CASE item[i].status # "published"
  <2>1. UNCHANGED <<index, chunks, events, asked>>
    BY <1>8 DEF Base!UpdateItem, Base!Published, Base!indexVars
  <2>2. \A j \in Base!Items : item'[j].status = "published" => item'[j] = item[j]
    BY <1>4, <1>6, <1>8
  <2>. QED BY <1>1, <1>5, <1>6, <2>1, <2>2, QuietStaff
<1>. QED BY <1>7, <1>8

\* A request that ends.
LEMMA RequestDone ==
  ASSUME BaseInv, NEW r \in Editors, request' = [request EXCEPT ![r] = Base!Unasked]
  PROVE  /\ request' \in [Editors -> RequestRow]
         /\ request'[r].step = "idle"
         /\ \A q \in Editors : request'[q] \in {request[q], Base!Unasked}
         /\ \A q \in Editors : q # r => request'[q] = request[q]
<1>1. request \in [Editors -> RequestRow] BY DEF BaseInv, BaseTypes
<1>2. PICK u \in RequestRow : u = Base!Unasked /\ u.step = "idle" BY RestingRow
<1>3. request' = [request EXCEPT ![r] = u] BY <1>2
<1>. QED BY <1>1, <1>2, <1>3

\* a change of status,
LEMMA SetStatusKeeps ==
  ASSUME Base!KnowledgeAssumption, BaseInv, NEW r \in Editors, Base!SetStatus(r)
  PROVE  BaseInv'
<1>1. /\ request[r].step = "set" /\ UNCHANGED <<alone, worker, file>>
      /\ request' = [request EXCEPT ![r] = Base!Unasked]
  BY DEF Base!SetStatus
<1>2. PICK i \in Base!Items : i = request[r].item /\ item[i].status # "none"
  BY <1>1 DEF BaseInv, RequestInv
<1>3. PICK to \in State : to = request[r].to /\ to # "none"
  <2>1. request[r] \in RequestRow BY DEF BaseInv, BaseTypes
  <2>2. request[r].to \in State /\ request[r].to # "none"
    BY <1>1, <2>1 DEF BaseInv, RequestInv, RequestRow
  <2>. QED BY <2>2
<1>4. /\ item[i] \in [status : State, text : Written] /\ item[i].text \in Texts
      /\ i \in Documents => file[i]
      /\ \A q \in Editors : request[q].step = "persist" => request[q].item # i
  BY <1>2, ItemThere
<1>5. PICK v \in [status : State, text : Written] :
        item' = [item EXCEPT ![i] = v] /\ v.status = to /\ v.text = item[i].text
  <2> DEFINE v == [item[i] EXCEPT !.status = to]
  <2>1. v \in [status : State, text : Written] BY <1>3, <1>4
  <2>2. v.status = to /\ v.text = item[i].text BY <1>4
  <2>3. item' = [item EXCEPT ![i] = v] BY <1>2, <1>3 DEF Base!SetStatus
  <2>. QED BY <2>1, <2>2, <2>3, Zenon
<1>6. /\ request' \in [Editors -> RequestRow] /\ request'[r].step = "idle"
      /\ \A q \in Editors : request'[q] \in {request[q], Base!Unasked}
      /\ \A q \in Editors : q # r => request'[q] = request[q]
  BY <1>1, RequestDone
<1>7. /\ item' \in [Base!Items -> [status : State, text : Written]] /\ item'[i] = v
      /\ \A j \in Base!Items : j # i => item'[j] = item[j]
      /\ ItemInv' /\ RequestInv' /\ file' \in [Documents -> BOOLEAN]
      /\ \A j \in Base!Items : item[j].status # "none" => item'[j].status # "none"
  <2>1. \A q \in Editors : request'[q].step = "persist" => request'[q].item # i BY <1>4, <1>6
  <2>2. v.status # "none" /\ v.text \in Texts BY <1>3, <1>4, <1>5
  <2>. QED BY <1>1, <1>4, <1>5, <1>6, <2>1, <2>2, ItemWritten
<1>8. CASE to = "published"
  <2>1. Base!Enqueue(i) BY <1>2, <1>3, <1>8 DEF Base!SetStatus
  <2>2. item'[i].status # "none" BY <1>5, <1>7, <1>8
  <2>3. \A j \in Base!Items : j # i /\ item'[j].status = "published" => item'[j] = item[j] BY <1>7
  <2>. QED BY <1>1, <1>6, <1>7, <2>1, <2>2, <2>3, AskingStaff
<1>9. CASE to # "published" /\ request[r].from = "published"
  <2>1. Base!Clear(i) BY <1>2, <1>3, <1>9 DEF Base!SetStatus
  <2>2. item'[i].status # "published" BY <1>5, <1>7, <1>9
  <2>3. \A j \in Base!Items : j # i /\ item'[j].status = "published" => item'[j] = item[j] BY <1>7
  <2>. QED BY <1>1, <1>6, <1>7, <2>1, <2>2, <2>3, ClearingStaff
<1>10. CASE to # "published" /\ request[r].from # "published"
  <2>1. UNCHANGED <<index, chunks, events, asked>>
    BY <1>2, <1>3, <1>10 DEF Base!SetStatus, Base!indexVars
  <2>2. \A j \in Base!Items : item'[j].status = "published" => item'[j] = item[j]
    BY <1>5, <1>7, <1>10
  <2>. QED BY <1>1, <1>6, <1>7, <2>1, <2>2, QuietStaff
<1>. QED BY <1>8, <1>9, <1>10

\* an upload that is stored,
LEMMA PersistKeeps ==
  ASSUME Base!KnowledgeAssumption, BaseInv, NEW r \in Editors, Base!Persist(r)
  PROVE  BaseInv'
<1>1. /\ request[r].step = "persist" /\ UNCHANGED <<alone, worker, file>>
      /\ request' = [request EXCEPT ![r] = Base!Unasked]
  BY DEF Base!Persist
<1>2. PICK d \in Documents :
        d = request[r].item /\ item[d].status = "none" /\ file[d] /\ request[r].to # "none"
  BY <1>1 DEF BaseInv, RequestInv
<1>3. d \in Base!Items BY <1>2 DEF Base!Items
<1>4. PICK to \in State : to = request[r].to /\ to # "none"
  <2>1. request[r] \in RequestRow BY DEF BaseInv, BaseTypes
  <2>2. request[r].to \in State BY <2>1 DEF RequestRow
  <2>. QED BY <1>2, <2>2
<1>5. PICK t \in Texts : item' = [item EXCEPT ![d] = [status |-> to, text |-> t]]
  BY <1>2, <1>4 DEF Base!Persist
<1>6. PICK v \in [status : State, text : Written] :
        v = [status |-> to, text |-> t] /\ v.status = to /\ v.text = t
  <2> DEFINE v == [status |-> to, text |-> t]
  <2>1. t \in Written BY <1>5 DEF Written
  <2>2. v \in [status : State, text : Written] BY <1>4, <2>1
  <2>3. v.status = to /\ v.text = t OBVIOUS
  <2>. QED BY <2>2, <2>3, Zenon
<1>7. item' = [item EXCEPT ![d] = v] BY <1>5, <1>6
<1>8. /\ request' \in [Editors -> RequestRow] /\ request'[r].step = "idle"
      /\ \A q \in Editors : request'[q] \in {request[q], Base!Unasked}
      /\ \A q \in Editors : q # r => request'[q] = request[q]
  BY <1>1, RequestDone
<1>9. /\ item' \in [Base!Items -> [status : State, text : Written]] /\ item'[d] = v
      /\ \A j \in Base!Items : j # d => item'[j] = item[j]
      /\ ItemInv' /\ RequestInv' /\ file' \in [Documents -> BOOLEAN]
      /\ \A j \in Base!Items : item[j].status # "none" => item'[j].status # "none"
  <2>1. \A q \in Editors : request'[q].step = "persist" => request'[q].item # d
    BY <1>1, <1>2, <1>8 DEF BaseInv, RequestInv
  <2>2. v.status # "none" /\ v.text \in Texts BY <1>4, <1>5, <1>6
  <2>3. PICK i \in Base!Items : i = d BY <1>3
  <2>4. UNCHANGED file /\ (i \in Documents => file[i]) BY <1>1, <1>2, <2>3
  <2>5. item' = [item EXCEPT ![i] = v] BY <1>7, <2>3
  <2>6. \A q \in Editors : request'[q].step = "persist" => request'[q].item # i BY <2>1, <2>3
  <2>7. /\ item' \in [Base!Items -> [status : State, text : Written]] /\ item'[i] = v
        /\ \A j \in Base!Items : j # i => item'[j] = item[j]
        /\ ItemInv' /\ RequestInv' /\ file' \in [Documents -> BOOLEAN]
        /\ \A j \in Base!Items : item[j].status # "none" => item'[j].status # "none"
    BY <1>6, <1>8, <2>2, <2>4, <2>5, <2>6, ItemWritten
  <2>. QED BY <2>3, <2>7
<1>10. CASE to = "published"
  <2>1. Base!Enqueue(d) BY <1>2, <1>4, <1>10 DEF Base!Persist
  <2>2. item'[d].status # "none" BY <1>6, <1>9, <1>10
  <2>3. \A j \in Base!Items : j # d /\ item'[j].status = "published" => item'[j] = item[j] BY <1>9
  <2>. QED BY <1>1, <1>3, <1>8, <1>9, <2>1, <2>2, <2>3, AskingStaff
<1>11. CASE to # "published"
  <2>1. UNCHANGED <<index, chunks, events, asked>>
    BY <1>2, <1>4, <1>11 DEF Base!Persist, Base!indexVars
  <2>2. \A j \in Base!Items : item'[j].status = "published" => item'[j] = item[j]
    BY <1>6, <1>9, <1>11
  <2>. QED BY <1>1, <1>8, <1>9, <2>1, <2>2, QuietStaff
<1>. QED BY <1>10, <1>11

\* or is not.
LEMMA PersistFailsKeeps ==
  ASSUME Base!KnowledgeAssumption, BaseInv, NEW r \in Editors, Base!PersistFails(r)
  PROVE  BaseInv'
<1>1. /\ request[r].step = "persist"
      /\ UNCHANGED <<alone, worker, item, index, chunks, events, asked>>
      /\ request' = [request EXCEPT ![r] = Base!Unasked]
  BY DEF Base!PersistFails, Base!indexVars
<1>2. PICK d \in Documents : d = request[r].item /\ item[d].status = "none"
  BY <1>1 DEF BaseInv, RequestInv
<1>3. /\ request' \in [Editors -> RequestRow] /\ request'[r].step = "idle"
      /\ \A q \in Editors : q # r => request'[q] = request[q]
  BY <1>1, RequestDone
<1>4. /\ file' \in [Documents -> BOOLEAN]
      /\ \A e \in Documents : e # d => file'[e] = file[e]
  <2>1. PICK left \in BOOLEAN : file' = [file EXCEPT ![d] = left] BY <1>2 DEF Base!PersistFails
  <2>2. file \in [Documents -> BOOLEAN] BY DEF BaseInv, BaseTypes
  <2>. QED BY <2>1, <2>2
<1>5. ItemInv' BY <1>1, <1>2, <1>4 DEF BaseInv, ItemInv
<1>6. RequestInv'
  <2>1. \A q \in Editors : request'[q].step # "idle" => q # r /\ request'[q] = request[q] BY <1>3
  <2>2. \A q \in Editors : request'[q].step = "persist" => request'[q].item # d
    BY <1>1, <1>2, <2>1 DEF BaseInv, RequestInv
  <2>3. ASSUME NEW q \in Editors
        PROVE  /\ request'[q].step = "set" =>
                    /\ request'[q].item \in Base!Items /\ item'[request'[q].item].status # "none"
                    /\ request'[q].to # "none"
               /\ request'[q].step = "persist" =>
                    /\ request'[q].item \in Documents /\ item'[request'[q].item].status = "none"
                    /\ file'[request'[q].item] /\ request'[q].to # "none"
    BY <1>1, <1>4, <2>1, <2>2 DEF BaseInv, RequestInv
  <2>4. \A q, p \in Editors :
          request'[q].step = "persist" /\ request'[p].step = "persist"
            /\ request'[q].item = request'[p].item => q = p
    BY <2>1 DEF BaseInv, RequestInv
  <2>. QED BY <2>3, <2>4 DEF RequestInv
<1>7. item' \in [Base!Items -> [status : State, text : Written]] BY <1>1 DEF BaseInv, BaseTypes
<1>. QED BY <1>1, <1>3, <1>4, <1>5, <1>6, <1>7, QuietStaff

\* A request that begins.
LEMMA RequestBegins ==
  ASSUME Base!KnowledgeAssumption, BaseInv, NEW r \in Editors, request[r] = Base!Unasked,
         NEW s \in {"set", "persist"}, NEW i \in Base!Items, NEW from \in State, NEW to \in State \ {"none"},
         request' = [request EXCEPT ![r] = [step |-> s, item |-> i, from |-> from, to |-> to]],
         UNCHANGED <<alone, worker, item, index, chunks, events, asked>>,
         file' \in [Documents -> BOOLEAN], \A d \in Documents : file[d] => file'[d],
         s = "set" => item[i].status # "none",
         s = "persist" => i \in Documents /\ item[i].status = "none" /\ ~file[i] /\ file'[i]
  PROVE  BaseInv'
<1>1. PICK q \in RequestRow :
        /\ q = [step |-> s, item |-> i, from |-> from, to |-> to]
        /\ q.step = s /\ q.item = i /\ q.to = to
  <2> DEFINE q == [step |-> s, item |-> i, from |-> from, to |-> to]
  <2>1. q \in RequestRow BY DEF RequestRow
  <2>2. q.step = s /\ q.item = i /\ q.to = to OBVIOUS
  <2>. QED BY <2>1, <2>2, Zenon
<1>2. request \in [Editors -> RequestRow] BY DEF BaseInv, BaseTypes
<1>3. /\ request' \in [Editors -> RequestRow] /\ request'[r] = q
      /\ \A p \in Editors : p # r => request'[p] = request[p]
  BY <1>1, <1>2, RequestSet
<1>4. ItemInv' BY DEF BaseInv, ItemInv
<1>5. RequestInv'
  <2>1. ASSUME NEW p \in Editors
        PROVE  /\ request'[p].step = "set" =>
                    /\ request'[p].item \in Base!Items /\ item'[request'[p].item].status # "none"
                    /\ request'[p].to # "none"
               /\ request'[p].step = "persist" =>
                    /\ request'[p].item \in Documents /\ item'[request'[p].item].status = "none"
                    /\ file'[request'[p].item] /\ request'[p].to # "none"
    <3>1. CASE p = r BY <1>1, <1>3, <3>1
    <3>2. CASE p # r BY <1>3, <3>2 DEF BaseInv, RequestInv
    <3>. QED BY <3>1, <3>2
  <2>2. s = "persist" =>
          \A p \in Editors : p # r /\ request'[p].step = "persist" => request'[p].item # i
    BY <1>3 DEF BaseInv, RequestInv
  <2>3. \A p, z \in Editors :
          request'[p].step = "persist" /\ request'[z].step = "persist"
            /\ request'[p].item = request'[z].item => p = z
    BY <1>1, <1>3, <2>2 DEF BaseInv, RequestInv
  <2>. QED BY <2>1, <2>3 DEF RequestInv
<1>6. item' \in [Base!Items -> [status : State, text : Written]] BY DEF BaseInv, BaseTypes
<1>. QED BY <1>3, <1>4, <1>5, <1>6, QuietStaff

\* Every step of staff keeps the invariant.
LEMMA StaffStep ==
  ASSUME Base!KnowledgeAssumption, BaseInv, Base!Staff
  PROVE  BaseInv'
<1>1. ASSUME NEW i \in Base!Items, Base!Reindex(i) PROVE BaseInv'
  <2>1. /\ Base!Enqueue(i) /\ UNCHANGED <<alone, item, file, request, worker>>
        /\ item[i].status = "published"
    BY <1>1 DEF Base!Reindex, Base!Published, Base!base
  <2>2. ItemInv' /\ RequestInv' BY <2>1 DEF BaseInv, ItemInv, RequestInv
  <2>3. /\ item' \in [Base!Items -> [status : State, text : Written]]
        /\ file' \in [Documents -> BOOLEAN] /\ request' \in [Editors -> RequestRow]
    BY <2>1 DEF BaseInv, BaseTypes
  <2>4. item'[i].status # "none"
        /\ \A j \in Base!Items : j # i /\ item'[j].status = "published" => item'[j] = item[j]
    BY <2>1
  <2>. QED BY <2>1, <2>2, <2>3, <2>4, AskingStaff
<1>2. ASSUME NEW r \in Editors, NEW i \in Base!Items, Base!AskStatus(r, i) PROVE BaseInv'
  <2>1. PICK to \in {"draft", "published", "archived"} :
          /\ Base!Allowed(i, to)
          /\ request' = [request EXCEPT ![r] =
               [step |-> "set", item |-> i, from |-> item[i].status, to |-> to]]
    BY <1>2 DEF Base!AskStatus
  <2>2. /\ request[r] = Base!Unasked
        /\ UNCHANGED <<alone, worker, item, file, index, chunks, events, asked>>
    BY <1>2 DEF Base!AskStatus, Base!indexVars
  <2>3. item[i].status # "none" BY <2>1 DEF Base!Allowed
  <2>4. PICK from \in State : from = item[i].status BY DEF BaseInv, BaseTypes
  <2>5. to \in State \ {"none"} BY <2>1 DEF State
  <2>6. file' \in [Documents -> BOOLEAN] /\ \A d \in Documents : file[d] => file'[d]
    BY <2>2 DEF BaseInv, BaseTypes
  <2>7. request' = [request EXCEPT ![r] = [step |-> "set", item |-> i, from |-> from, to |-> to]]
    BY <2>1, <2>4
  <2>. QED BY <2>2, <2>3, <2>4, <2>5, <2>6, <2>7, RequestBegins
<1>3. ASSUME NEW r \in Editors, NEW d \in Documents, Base!PutFile(r, d) PROVE BaseInv'
  <2>1. PICK to \in {"draft", "published"} :
          request' = [request EXCEPT ![r] =
            [step |-> "persist", item |-> d, from |-> "none", to |-> to]]
    BY <1>3 DEF Base!PutFile
  <2>2. /\ request[r] = Base!Unasked /\ item[d].status = "none" /\ ~file[d]
        /\ file' = [file EXCEPT ![d] = TRUE]
        /\ UNCHANGED <<alone, worker, item, index, chunks, events, asked>>
    BY <1>3 DEF Base!PutFile, Base!indexVars
  <2>3. PICK i \in Base!Items : i = d BY DEF Base!Items
  <2>4. /\ file' \in [Documents -> BOOLEAN] /\ file'[d]
        /\ \A e \in Documents : file[e] => file'[e]
    <3>1. file \in [Documents -> BOOLEAN] BY DEF BaseInv, BaseTypes
    <3>2. TRUE \in BOOLEAN BY Zenon
    <3>. QED BY <2>2, <3>1, <3>2
  <2>5. to \in State \ {"none"} /\ "none" \in State BY <2>1 DEF State
  <2>6. request' = [request EXCEPT ![r] = [step |-> "persist", item |-> i, from |-> "none", to |-> to]]
    BY <2>1, <2>3
  <2>. QED BY <2>2, <2>3, <2>4, <2>5, <2>6, RequestBegins
<1>. QED
  BY <1>1, <1>2, <1>3, CreateKeeps, UpdateKeeps, SetStatusKeeps, PersistKeeps, PersistFailsKeeps
  DEF Base!Staff

-----------------------------------------------------------------------------
(* The steps of an indexer.                                                *)

\* One indexer's state changes.
LEMMA WorkerSet ==
  ASSUME NEW x \in Indexers, worker \in [Indexers -> WorkerRow], NEW r \in WorkerRow,
         worker' = [worker EXCEPT ![x] = r]
  PROVE  /\ worker' \in [Indexers -> WorkerRow] /\ worker'[x] = r
         /\ \A y \in Indexers : y # x => worker'[y] = worker[y]
OBVIOUS

\* The row of an indexer that works.
LEMMA RowOf ==
  ASSUME BaseInv, NEW x \in Indexers, worker[x].step # "idle"
  PROVE  /\ Base!Row(x) \in events /\ Base!Row(x) \in Ask
         /\ Base!Row(x).n = worker[x].event /\ Base!Row(x).item = worker[x].item
         /\ Base!Row(x).claimed
         /\ worker[x].event \in 1..asked /\ worker[x].item \in Base!Items
         /\ item[worker[x].item].status # "none"
         /\ \A e \in events : e.n = worker[x].event => e = Base!Row(x)
<1>1. PICK e \in events : e.n = worker[x].event /\ e.item = worker[x].item /\ e.claimed
  BY DEF BaseInv, WorkersInv, WorkerInv
<1>2. \A f \in events : f.n = worker[x].event => f = e BY <1>1 DEF BaseInv, RowInv
<1>3. Base!Row(x) \in events /\ Base!Row(x).n = worker[x].event BY <1>1 DEF Base!Row
<1>4. Base!Row(x) = e BY <1>2, <1>3
<1>5. e \in Ask /\ e.item \in Base!Items BY DEF BaseInv, BaseTypes, Ask
<1>6. e.n \in 1..asked /\ item[e.item].status # "none" BY DEF BaseInv, RowInv
<1>. QED BY <1>1, <1>2, <1>4, <1>5, <1>6

\* An indexer goes on with its row.
LEMMA AdvanceKeeps ==
  ASSUME Base!KnowledgeAssumption, BaseInv, NEW x \in Indexers, alone => x = Base!First,
         UNCHANGED <<alone, item, file, request, chunks, events, asked>>,
         worker[x].step \notin {"idle", "delete"},
         NEW r \in WorkerRow, worker' = [worker EXCEPT ![x] = r],
         r.step \notin {"idle", "read"}, r.event = worker[x].event, r.item = worker[x].item,
         r.text \in Texts, r.step \in {"compare", "embed", "retry", "replace"} => r.text # Bare,
         NEW i \in Base!Items, i = worker[x].item,
         NEW q \in IndexRow, index' = [index EXCEPT ![i] = q],
         \/ q.status \in {"indexing", "failed", "not_indexable"}
         \/ q.status = index[i].status /\ q.of = index[i].of /\ (q.counted <=> index[i].counted),
         \/ q.attempts = index[i].attempts
         \/ q.attempts = index[i].attempts + 1 /\ r.step = "retry" /\ r.tries = q.attempts,
         r.step \in {"mark", "extract", "compare", "embed"} =>
           worker[x].step \in {"read", "mark", "extract", "compare", "embed"},
         r.step = "retry" => worker[x].step = "embed",
         worker[x].step = "read" \/ worker[x].text = item[i].text =>
           IF r.step = "delete"
             THEN \/ q.status = "indexed" /\ chunks[i] = item[i].text
                  \/ q.status = "not_indexable" /\ item[i].text = Bare
                  \/ q.status = "failed"
             ELSE r.text = item[i].text
  PROVE  BaseInv'
<1>1. /\ worker \in [Indexers -> WorkerRow] /\ index \in [Base!Items -> IndexRow]
      /\ asked \in Nat /\ MaxRetries \in Nat \ {0}
  BY DEF BaseInv, BaseTypes, Base!KnowledgeAssumption
<1>2. /\ worker' \in [Indexers -> WorkerRow] /\ worker'[x] = r
      /\ \A y \in Indexers : y # x => worker'[y] = worker[y]
  BY <1>1, WorkerSet
<1>3. /\ index' \in [Base!Items -> IndexRow] /\ index'[i] = q
      /\ \A j \in Base!Items : j # i => index'[j] = index[j]
  BY <1>1, IndexSet
<1>4. BaseTypes' BY <1>2, <1>3 DEF BaseInv, BaseTypes
<1>5. ItemInv' /\ RequestInv' /\ RowInv'
  <2>1. \A f \in events : f.item \in Base!Items BY DEF BaseInv, BaseTypes, Ask
  <2>. QED BY <2>1 DEF BaseInv, ItemInv, RequestInv, RowInv
<1>6. WorkersInv'
  <2>1. ASSUME NEW y \in Indexers PROVE WorkerInv(y)'
    <3>1. WorkerInv(y) BY DEF BaseInv, WorkersInv
    <3>2. CASE y = x BY <1>2, <3>1, <3>2 DEF WorkerInv
    <3>3. CASE y # x BY <1>2, <3>1, <3>3 DEF WorkerInv
    <3>. QED BY <3>2, <3>3
  <2>2. \A y, z \in Indexers :
          worker'[y].step # "idle" /\ worker'[z].step # "idle" /\ worker'[y].event = worker'[z].event
            => y = z
    BY <1>2 DEF BaseInv, WorkersInv
  <2>3. \A y \in Indexers : alone /\ y # Base!First => worker'[y].step = "idle"
    BY <1>2 DEF BaseInv, WorkersInv
  <2>. QED BY <2>1, <2>2, <2>3 DEF WorkersInv
<1>7. AttemptsInv'
  <2>1. ASSUME NEW n \in 1..asked, MayEmbed(n)' PROVE MayEmbed(n)
    <3>1. CASE \E e \in events : e.n = n /\ ~e.claimed BY <3>1 DEF MayEmbed
    <3>2. CASE \E y \in Indexers :
                 /\ worker'[y].event = n
                 /\ \/ worker'[y].step \in {"read", "mark", "extract", "compare", "embed"}
                    \/ worker'[y].step = "retry" /\ worker'[y].tries < MaxRetries
      <4>1. PICK y \in Indexers :
              /\ worker'[y].event = n
              /\ \/ worker'[y].step \in {"read", "mark", "extract", "compare", "embed"}
                 \/ worker'[y].step = "retry" /\ worker'[y].tries < MaxRetries
        BY <3>2
      <4>2. CASE y = x
        <5>1. worker[x].event = n /\ worker[x].step \in {"read", "mark", "extract", "compare", "embed"}
          BY <1>2, <4>1, <4>2
        <5>. QED BY <5>1 DEF MayEmbed
      <4>3. CASE y # x
        <5>1. worker'[y] = worker[y] BY <1>2, <4>3
        <5>. QED BY <4>1, <5>1 DEF MayEmbed
      <4>. QED BY <4>2, <4>3
    <3>. QED BY <2>1, <3>1, <3>2 DEF MayEmbed
  <2>2. /\ Cardinality(Spent) \in Nat /\ Cardinality(Spent') \in Nat
        /\ Cardinality(Spent) <= Cardinality(Spent')
        /\ \A n \in 1..asked : MayEmbed(n) /\ ~MayEmbed(n)' => Cardinality(Spent) + 1 <= Cardinality(Spent')
    <3>1. asked' \in Nat /\ asked <= asked' BY <1>1
    <3>. QED BY <1>1, <2>1, <3>1, SpentGrows
  <2>3. /\ \A j \in Base!Items : index[j].attempts \in Nat
        /\ \A j \in Base!Items : index[j].attempts < MaxRetries + Cardinality(Spent)
    BY <1>1 DEF BaseInv, AttemptsInv, IndexRow
  <2>4. q.attempts < MaxRetries + Cardinality(Spent')
    <3>1. CASE q.attempts = index[i].attempts BY <1>1, <2>2, <2>3, <3>1
    <3>2. CASE q.attempts = index[i].attempts + 1 /\ r.step = "retry" /\ r.tries = q.attempts
      <4>1. CASE q.attempts < MaxRetries BY <1>1, <2>2, <2>3, <3>2, <4>1
      <4>2. CASE ~(q.attempts < MaxRetries)
        <5>1. PICK n \in 1..asked : n = worker[x].event BY RowOf
        <5>2. MayEmbed(n)
          <6>1. worker[x].step = "embed" BY <3>2
          <6>. QED BY <5>1, <6>1 DEF MayEmbed
        <5>3. ~MayEmbed(n)'
          <6>1. \A e \in events : e.n = n => e.claimed BY <5>1, RowOf
          <6>2. \A y \in Indexers : y # x /\ worker'[y].event = n => worker'[y].step = "idle"
            BY <1>2, <5>1 DEF BaseInv, WorkersInv
          <6>3. worker'[x].step = "retry" /\ ~(worker'[x].tries < MaxRetries) BY <1>2, <3>2, <4>2
          <6>. QED BY <6>1, <6>2, <6>3 DEF MayEmbed
        <5>4. Cardinality(Spent) + 1 <= Cardinality(Spent') BY <2>2, <5>2, <5>3
        <5>5. index[i].attempts \in Nat /\ index[i].attempts < MaxRetries + Cardinality(Spent) BY <2>3
        <5>. QED BY <1>1, <2>2, <3>2, <5>4, <5>5
      <4>. QED BY <4>1, <4>2
    <3>. QED BY <3>1, <3>2
  <2>5. ASSUME NEW j \in Base!Items PROVE index'[j].attempts < MaxRetries + Cardinality(Spent')
    <3>1. CASE j = i BY <1>3, <2>4, <3>1
    <3>2. CASE j # i
      <4>1. index'[j] = index[j] BY <1>3, <3>2
      <4>2. index[j].attempts \in Nat /\ index[j].attempts < MaxRetries + Cardinality(Spent) BY <2>3
      <4>. QED BY <1>1, <2>2, <4>1, <4>2
    <3>. QED BY <3>1, <3>2
  <2>. QED BY <2>5 DEF AttemptsInv
<1>8. Base!IndexedIsTrue'
  <2>1. ASSUME NEW j \in Base!Items
        PROVE  /\ index'[j].status = "indexed" =>
                    chunks'[j] = index'[j].of /\ index'[j].counted /\ chunks'[j] # Bare
               /\ index'[j].status \in {"none", "not_indexed"} =>
                    index'[j].of = NoText /\ ~index'[j].counted
    BY <1>3 DEF BaseInv, Base!IndexedIsTrue
  <2>. QED BY <2>1 DEF Base!IndexedIsTrue
<1>9. ConvergeInv'
  <2>1. ASSUME alone, NEW j \in Base!Items, item[j].status = "published"
        PROVE  Cared(j)'
    <3>1. x = Base!First /\ worker'[x] = r BY <1>2, <2>1
    <3>2. Cared(j) BY <2>1, ConvergeIsCared DEF BaseInv
    <3>3. CASE Waits(j, x) BY <1>2, <3>1, <3>3 DEF Cared, Waits
    <3>4. CASE Follows(j, x)
      <4>1. j = i /\ (worker[x].step = "read" \/ worker[x].text = item[i].text)
        BY <3>4 DEF Follows
      <4>2. CASE r.step = "delete"
        BY <1>3, <3>1, <4>1, <4>2 DEF Cared, Settled
      <4>3. CASE r.step # "delete"
        BY <3>1, <4>1, <4>3 DEF Cared, Follows
      <4>. QED BY <4>2, <4>3
    <3>5. CASE Settled(j) /\ (worker[x].item = j => worker[x].step \in {"idle", "delete"})
      <4>1. j # i BY <3>5
      <4>. QED BY <1>3, <3>1, <3>5, <4>1 DEF Cared, Settled
    <3>. QED BY <3>1, <3>2, <3>3, <3>4, <3>5 DEF Cared
  <2>. QED BY <2>1 DEF ConvergeInv, Cared
<1>. QED BY <1>4, <1>5, <1>6, <1>7, <1>8, <1>9 DEF BaseInv

\* An index state nobody writes is written as it is.
LEMMA SameIndex ==
  ASSUME BaseInv, NEW i \in Base!Items, index' = index
  PROVE  \E q \in IndexRow : index' = [index EXCEPT ![i] = q] /\ q = index[i]
<1>1. index \in [Base!Items -> IndexRow] BY DEF BaseInv, BaseTypes
<1>. QED BY <1>1

\* What an indexer carries on.
LEMMA WorkerGoes ==
  ASSUME NEW x \in Indexers, worker \in [Indexers -> WorkerRow],
         NEW s \in {"extract", "compare", "embed", "delete"}
  PROVE  \E r \in WorkerRow :
           /\ [worker EXCEPT ![x].step = s] = [worker EXCEPT ![x] = r]
           /\ r.step = s /\ r.event = worker[x].event /\ r.item = worker[x].item
           /\ r.text = worker[x].text
<1> DEFINE r == [worker[x] EXCEPT !.step = s]
<1>1. worker[x] \in WorkerRow OBVIOUS
<1>2. r \in WorkerRow BY <1>1 DEF WorkerRow
<1>3. /\ r.step = s /\ r.event = worker[x].event /\ r.item = worker[x].item
      /\ r.text = worker[x].text
  BY <1>1 DEF WorkerRow
<1>4. [worker EXCEPT ![x].step = s] = [worker EXCEPT ![x] = r] OBVIOUS
<1>. QED BY <1>2, <1>3, <1>4, Zenon

\* An indexer that works, and its item.
LEMMA AtWork ==
  ASSUME BaseInv, NEW x \in Indexers, worker[x].step # "idle"
  PROVE  /\ worker \in [Indexers -> WorkerRow] /\ index \in [Base!Items -> IndexRow]
         /\ worker[x] \in WorkerRow
         /\ worker[x].step # "read" => worker[x].text \in Texts
         /\ worker[x].step \in {"compare", "embed", "retry", "replace"} => worker[x].text # Bare
         /\ \E i \in Base!Items :
              /\ i = worker[x].item /\ index[i] \in IndexRow
              /\ [index EXCEPT ![i] = index[i]] = index
<1>1. worker \in [Indexers -> WorkerRow] /\ index \in [Base!Items -> IndexRow]
  BY DEF BaseInv, BaseTypes
<1>2. worker[x].item \in Base!Items BY RowOf
<1>3. WorkerInv(x) BY DEF BaseInv, WorkersInv
<1>4. \A i \in Base!Items : index[i] \in IndexRow /\ [index EXCEPT ![i] = index[i]] = index BY <1>1
<1>. QED BY <1>1, <1>2, <1>3, <1>4 DEF WorkerInv

\* Each step of an indexer: it reads the item,
LEMMA ReadKeeps ==
  ASSUME Base!KnowledgeAssumption, BaseInv, NEW x \in Indexers, alone => x = Base!First, Base!Read(x)
  PROVE  BaseInv'
<1>1. /\ worker[x].step = "read" /\ UNCHANGED <<alone, item, file, request, index, chunks, events, asked>>
  BY DEF Base!Read, Base!base, Base!indexVars
<1>2. /\ worker \in [Indexers -> WorkerRow] /\ worker[x] \in WorkerRow BY <1>1, AtWork
<1>3. PICK i \in Base!Items :
        i = worker[x].item /\ index[i] \in IndexRow /\ [index EXCEPT ![i] = index[i]] = index
  BY <1>1, AtWork
<1>4. item[i].text \in Texts BY <1>1, <1>3, RowOf, ItemThere
<1>5. PICK r \in WorkerRow :
        /\ worker' = [worker EXCEPT ![x] = r]
        /\ r.step = "mark" /\ r.event = worker[x].event /\ r.item = worker[x].item
        /\ r.text = item[i].text
  <2> DEFINE r == [worker[x] EXCEPT !.step = "mark", !.text = item[i].text]
  <2>1. item[i].text \in Written BY <1>4 DEF Written
  <2>2. r \in WorkerRow BY <1>2, <2>1 DEF WorkerRow
  <2>3. /\ r.step = "mark" /\ r.event = worker[x].event /\ r.item = worker[x].item
        /\ r.text = item[i].text
    BY <1>2 DEF WorkerRow
  <2>4. worker' = [worker EXCEPT ![x] = r] BY <1>3 DEF Base!Read
  <2>. QED BY <2>2, <2>3, <2>4, Zenon
<1>6. PICK q \in IndexRow : index' = [index EXCEPT ![i] = q] /\ q = index[i]
  BY <1>1, <1>3, SameIndex
<1>7. UNCHANGED <<alone, item, file, request, chunks, events, asked>> BY <1>1
<1>8. worker[x].step \notin {"idle", "delete"} BY <1>1
<1>9. /\ i \in Base!Items /\ i = worker[x].item
      /\ r.text \in Texts /\ r.step \notin {"idle", "read", "retry", "compare", "embed", "replace", "delete"}
      /\ r.text = item[i].text
  BY <1>3, <1>4, <1>5
<1>10. /\ r.step \in {"mark", "extract", "compare", "embed"} =>
            worker[x].step \in {"read", "mark", "extract", "compare", "embed"}
       /\ r.step = "retry" => worker[x].step = "embed"
       /\ r.step \in {"compare", "embed", "retry", "replace"} => r.text # Bare
       /\ \/ q.attempts = index[i].attempts
          \/ q.attempts = index[i].attempts + 1 /\ r.step = "retry" /\ r.tries = q.attempts
  BY <1>1, <1>5, <1>6
<1>. QED BY <1>5, <1>6, <1>7, <1>8, <1>9, <1>10, AdvanceKeeps

\* marks its index state,
LEMMA MarkKeeps ==
  ASSUME Base!KnowledgeAssumption, BaseInv, NEW x \in Indexers, alone => x = Base!First, Base!Mark(x)
  PROVE  BaseInv'
<1>1. /\ worker[x].step = "mark" /\ UNCHANGED <<alone, item, file, request, chunks, events, asked>>
  BY DEF Base!Mark, Base!base
<1>2. /\ worker \in [Indexers -> WorkerRow] /\ index \in [Base!Items -> IndexRow]
      /\ worker[x].text \in Texts
  BY <1>1, AtWork
<1>3. PICK i \in Base!Items : i = worker[x].item BY <1>1, AtWork
<1>4. PICK q \in IndexRow :
        /\ [index EXCEPT ![i].status = "indexing"] = [index EXCEPT ![i] = q]
        /\ q.status = "indexing" /\ q.attempts = index[i].attempts
  BY <1>2, StatusWritten
<1>5. PICK r \in WorkerRow :
        /\ [worker EXCEPT ![x].step = "extract"] = [worker EXCEPT ![x] = r]
        /\ r.step = "extract" /\ r.event = worker[x].event /\ r.item = worker[x].item
        /\ r.text = worker[x].text
  BY <1>2, WorkerGoes
<1>6. index' = [index EXCEPT ![i] = q] /\ worker' = [worker EXCEPT ![x] = r]
  BY <1>3, <1>4, <1>5 DEF Base!Mark, Base!Goes
<1>. QED BY <1>1, <1>2, <1>3, <1>4, <1>5, <1>6, AdvanceKeeps

\* looks for a text that can be indexed,
LEMMA ExtractKeeps ==
  ASSUME Base!KnowledgeAssumption, BaseInv, NEW x \in Indexers, alone => x = Base!First, Base!Extract(x)
  PROVE  BaseInv'
<1>1. /\ worker[x].step = "extract" /\ UNCHANGED <<alone, item, file, request, chunks, events, asked>>
  BY DEF Base!Extract, Base!base
<1>2. /\ worker \in [Indexers -> WorkerRow] /\ index \in [Base!Items -> IndexRow]
      /\ worker[x].text \in Texts
  BY <1>1, AtWork
<1>3. PICK i \in Base!Items :
        i = worker[x].item /\ index[i] \in IndexRow /\ [index EXCEPT ![i] = index[i]] = index
  BY <1>1, AtWork
<1>4. CASE worker[x].text = Bare
  <2>1. PICK q \in IndexRow :
          /\ index' = [index EXCEPT ![i] = q]
          /\ q.status = "not_indexable" /\ q.attempts = index[i].attempts
    <3> DEFINE q == [index[i] EXCEPT !.status = "not_indexable", !.counted = FALSE]
    <3>1. \A b \in BOOLEAN :
            [index[i] EXCEPT !.status = "not_indexable", !.counted = b] \in IndexRow
      BY <1>3 DEF IndexRow
    <3>2. FALSE \in BOOLEAN BY Zenon
    <3>3. q \in IndexRow BY <3>1, <3>2, Zenon
    <3>4. q.status = "not_indexable" /\ q.attempts = index[i].attempts BY <1>3 DEF IndexRow
    <3>5. index' = [index EXCEPT ![i] = q] BY <1>2, <1>3, <1>4 DEF Base!Extract
    <3>. QED BY <3>3, <3>4, <3>5, Zenon
  <2>2. PICK r \in WorkerRow :
          /\ [worker EXCEPT ![x].step = "delete"] = [worker EXCEPT ![x] = r]
          /\ r.step = "delete" /\ r.event = worker[x].event /\ r.item = worker[x].item
          /\ r.text = worker[x].text
    BY <1>2, WorkerGoes
  <2>3. worker' = [worker EXCEPT ![x] = r] BY <1>4, <2>2 DEF Base!Extract, Base!Goes
  <2>. QED BY <1>1, <1>2, <1>3, <1>4, <2>1, <2>2, <2>3, AdvanceKeeps
<1>5. CASE worker[x].text # Bare
  <2>1. index' = [index EXCEPT ![i] = index[i]] BY <1>3, <1>5 DEF Base!Extract
  <2>2. PICK r \in WorkerRow :
          /\ [worker EXCEPT ![x].step = "compare"] = [worker EXCEPT ![x] = r]
          /\ r.step = "compare" /\ r.event = worker[x].event /\ r.item = worker[x].item
          /\ r.text = worker[x].text
    BY <1>2, WorkerGoes
  <2>3. worker' = [worker EXCEPT ![x] = r] BY <1>5, <2>2 DEF Base!Extract, Base!Goes
  <2>. QED BY <1>1, <1>2, <1>3, <1>5, <2>1, <2>2, <2>3, AdvanceKeeps
<1>. QED BY <1>4, <1>5

\* skips what is indexed already,
LEMMA CompareKeeps ==
  ASSUME Base!KnowledgeAssumption, BaseInv, NEW x \in Indexers, alone => x = Base!First, Base!Compare(x)
  PROVE  BaseInv'
<1>1. /\ worker[x].step = "compare"
      /\ UNCHANGED <<alone, item, file, request, index, chunks, events, asked>>
  BY DEF Base!Compare, Base!base, Base!indexVars
<1>2. /\ worker \in [Indexers -> WorkerRow] /\ worker[x].text \in Texts /\ worker[x].text # Bare
  BY <1>1, AtWork
<1>3. PICK i \in Base!Items :
        i = worker[x].item /\ index[i] \in IndexRow /\ [index EXCEPT ![i] = index[i]] = index
  BY <1>1, AtWork
<1>4. CASE index[i].status = "indexed" /\ index[i].of = worker[x].text
  <2>1. PICK r \in WorkerRow :
          /\ [worker EXCEPT ![x].step = "delete"] = [worker EXCEPT ![x] = r]
          /\ r.step = "delete" /\ r.event = worker[x].event /\ r.item = worker[x].item
          /\ r.text = worker[x].text
    BY <1>2, WorkerGoes
  <2>2. worker' = [worker EXCEPT ![x] = r] BY <1>3, <1>4, <2>1 DEF Base!Compare, Base!Goes
  <2>3. worker[x].text = item[i].text => chunks[i] = item[i].text
    BY <1>4 DEF BaseInv, Base!IndexedIsTrue
  <2>4. /\ r.event = worker[x].event /\ r.item = worker[x].item /\ r.text \in Texts
        /\ r.step = "delete"
    BY <1>2, <2>1
  <2>5. /\ UNCHANGED <<alone, item, file, request, chunks, events, asked>>
        /\ worker[x].step \notin {"idle", "read", "delete"}
    BY <1>1
  <2>6. PICK q \in IndexRow : index' = [index EXCEPT ![i] = q] /\ q = index[i]
    BY <1>1, <1>3, SameIndex
  <2>7. worker[x].text = item[i].text => q.status = "indexed" /\ chunks[i] = item[i].text
    BY <1>4, <2>3, <2>6
  <2>8. i \in Base!Items /\ i = worker[x].item BY <1>3
  <2>. QED BY <2>1, <2>2, <2>4, <2>5, <2>6, <2>7, <2>8, AdvanceKeeps
<1>5. CASE ~(index[i].status = "indexed" /\ index[i].of = worker[x].text)
  <2>1. PICK r \in WorkerRow :
          /\ [worker EXCEPT ![x].step = "embed"] = [worker EXCEPT ![x] = r]
          /\ r.step = "embed" /\ r.event = worker[x].event /\ r.item = worker[x].item
          /\ r.text = worker[x].text
    BY <1>2, WorkerGoes
  <2>2. worker' = [worker EXCEPT ![x] = r] BY <1>3, <1>5, <2>1 DEF Base!Compare, Base!Goes
  <2>3. /\ r.event = worker[x].event /\ r.item = worker[x].item /\ r.text \in Texts
        /\ r.step = "embed" /\ r.text # Bare /\ r.text = worker[x].text
    BY <1>2, <2>1
  <2>4. /\ UNCHANGED <<alone, item, file, request, chunks, events, asked>>
        /\ worker[x].step = "compare"
    BY <1>1
  <2>5. PICK q \in IndexRow : index' = [index EXCEPT ![i] = q] /\ q = index[i]
    BY <1>1, <1>3, SameIndex
  <2>6. i \in Base!Items /\ i = worker[x].item BY <1>3
  <2>. QED BY <2>1, <2>2, <2>3, <2>4, <2>5, <2>6, AdvanceKeeps
<1>. QED BY <1>4, <1>5

\* and has the chunks embedded: an answer, a transient error that counts, or another.
LEMMA EmbedKeeps ==
  ASSUME Base!KnowledgeAssumption, BaseInv, NEW x \in Indexers, alone => x = Base!First, Base!Embed(x)
  PROVE  BaseInv'
<1>1. /\ worker[x].step = "embed" /\ UNCHANGED <<alone, item, file, request, chunks, events, asked>>
  BY DEF Base!Embed, Base!base
<1>2. /\ worker \in [Indexers -> WorkerRow] /\ index \in [Base!Items -> IndexRow]
      /\ worker[x] \in WorkerRow /\ worker[x].text \in Texts /\ worker[x].text # Bare
  BY <1>1, AtWork
<1>3. PICK i \in Base!Items :
        i = worker[x].item /\ index[i] \in IndexRow /\ [index EXCEPT ![i] = index[i]] = index
  BY <1>1, AtWork
<1>4. CASE worker' = [worker EXCEPT ![x].step = "replace", ![x].clash = FALSE] /\ UNCHANGED index
  <2>1. PICK r \in WorkerRow :
          /\ worker' = [worker EXCEPT ![x] = r]
          /\ r.step = "replace" /\ r.event = worker[x].event /\ r.item = worker[x].item
          /\ r.text = worker[x].text
    <3> DEFINE r == [worker[x] EXCEPT !.step = "replace", !.clash = FALSE]
    <3>1. \A b \in BOOLEAN : [worker[x] EXCEPT !.step = "replace", !.clash = b] \in WorkerRow
      BY <1>2 DEF WorkerRow
    <3>2. FALSE \in BOOLEAN BY Zenon
    <3>3. r \in WorkerRow BY <3>1, <3>2, Zenon
    <3>4. /\ r.step = "replace" /\ r.event = worker[x].event /\ r.item = worker[x].item
          /\ r.text = worker[x].text
      BY <1>2 DEF WorkerRow
    <3>5. worker' = [worker EXCEPT ![x] = r] BY <1>4
    <3>. QED BY <3>3, <3>4, <3>5, Zenon
  <2>2. /\ r.event = worker[x].event /\ r.item = worker[x].item /\ r.text \in Texts
        /\ r.step = "replace" /\ r.text # Bare /\ r.text = worker[x].text
    BY <1>2, <2>1
  <2>3. /\ UNCHANGED <<alone, item, file, request, chunks, events, asked>>
        /\ worker[x].step = "embed"
    BY <1>1
  <2>4. PICK q \in IndexRow : index' = [index EXCEPT ![i] = q] /\ q = index[i]
    BY <1>3, <1>4, SameIndex
  <2>5. i \in Base!Items /\ i = worker[x].item BY <1>3
  <2>. QED BY <2>1, <2>2, <2>3, <2>4, <2>5, AdvanceKeeps
<1>5. CASE /\ index' = [index EXCEPT ![worker[x].item].attempts = @ + 1]
           /\ worker' = [worker EXCEPT ![x].step = "retry",
                                       ![x].tries = index[worker[x].item].attempts + 1]
  <2>1. PICK q \in IndexRow :
          /\ index' = [index EXCEPT ![i] = q]
          /\ q.status = index[i].status /\ q.of = index[i].of /\ (q.counted <=> index[i].counted)
          /\ q.attempts = index[i].attempts + 1
    <3> DEFINE q == [index[i] EXCEPT !.attempts = @ + 1]
    <3>1. index[i].attempts + 1 \in Nat BY <1>3 DEF IndexRow
    <3>2. \A n \in Nat :
            /\ [index[i] EXCEPT !.attempts = n] \in IndexRow
            /\ [index[i] EXCEPT !.attempts = n].status = index[i].status
            /\ [index[i] EXCEPT !.attempts = n].of = index[i].of
            /\ [index[i] EXCEPT !.attempts = n].counted = index[i].counted
            /\ [index[i] EXCEPT !.attempts = n].attempts = n
      BY <1>3 DEF IndexRow
    <3>3. /\ q \in IndexRow /\ q.status = index[i].status /\ q.of = index[i].of
          /\ q.counted = index[i].counted /\ q.attempts = index[i].attempts + 1
      BY <3>1, <3>2
    <3>4. index' = [index EXCEPT ![i] = q] BY <1>3, <1>5
    <3>. QED BY <3>3, <3>4, Zenon
  <2>2. PICK r \in WorkerRow :
          /\ worker' = [worker EXCEPT ![x] = r]
          /\ r.step = "retry" /\ r.event = worker[x].event /\ r.item = worker[x].item
          /\ r.text = worker[x].text /\ r.tries = q.attempts
    <3> DEFINE r == [worker[x] EXCEPT !.step = "retry", !.tries = q.attempts]
    <3>1. q.attempts \in Nat BY <2>1 DEF IndexRow
    <3>2. r \in WorkerRow BY <1>2, <3>1 DEF WorkerRow
    <3>3. /\ r.step = "retry" /\ r.event = worker[x].event /\ r.item = worker[x].item
          /\ r.text = worker[x].text /\ r.tries = q.attempts
      BY <1>2 DEF WorkerRow
    <3>4. worker' = [worker EXCEPT ![x] = r] BY <1>3, <1>5, <2>1
    <3>. QED BY <3>2, <3>3, <3>4, Zenon
  <2>3. /\ r.event = worker[x].event /\ r.item = worker[x].item /\ r.text \in Texts
        /\ r.step = "retry" /\ r.text # Bare /\ r.text = worker[x].text
    BY <1>2, <2>2
  <2>4. i \in Base!Items /\ i = worker[x].item BY <1>3
  <2>. QED BY <1>1, <2>1, <2>2, <2>3, <2>4, AdvanceKeeps
<1>6. CASE /\ index' = [index EXCEPT ![worker[x].item].status = "failed"]
           /\ worker' = [worker EXCEPT ![x].step = "delete"]
  <2>1. PICK q \in IndexRow :
          /\ [index EXCEPT ![i].status = "failed"] = [index EXCEPT ![i] = q]
          /\ q.status = "failed" /\ q.attempts = index[i].attempts
    BY <1>2, StatusWritten
  <2>2. PICK r \in WorkerRow :
          /\ [worker EXCEPT ![x].step = "delete"] = [worker EXCEPT ![x] = r]
          /\ r.step = "delete" /\ r.event = worker[x].event /\ r.item = worker[x].item
          /\ r.text = worker[x].text
    BY <1>2, WorkerGoes
  <2>3. index' = [index EXCEPT ![i] = q] /\ worker' = [worker EXCEPT ![x] = r]
    BY <1>3, <1>6, <2>1, <2>2
  <2>4. r.text \in Texts /\ i = worker[x].item BY <1>2, <1>3, <2>2
  <2>. QED BY <1>1, <1>3, <2>1, <2>2, <2>3, <2>4, AdvanceKeeps
<1>. QED BY <1>4, <1>5, <1>6 DEF Base!Embed, Base!Goes

\* The run that gives up.
LEMMA GivesUpKeeps ==
  ASSUME Base!KnowledgeAssumption, BaseInv, NEW x \in Indexers, alone => x = Base!First,
         worker[x].step = "retry", worker[x].tries >= MaxRetries, Base!Retry(x)
  PROVE  BaseInv'
<1>1. /\ index' = [index EXCEPT ![worker[x].item].status = "failed"]
      /\ worker' = [worker EXCEPT ![x].step = "delete"]
      /\ UNCHANGED <<alone, item, file, request, chunks, events, asked>>
  BY DEF Base!Retry, Base!Goes, Base!base
<1>2. /\ worker \in [Indexers -> WorkerRow] /\ index \in [Base!Items -> IndexRow]
      /\ worker[x].text \in Texts
  BY AtWork
<1>3. PICK i \in Base!Items : i = worker[x].item BY AtWork
<1>4. PICK q \in IndexRow :
        /\ [index EXCEPT ![i].status = "failed"] = [index EXCEPT ![i] = q]
        /\ q.status = "failed" /\ q.attempts = index[i].attempts
  BY <1>2, StatusWritten
<1>5. PICK r \in WorkerRow :
        /\ [worker EXCEPT ![x].step = "delete"] = [worker EXCEPT ![x] = r]
        /\ r.step = "delete" /\ r.event = worker[x].event /\ r.item = worker[x].item
        /\ r.text = worker[x].text
  BY <1>2, WorkerGoes
<1>6. index' = [index EXCEPT ![i] = q] /\ worker' = [worker EXCEPT ![x] = r]
  BY <1>1, <1>3, <1>4, <1>5
<1>7. r.text \in Texts /\ UNCHANGED <<alone, item, file, request, chunks, events, asked>> BY <1>1, <1>2, <1>5
<1>. QED BY <1>3, <1>4, <1>5, <1>6, <1>7, AdvanceKeeps

\* A step that changes rows, workers and what is indexed.
LEMMA RowStep ==
  ASSUME Base!KnowledgeAssumption, BaseInv, UNCHANGED <<alone, item, file, request, asked>>,
         events' \in SUBSET Ask,
         \A g \in events' : \E h \in events : h.n = g.n /\ h.item = g.item,
         \A g, h \in events' : g.n = h.n => g = h,
         worker' \in [Indexers -> WorkerRow], WorkersInv',
         index' \in [Base!Items -> IndexRow], chunks' \in [Base!Items -> Written],
         Base!IndexedIsTrue',
         \A i \in Base!Items : index'[i].attempts = index[i].attempts \/ index'[i].attempts = 0,
         \A n \in 1..asked : MayEmbed(n)' => MayEmbed(n),
         ConvergeInv'
  PROVE  BaseInv'
<1>1. BaseTypes' BY DEF BaseInv, BaseTypes
<1>2. ItemInv' /\ RequestInv' BY DEF BaseInv, ItemInv, RequestInv
<1>3. RowInv'
  <2>1. ASSUME NEW g \in events' PROVE g.n \in 1..asked' /\ item'[g.item].status # "none"
    <3>1. PICK h \in events : h.n = g.n /\ h.item = g.item OBVIOUS
    <3>2. h.n \in 1..asked /\ item[h.item].status # "none" BY DEF BaseInv, RowInv
    <3>. QED BY <3>1, <3>2
  <2>. QED BY <2>1 DEF RowInv
<1>4. AttemptsInv'
  <2>1. asked \in Nat /\ asked' \in Nat /\ asked <= asked' /\ MaxRetries \in Nat \ {0}
    BY DEF BaseInv, BaseTypes, Base!KnowledgeAssumption
  <2>2. /\ Cardinality(Spent) \in Nat /\ Cardinality(Spent') \in Nat
        /\ Cardinality(Spent) <= Cardinality(Spent')
    BY <2>1, SpentGrows
  <2>3. ASSUME NEW i \in Base!Items PROVE index'[i].attempts < MaxRetries + Cardinality(Spent')
    <3>1. index[i].attempts \in Nat /\ index[i].attempts < MaxRetries + Cardinality(Spent)
      BY DEF BaseInv, BaseTypes, AttemptsInv, IndexRow
    <3>2. index'[i].attempts = index[i].attempts \/ index'[i].attempts = 0 OBVIOUS
    <3>. QED BY <2>1, <2>2, <3>1, <3>2
  <2>. QED BY <2>3 DEF AttemptsInv
<1>. QED BY <1>1, <1>2, <1>3, <1>4 DEF BaseInv

\* What an indexer that rests leaves behind.
LEMMA RestKeeps ==
  ASSUME Base!KnowledgeAssumption, BaseInv, NEW x \in Indexers, alone => x = Base!First,
         worker[x].step # "idle", UNCHANGED <<alone, item, file, request, asked>>,
         worker' \in [Indexers -> WorkerRow], worker'[x] = Base!Resting,
         \A y \in Indexers : y # x =>
           /\ worker'[y].step = worker[y].step /\ worker'[y].event = worker[y].event
           /\ worker'[y].item = worker[y].item /\ worker'[y].text = worker[y].text
           /\ worker'[y].tries = worker[y].tries
           /\ worker[y].step = "idle" => worker'[y] = worker[y],
         NEW F \in SUBSET Ask, events' = (events \ {Base!Row(x)}) \cup F,
         \A f \in F : f.n = Base!Row(x).n /\ f.item = Base!Row(x).item,
         \A f, g \in F : f = g,
         (\E f \in F : ~f.claimed) => worker[x].step = "retry" /\ worker[x].tries < MaxRetries,
         index' \in [Base!Items -> IndexRow], chunks' \in [Base!Items -> Written],
         Base!IndexedIsTrue',
         \A i \in Base!Items : index'[i].attempts = index[i].attempts \/ index'[i].attempts = 0,
         \A j \in Base!Items :
           Settled(j) /\ (worker[x].item = j => worker[x].step = "delete") => Settled(j)',
         F = {} => \A j \in Base!Items : Follows(j, x) => Settled(j)'
  PROVE  BaseInv'
<1>1. PICK e \in Ask :
        /\ e = Base!Row(x) /\ e \in events /\ e.n = worker[x].event /\ e.item = worker[x].item
        /\ e.claimed /\ \A h \in events : h.n = worker[x].event => h = e
  BY RowOf
<1>2. /\ \A g \in events' : (g \in events /\ g.n # e.n) \/ g \in F
      /\ \A h \in events : h.n # e.n => h \in events'
      /\ \A f \in F : f \in events' /\ f.n = e.n /\ f.item = e.item
  BY <1>1
<1>3. events' \in SUBSET Ask BY DEF BaseInv, BaseTypes
<1>4. \A g \in events' : \E h \in events : h.n = g.n /\ h.item = g.item BY <1>1, <1>2
<1>5. \A g, h \in events' : g.n = h.n => g = h
  <2>1. \A g, h \in events : g.n = h.n => g = h BY DEF BaseInv, RowInv
  <2>. QED BY <1>2, <2>1
<1>6. WorkersInv'
  <2>1. ASSUME NEW y \in Indexers PROVE WorkerInv(y)'
    <3>1. CASE y = x BY <3>1, RestingRow DEF WorkerInv
    <3>2. CASE y # x /\ worker[y].step = "idle"
      <4>1. worker'[y] = worker[y] BY <3>2
      <4>2. WorkerInv(y) BY DEF BaseInv, WorkersInv
      <4>. QED BY <3>2, <4>1, <4>2 DEF WorkerInv
    <3>3. CASE y # x /\ worker[y].step # "idle"
      <4>1. /\ worker'[y].step = worker[y].step /\ worker'[y].event = worker[y].event
            /\ worker'[y].item = worker[y].item /\ worker'[y].text = worker[y].text
        BY <3>3
      <4>2. WorkerInv(y) BY DEF BaseInv, WorkersInv
      <4>3. PICK h \in events : h.n = worker[y].event /\ h.item = worker[y].item /\ h.claimed
        BY <3>3, <4>2 DEF WorkerInv
      <4>4. worker[y].event # worker[x].event BY <3>3 DEF BaseInv, WorkersInv
      <4>5. h \in events' BY <1>1, <1>2, <4>3, <4>4
      <4>. QED BY <3>3, <4>1, <4>2, <4>3, <4>5 DEF WorkerInv
    <3>. QED BY <3>1, <3>2, <3>3
  <2>2. worker'[x].step = "idle" BY RestingRow
  <2>3. \A y, z \in Indexers :
          worker'[y].step # "idle" /\ worker'[z].step # "idle" /\ worker'[y].event = worker'[z].event
            => y = z
    BY <2>2 DEF BaseInv, WorkersInv
  <2>4. \A y \in Indexers : alone' /\ y # Base!First => worker'[y].step = "idle"
    BY <2>2 DEF BaseInv, WorkersInv
  <2>. QED BY <2>1, <2>3, <2>4 DEF WorkersInv
<1>7. ASSUME NEW n \in 1..asked, MayEmbed(n)' PROVE MayEmbed(n)
  <2>1. CASE \E g \in events' : g.n = n /\ ~g.claimed
    <3>1. PICK g \in events' : g.n = n /\ ~g.claimed BY <2>1
    <3>2. CASE g \in events BY <3>1, <3>2 DEF MayEmbed
    <3>3. CASE g \in F
      <4>1. worker[x].step = "retry" /\ worker[x].tries < MaxRetries BY <3>1, <3>3
      <4>2. worker[x].event = n BY <1>1, <1>2, <3>1, <3>3
      <4>. QED BY <4>1, <4>2 DEF MayEmbed
    <3>. QED BY <1>2, <3>2, <3>3
  <2>2. CASE \E y \in Indexers :
               /\ worker'[y].event = n
               /\ \/ worker'[y].step \in {"read", "mark", "extract", "compare", "embed"}
                  \/ worker'[y].step = "retry" /\ worker'[y].tries < MaxRetries
    <3>1. PICK y \in Indexers :
            /\ worker'[y].event = n
            /\ \/ worker'[y].step \in {"read", "mark", "extract", "compare", "embed"}
               \/ worker'[y].step = "retry" /\ worker'[y].tries < MaxRetries
      BY <2>2
    <3>2. y # x BY <3>1, RestingRow
    <3>. QED BY <3>1, <3>2 DEF MayEmbed
  <2>. QED BY <1>7, <2>1, <2>2 DEF MayEmbed
<1>8. ConvergeInv'
  <2>1. ASSUME alone, NEW j \in Base!Items, item[j].status = "published" PROVE Cared(j)'
    <3>1. x = Base!First /\ worker'[x].step = "idle" BY <2>1, RestingRow
    <3>2. Cared(j) BY <2>1, ConvergeIsCared DEF BaseInv
    <3>3. CASE Waits(j, x)
      <4>1. PICK h \in events :
              h.item = j /\ (~h.claimed \/ worker[x].step = "idle" \/ worker[x].event # h.n)
        BY <3>3 DEF Waits
      <4>2. h.n # e.n BY <1>1, <4>1
      <4>3. h \in events' BY <1>2, <4>2
      <4>. QED BY <3>1, <4>1, <4>3 DEF Cared, Waits
    <3>4. CASE Follows(j, x)
      <4>1. CASE F = {} BY <3>1, <3>4, <4>1 DEF Cared
      <4>2. CASE F # {}
        <5>1. PICK f \in F : TRUE BY <4>2
        <5>2. f \in events' /\ f.item = j BY <1>1, <1>2, <3>4 DEF Follows
        <5>. QED BY <3>1, <5>2 DEF Cared, Waits
      <4>. QED BY <4>1, <4>2
    <3>5. CASE Settled(j) /\ (worker[x].item = j => worker[x].step \in {"idle", "delete"})
      BY <3>1, <3>5 DEF Cared
    <3>. QED BY <3>1, <3>2, <3>3, <3>4, <3>5 DEF Cared
  <2>. QED BY <2>1 DEF ConvergeInv, Cared
<1>. QED BY <1>3, <1>4, <1>5, <1>6, <1>7, <1>8, RowStep

\* ... that leaves everything but rows alone.
LEMMA LeaveKeeps ==
  ASSUME Base!KnowledgeAssumption, BaseInv, NEW x \in Indexers, alone => x = Base!First,
         worker[x].step # "idle", UNCHANGED <<alone, item, file, request, asked, index, chunks>>,
         worker' = [worker EXCEPT ![x] = Base!Resting],
         NEW F \in SUBSET Ask, events' = (events \ {Base!Row(x)}) \cup F,
         \A f \in F : f.n = Base!Row(x).n /\ f.item = Base!Row(x).item,
         \A f, g \in F : f = g,
         (\E f \in F : ~f.claimed) => worker[x].step = "retry" /\ worker[x].tries < MaxRetries,
         F = {} => worker[x].step = "delete"
  PROVE  BaseInv'
<1>1. worker \in [Indexers -> WorkerRow] BY DEF BaseInv, BaseTypes
<1>2. PICK r \in WorkerRow : r = Base!Resting BY RestingRow
<1>3. worker' = [worker EXCEPT ![x] = r] BY <1>2
<1>4. /\ worker' \in [Indexers -> WorkerRow] /\ worker'[x] = Base!Resting
      /\ \A y \in Indexers : y # x => worker'[y] = worker[y]
  BY <1>1, <1>2, <1>3, WorkerSet
<1>5. \A y \in Indexers : y # x =>
        /\ worker'[y].step = worker[y].step /\ worker'[y].event = worker[y].event
        /\ worker'[y].item = worker[y].item /\ worker'[y].text = worker[y].text
        /\ worker'[y].tries = worker[y].tries
        /\ worker[y].step = "idle" => worker'[y] = worker[y]
  BY <1>4
<1>6. index' \in [Base!Items -> IndexRow] /\ chunks' \in [Base!Items -> Written]
  BY DEF BaseInv, BaseTypes
<1>7. Base!IndexedIsTrue' BY DEF BaseInv, Base!IndexedIsTrue
<1>8. \A i \in Base!Items : index'[i].attempts = index[i].attempts \/ index'[i].attempts = 0 OBVIOUS
<1>9. \A j \in Base!Items :
        Settled(j) /\ (worker[x].item = j => worker[x].step = "delete") => Settled(j)'
  BY DEF Settled
<1>10. F = {} => \A j \in Base!Items : Follows(j, x) => Settled(j)' BY DEF Follows
<1>11. UNCHANGED <<alone, item, file, request, asked>> OBVIOUS
<1>. QED BY <1>4, <1>5, <1>6, <1>7, <1>8, <1>9, <1>10, <1>11, RestKeeps

\* Whoever stops, or meets another run's chunks, leaves its row claimed.
LEMMA LosesKeeps ==
  ASSUME Base!KnowledgeAssumption, BaseInv, NEW x \in Indexers, alone => x = Base!First,
         worker[x].step # "idle", Base!Rest(x),
         UNCHANGED <<alone, item, file, request, asked, index, chunks, events>>
  PROVE  BaseInv'
<1> DEFINE F == {Base!Row(x)}
<1>1. /\ Base!Row(x) \in events /\ Base!Row(x) \in Ask /\ Base!Row(x).claimed BY RowOf
<1>2. /\ F \in SUBSET Ask /\ events' = (events \ {Base!Row(x)}) \cup F
      /\ \A f \in F : f.n = Base!Row(x).n /\ f.item = Base!Row(x).item
      /\ \A f, g \in F : f = g
      /\ \A f \in F : f.claimed
      /\ F # {}
  BY <1>1
<1>3. worker' = [worker EXCEPT ![x] = Base!Resting] BY DEF Base!Rest
<1>4. UNCHANGED <<alone, item, file, request, asked, index, chunks>> OBVIOUS
<1> HIDE DEF F
<1>. QED BY <1>2, <1>3, <1>4, LeaveKeeps

\* An indexer that dies.
LEMMA StopKeeps ==
  ASSUME Base!KnowledgeAssumption, BaseInv, NEW x \in Indexers, alone => x = Base!First, Base!Stop(x)
  PROVE  BaseInv'
<1>1. /\ worker[x].step # "idle" /\ Base!Rest(x)
      /\ UNCHANGED <<alone, item, file, request, asked, index, chunks, events>>
  BY DEF Base!Stop, Base!base, Base!indexVars
<1>. QED BY <1>1, LosesKeeps

\* The row of a run that ended.
LEMMA DeleteKeeps ==
  ASSUME Base!KnowledgeAssumption, BaseInv, NEW x \in Indexers, alone => x = Base!First, Base!Delete(x)
  PROVE  BaseInv'
<1>1. PICK F \in SUBSET Ask : F = {} OBVIOUS
<1>2. /\ worker[x].step = "delete" /\ worker' = [worker EXCEPT ![x] = Base!Resting]
      /\ UNCHANGED <<alone, item, file, request, asked, index, chunks>>
  BY DEF Base!Delete, Base!Rest, Base!base
<1>3. events' = (events \ {Base!Row(x)}) \cup F BY <1>1 DEF Base!Delete
<1>. QED BY <1>1, <1>2, <1>3, LeaveKeeps

\* After a transient error the run gives up, or its row waits for another.
LEMMA RetryKeeps ==
  ASSUME Base!KnowledgeAssumption, BaseInv, NEW x \in Indexers, alone => x = Base!First, Base!Retry(x)
  PROVE  BaseInv'
<1>1. worker[x].step = "retry" BY DEF Base!Retry
<1>2. CASE worker[x].tries >= MaxRetries BY <1>1, <1>2, GivesUpKeeps
<1>3. CASE ~(worker[x].tries >= MaxRetries)
  <2>1. /\ UNCHANGED <<alone, item, file, request, asked, index, chunks>>
        /\ worker' = [worker EXCEPT ![x] = Base!Resting]
    BY <1>3 DEF Base!Retry, Base!Rest, Base!base
  <2>2. worker[x].tries < MaxRetries
    <3>1. worker[x].tries \in Nat BY <1>1, AtWork DEF WorkerRow
    <3>. QED BY <1>3, <3>1 DEF Base!KnowledgeAssumption
  <2>3. PICK f \in Ask :
          /\ events' = (events \ {Base!Row(x)}) \cup {f}
          /\ f.n = Base!Row(x).n /\ f.item = Base!Row(x).item
    <3>1. PICK e \in Ask : e = Base!Row(x) BY <1>1, RowOf
    <3> DEFINE f == [e EXCEPT !.claimed = FALSE, !.waits = TRUE]
    <3>2. \A b, c \in BOOLEAN :
            /\ [e EXCEPT !.claimed = b, !.waits = c] \in Ask
            /\ [e EXCEPT !.claimed = b, !.waits = c].n = e.n
            /\ [e EXCEPT !.claimed = b, !.waits = c].item = e.item
      BY DEF Ask
    <3>3. TRUE \in BOOLEAN /\ FALSE \in BOOLEAN BY Zenon
    <3>4. f \in Ask /\ f.n = e.n /\ f.item = e.item BY <3>2, <3>3, Zenon
    <3>5. events' = (events \ {Base!Row(x)}) \cup {f} BY <1>3, <3>1 DEF Base!Retry
    <3>. QED BY <3>1, <3>4, <3>5, Zenon
  <2>4. PICK F \in SUBSET Ask : F = {f} BY <2>3
  <2>5. /\ events' = (events \ {Base!Row(x)}) \cup F
        /\ \A g \in F : g.n = Base!Row(x).n /\ g.item = Base!Row(x).item
        /\ \A g, h \in F : g = h
        /\ F # {}
    BY <2>3, <2>4
  <2>. QED BY <1>1, <2>1, <2>2, <2>4, <2>5, LeaveKeeps
<1>. QED BY <1>2, <1>3

\* The transaction makes the index state true of the chunks it writes; a lone indexer that
\* read the current text has settled the item.
LEMMA ReplaceKeeps ==
  ASSUME Base!KnowledgeAssumption, BaseInv, NEW x \in Indexers, alone => x = Base!First, Base!Replace(x)
  PROVE  BaseInv'
<1>1. worker[x].step = "replace" BY DEF Base!Replace
<1>2. /\ worker \in [Indexers -> WorkerRow] /\ index \in [Base!Items -> IndexRow]
      /\ worker[x].text \in Texts /\ worker[x].text # Bare
  BY <1>1, AtWork
<1>3. PICK i \in Base!Items : i = worker[x].item BY <1>1, AtWork
<1>4. CASE worker[x].clash
  <2>1. /\ Base!Rest(x) /\ UNCHANGED <<alone, item, file, request, asked, index, chunks, events>>
    BY <1>4 DEF Base!Replace, Base!base
  <2>2. worker[x].step # "idle" BY <1>1
  <2>. QED BY <2>1, <2>2, LosesKeeps
<1>5. CASE ~worker[x].clash
  <2>1. PICK t \in Texts : t = worker[x].text /\ t # Bare /\ t \in Written BY <1>2 DEF Written
  <2>2. /\ UNCHANGED <<alone, item, file, request, asked>>
        /\ chunks' = [chunks EXCEPT ![i] = t]
        /\ events' = events \ {Base!Row(x)}
        /\ index' = [index EXCEPT ![i] =
             [status |-> "indexed", of |-> t, counted |-> TRUE, attempts |-> 0]]
    BY <1>3, <1>5, <2>1 DEF Base!Replace, Base!base
  <2>3. PICK q \in IndexRow :
          /\ index' = [index EXCEPT ![i] = q]
          /\ q.status = "indexed" /\ q.of = t /\ q.counted /\ q.attempts = 0
    <3> DEFINE q(b) == [status |-> "indexed", of |-> t, counted |-> b, attempts |-> 0]
    <3>1. \A b \in BOOLEAN : q(b) \in IndexRow BY <2>1 DEF IndexRow
    <3>2. TRUE \in BOOLEAN BY Zenon
    <3>3. q(TRUE) \in IndexRow BY <3>1, <3>2, Zenon
    <3>4. q(TRUE).status = "indexed" /\ q(TRUE).of = t /\ q(TRUE).counted /\ q(TRUE).attempts = 0
      OBVIOUS
    <3>5. index' = [index EXCEPT ![i] = q(TRUE)] BY <2>2
    <3>. QED BY <3>3, <3>4, <3>5, Zenon
  <2>4. /\ index' \in [Base!Items -> IndexRow] /\ index'[i] = q
        /\ \A j \in Base!Items : j # i => index'[j] = index[j]
    BY <1>2, <2>3, IndexSet
  <2>5. /\ chunks' \in [Base!Items -> Written] /\ chunks'[i] = t
        /\ \A j \in Base!Items : j # i => chunks'[j] = chunks[j]
    <3>1. chunks \in [Base!Items -> Written] BY DEF BaseInv, BaseTypes
    <3>. QED BY <2>1, <2>2, <3>1
  <2>6. Base!IndexedIsTrue'
    <3>1. ASSUME NEW j \in Base!Items
          PROVE  /\ index'[j].status = "indexed" =>
                      chunks'[j] = index'[j].of /\ index'[j].counted /\ chunks'[j] # Bare
                 /\ index'[j].status \in {"none", "not_indexed"} =>
                      index'[j].of = NoText /\ ~index'[j].counted
      <4>1. CASE j = i BY <2>1, <2>3, <2>4, <2>5, <4>1
      <4>2. CASE j # i BY <2>4, <2>5, <4>2 DEF BaseInv, Base!IndexedIsTrue
      <4>. QED BY <4>1, <4>2
    <3>. QED BY <3>1 DEF Base!IndexedIsTrue
  <2>7. \A j \in Base!Items : index'[j].attempts = index[j].attempts \/ index'[j].attempts = 0
    BY <2>3, <2>4
  <2>8. /\ worker' \in [Indexers -> WorkerRow] /\ worker'[x] = Base!Resting
        /\ \A y \in Indexers : y # x =>
             /\ worker'[y].step = worker[y].step /\ worker'[y].event = worker[y].event
             /\ worker'[y].item = worker[y].item /\ worker'[y].text = worker[y].text
             /\ worker'[y].tries = worker[y].tries
             /\ worker[y].step = "idle" => worker'[y] = worker[y]
    <3>1. worker' = [y \in Indexers |->
             CASE y = x -> Base!Resting
               [] y # x /\ worker[y].step = "replace" /\ worker[y].item = i ->
                    [worker[y] EXCEPT !.clash = TRUE]
               [] OTHER -> worker[y]]
      BY <1>3, <1>5 DEF Base!Replace
    <3>2. worker'[x] = Base!Resting BY <3>1
    <3>3. ASSUME NEW y \in Indexers, y # x
          PROVE  /\ worker'[y] \in WorkerRow
                 /\ worker'[y].step = worker[y].step /\ worker'[y].event = worker[y].event
                 /\ worker'[y].item = worker[y].item /\ worker'[y].text = worker[y].text
                 /\ worker'[y].tries = worker[y].tries
                 /\ worker[y].step = "idle" => worker'[y] = worker[y]
      <4>1. PICK w \in WorkerRow : w = worker[y] BY <1>2
      <4>2. \A b \in BOOLEAN :
              /\ [w EXCEPT !.clash = b] \in WorkerRow
              /\ [w EXCEPT !.clash = b].step = w.step /\ [w EXCEPT !.clash = b].event = w.event
              /\ [w EXCEPT !.clash = b].item = w.item /\ [w EXCEPT !.clash = b].text = w.text
              /\ [w EXCEPT !.clash = b].tries = w.tries
        BY DEF WorkerRow
      <4>3. TRUE \in BOOLEAN BY Zenon
      <4>4. PICK v \in WorkerRow :
              /\ v = [w EXCEPT !.clash = TRUE]
              /\ v.step = w.step /\ v.event = w.event
              /\ v.item = w.item /\ v.text = w.text /\ v.tries = w.tries
        BY <4>2, <4>3, Zenon
      <4>5. CASE worker[y].step = "replace" /\ worker[y].item = i
        <5>1. worker'[y] = v BY <3>1, <3>3, <4>1, <4>4, <4>5
        <5>. QED BY <4>1, <4>4, <4>5, <5>1
      <4>6. CASE ~(worker[y].step = "replace" /\ worker[y].item = i)
        <5>1. worker'[y] = w BY <3>1, <3>3, <4>1, <4>6
        <5>. QED BY <4>1, <5>1
      <4>. QED BY <4>5, <4>6
    <3>4. worker' \in [Indexers -> WorkerRow]
      <4>1. \A y \in Indexers : worker'[y] \in WorkerRow BY <3>2, <3>3, RestingRow
      <4>2. worker' = [y \in Indexers |-> worker'[y]] BY <3>1
      <4>. QED BY <4>1, <4>2
    <3>. QED BY <3>2, <3>3, <3>4
  <2>9. \A j \in Base!Items :
          Settled(j) /\ (worker[x].item = j => worker[x].step = "delete") => Settled(j)'
    BY <1>1, <1>3, <2>2, <2>4, <2>5 DEF Settled
  <2>10. PICK F \in SUBSET Ask : F = {} OBVIOUS
  <2>11. F = {} => \A j \in Base!Items : Follows(j, x) => Settled(j)'
    <3>1. ASSUME NEW j \in Base!Items, Follows(j, x) PROVE Settled(j)'
      <4>1. j = i /\ t = item[i].text BY <1>1, <1>3, <2>1, <3>1 DEF Follows
      <4>2. item'[i].text = t BY <2>2, <4>1
      <4>. QED BY <2>3, <2>4, <2>5, <4>1, <4>2 DEF Settled
    <3>. QED BY <3>1
  <2>12. events' = (events \ {Base!Row(x)}) \cup F BY <2>2, <2>10
  <2>13. /\ \A f \in F : f.n = Base!Row(x).n /\ f.item = Base!Row(x).item
         /\ \A f, g \in F : f = g
         /\ ~ \E f \in F : ~f.claimed
         /\ worker[x].step # "idle"
         /\ UNCHANGED <<alone, item, file, request, asked>>
    BY <1>1, <2>2, <2>10
  <2>. QED BY <2>4, <2>5, <2>6, <2>7, <2>8, <2>9, <2>10, <2>11, <2>12, <2>13, RestKeeps
<1>. QED BY <1>4, <1>5

\* A row that is written again under its number.
LEMMA RowWritten ==
  ASSUME BaseInv, NEW e \in events, NEW f \in Ask, f.n = e.n, f.item = e.item,
         events' = (events \ {e}) \cup {f}
  PROVE  /\ e \in Ask /\ e.n \in 1..asked /\ e.item \in Base!Items
         /\ events' \in SUBSET Ask /\ f \in events'
         /\ \A g \in events' : \E h \in events : h.n = g.n /\ h.item = g.item
         /\ \A g, h \in events' : g.n = h.n => g = h
         /\ \A g \in events' : g = f \/ (g \in events /\ g.n # e.n)
         /\ \A h \in events : h = e \/ (h \in events' /\ h.n # e.n)
<1>1. e \in Ask /\ e.item \in Base!Items BY DEF BaseInv, BaseTypes, Ask
<1>2. e.n \in 1..asked BY DEF BaseInv, RowInv
<1>3. events' \in SUBSET Ask /\ f \in events' BY DEF BaseInv, BaseTypes
<1>4. \A g, h \in events : g.n = h.n => g = h BY DEF BaseInv, RowInv
<1>5. \A g \in events' : g = f \/ (g \in events /\ g.n # e.n) BY <1>4
<1>6. \A h \in events : h = e \/ (h \in events' /\ h.n # e.n) BY <1>4
<1>7. \A g \in events' : \E h \in events : h.n = g.n /\ h.item = g.item BY <1>5
<1>8. \A g, h \in events' : g.n = h.n => g = h BY <1>4, <1>5
<1>. QED BY <1>1, <1>2, <1>3, <1>5, <1>6, <1>7, <1>8

\* Nothing of what is indexed changes.
LEMMA IndexAsItWas ==
  ASSUME BaseInv, UNCHANGED <<index, chunks>>
  PROVE  /\ index' \in [Base!Items -> IndexRow] /\ chunks' \in [Base!Items -> Written]
         /\ Base!IndexedIsTrue'
         /\ \A i \in Base!Items : index'[i].attempts = index[i].attempts \/ index'[i].attempts = 0
BY DEF BaseInv, BaseTypes, Base!IndexedIsTrue

\* A delay that is over changes nothing of who claimed what.
LEMMA BecomeDueKeeps ==
  ASSUME Base!KnowledgeAssumption, BaseInv, NEW e \in events, Base!BecomeDue(e)
  PROVE  BaseInv'
<1>1. /\ UNCHANGED <<alone, item, file, request, asked, index, chunks, worker>>
  BY DEF Base!BecomeDue, Base!base
<1>2. PICK f \in Ask :
        /\ events' = (events \ {e}) \cup {f}
        /\ f.n = e.n /\ f.item = e.item /\ f.claimed = e.claimed
  <2> DEFINE f == [e EXCEPT !.waits = FALSE]
  <2>1. e \in Ask BY DEF BaseInv, BaseTypes
  <2>2. \A b \in BOOLEAN :
          /\ [e EXCEPT !.waits = b] \in Ask /\ [e EXCEPT !.waits = b].n = e.n
          /\ [e EXCEPT !.waits = b].item = e.item /\ [e EXCEPT !.waits = b].claimed = e.claimed
    BY <2>1 DEF Ask
  <2>3. FALSE \in BOOLEAN BY Zenon
  <2>4. f \in Ask /\ f.n = e.n /\ f.item = e.item /\ f.claimed = e.claimed BY <2>2, <2>3, Zenon
  <2>5. events' = (events \ {e}) \cup {f} BY DEF Base!BecomeDue
  <2>. QED BY <2>4, <2>5, Zenon
<1>3. /\ e.n \in 1..asked /\ events' \in SUBSET Ask /\ f \in events'
      /\ \A g \in events' : \E h \in events : h.n = g.n /\ h.item = g.item
      /\ \A g, h \in events' : g.n = h.n => g = h
      /\ \A g \in events' : g = f \/ (g \in events /\ g.n # e.n)
      /\ \A h \in events : h = e \/ (h \in events' /\ h.n # e.n)
  BY <1>2, RowWritten
<1>4. /\ \A h \in events : \E g \in events' : g.n = h.n /\ g.item = h.item /\ g.claimed = h.claimed
      /\ \A g \in events' : \E h \in events : g.n = h.n /\ g.item = h.item /\ g.claimed = h.claimed
  BY <1>2, <1>3
<1>5. worker' \in [Indexers -> WorkerRow] BY <1>1 DEF BaseInv, BaseTypes
<1>6. WorkersInv'
  <2>1. ASSUME NEW x \in Indexers PROVE WorkerInv(x)'
    <3>1. WorkerInv(x) BY DEF BaseInv, WorkersInv
    <3>2. worker[x].step # "idle" =>
            \E g \in events' : g.n = worker[x].event /\ g.item = worker[x].item /\ g.claimed
      BY <1>4, <3>1 DEF WorkerInv
    <3>. QED BY <1>1, <3>1, <3>2 DEF WorkerInv
  <2>. QED BY <1>1, <2>1 DEF BaseInv, WorkersInv
<1>7. \A n \in 1..asked : MayEmbed(n)' => MayEmbed(n) BY <1>1, <1>4 DEF MayEmbed
<1>8. ConvergeInv'
  <2>1. ASSUME NEW j \in Base!Items, Waits(j, Base!First) PROVE Waits(j, Base!First)'
    BY <1>1, <1>4, <2>1 DEF Waits
  <2>2. ASSUME NEW j \in Base!Items PROVE /\ Follows(j, Base!First) => Follows(j, Base!First)'
                                          /\ Settled(j) => Settled(j)'
    BY <1>1 DEF Follows, Settled
  <2>. QED BY <1>1, <2>1, <2>2 DEF BaseInv, ConvergeInv
<1>9. UNCHANGED <<alone, item, file, request, asked>> /\ UNCHANGED <<index, chunks>> BY <1>1
<1>. QED BY <1>3, <1>5, <1>6, <1>7, <1>8, <1>9, IndexAsItWas, RowStep

\* Whoever claims a row follows its item.
LEMMA ClaimKeeps ==
  ASSUME Base!KnowledgeAssumption, BaseInv, NEW x \in Indexers, alone => x = Base!First, Base!Claim(x)
  PROVE  BaseInv'
<1>1. /\ worker[x].step = "idle"
      /\ UNCHANGED <<alone, item, file, request, asked, index, chunks>>
  BY DEF Base!Claim, Base!base
<1>2. PICK e \in events :
        /\ ~e.claimed
        /\ events' = (events \ {e}) \cup {[e EXCEPT !.claimed = TRUE]}
        /\ worker' = [worker EXCEPT ![x] =
             [Base!Resting EXCEPT !.step = "read", !.event = e.n, !.item = e.item]]
  BY DEF Base!Claim, Base!Due
<1>3. PICK f \in Ask :
        events' = (events \ {e}) \cup {f} /\ f.n = e.n /\ f.item = e.item /\ f.claimed
  <2> DEFINE f == [e EXCEPT !.claimed = TRUE]
  <2>1. e \in Ask BY DEF BaseInv, BaseTypes
  <2>2. \A b \in BOOLEAN :
          /\ [e EXCEPT !.claimed = b] \in Ask /\ [e EXCEPT !.claimed = b].n = e.n
          /\ [e EXCEPT !.claimed = b].item = e.item /\ [e EXCEPT !.claimed = b].claimed = b
    BY <2>1 DEF Ask
  <2>3. TRUE \in BOOLEAN BY Zenon
  <2>4. f \in Ask /\ f.n = e.n /\ f.item = e.item /\ f.claimed = TRUE BY <2>2, <2>3, Zenon
  <2>5. f.claimed BY <2>4
  <2>6. events' = (events \ {e}) \cup {f} BY <1>2
  <2>. QED BY <2>4, <2>5, <2>6, Zenon
<1>4. /\ e \in Ask /\ e.n \in 1..asked /\ e.item \in Base!Items
      /\ events' \in SUBSET Ask /\ f \in events'
      /\ \A g \in events' : \E h \in events : h.n = g.n /\ h.item = g.item
      /\ \A g, h \in events' : g.n = h.n => g = h
      /\ \A g \in events' : g = f \/ (g \in events /\ g.n # e.n)
      /\ \A h \in events : h = e \/ (h \in events' /\ h.n # e.n)
  BY <1>3, RowWritten
<1>5. PICK r \in WorkerRow :
        /\ worker' = [worker EXCEPT ![x] = r]
        /\ r.step = "read" /\ r.event = e.n /\ r.item = e.item
  <2> DEFINE r == [Base!Resting EXCEPT !.step = "read", !.event = e.n, !.item = e.item]
  <2>1. PICK w \in WorkerRow : w = Base!Resting BY RestingRow
  <2>2. e.n \in Nat BY <1>4 DEF Ask
  <2>3. [w EXCEPT !.step = "read", !.event = e.n, !.item = e.item] \in WorkerRow
    BY <1>4, <2>1, <2>2 DEF WorkerRow
  <2>4. r \in WorkerRow BY <2>1, <2>3
  <2>5. r.step = "read" /\ r.event = e.n /\ r.item = e.item BY DEF Base!Resting
  <2>. QED BY <1>2, <2>4, <2>5, Zenon
<1>6. /\ worker' \in [Indexers -> WorkerRow] /\ worker'[x] = r
      /\ \A y \in Indexers : y # x => worker'[y] = worker[y]
  <2>1. worker \in [Indexers -> WorkerRow] BY DEF BaseInv, BaseTypes
  <2>. QED BY <1>5, <2>1, WorkerSet
<1>7. \A y \in Indexers : worker[y].step # "idle" => worker[y].event # e.n
  <2>1. ASSUME NEW y \in Indexers, worker[y].step # "idle", worker[y].event = e.n PROVE FALSE
    <3>1. WorkerInv(y) BY DEF BaseInv, WorkersInv
    <3>2. PICK h \in events : h.n = worker[y].event /\ h.claimed BY <2>1, <3>1 DEF WorkerInv
    <3>3. h = e BY <1>4, <2>1, <3>2
    <3>. QED BY <1>2, <3>2, <3>3
  <2>. QED BY <2>1
<1>8. WorkersInv'
  <2>1. ASSUME NEW y \in Indexers PROVE WorkerInv(y)'
    <3>1. CASE y = x BY <1>3, <1>4, <1>5, <1>6, <3>1 DEF WorkerInv
    <3>2. CASE y # x
      <4>1. WorkerInv(y) /\ worker'[y] = worker[y] BY <1>6, <3>2 DEF BaseInv, WorkersInv
      <4>2. worker[y].step # "idle" =>
              \E g \in events' : g.n = worker[y].event /\ g.item = worker[y].item /\ g.claimed
        BY <1>4, <1>7, <4>1 DEF WorkerInv
      <4>. QED BY <4>1, <4>2 DEF WorkerInv
    <3>. QED BY <3>1, <3>2
  <2>2. \A y, z \in Indexers :
          worker'[y].step # "idle" /\ worker'[z].step # "idle" /\ worker'[y].event = worker'[z].event
            => y = z
    BY <1>5, <1>6, <1>7 DEF BaseInv, WorkersInv
  <2>3. \A y \in Indexers : alone' /\ y # Base!First => worker'[y].step = "idle"
    BY <1>1, <1>6 DEF BaseInv, WorkersInv
  <2>. QED BY <2>1, <2>2, <2>3 DEF WorkersInv
<1>9. ASSUME NEW n \in 1..asked, MayEmbed(n)' PROVE MayEmbed(n)
  <2>1. CASE \E g \in events' : g.n = n /\ ~g.claimed BY <1>3, <1>4, <2>1 DEF MayEmbed
  <2>2. CASE \E y \in Indexers :
               /\ worker'[y].event = n
               /\ \/ worker'[y].step \in {"read", "mark", "extract", "compare", "embed"}
                  \/ worker'[y].step = "retry" /\ worker'[y].tries < MaxRetries
    <3>1. PICK y \in Indexers :
            /\ worker'[y].event = n
            /\ \/ worker'[y].step \in {"read", "mark", "extract", "compare", "embed"}
               \/ worker'[y].step = "retry" /\ worker'[y].tries < MaxRetries
      BY <2>2
    <3>2. CASE y = x BY <1>2, <1>5, <1>6, <3>1, <3>2 DEF MayEmbed
    <3>3. CASE y # x BY <1>6, <3>1, <3>3 DEF MayEmbed
    <3>. QED BY <3>2, <3>3
  <2>. QED BY <1>9, <2>1, <2>2 DEF MayEmbed
<1>10. ConvergeInv'
  <2>1. ASSUME alone, NEW j \in Base!Items, item[j].status = "published" PROVE Cared(j)'
    <3>1. x = Base!First BY <2>1
    <3>2. Cared(j) BY <2>1, ConvergeIsCared DEF BaseInv
    <3>3. CASE e.item = j BY <1>5, <1>6, <3>1, <3>3 DEF Cared, Follows
    <3>4. CASE e.item # j
      <4>1. CASE Waits(j, x)
        <5>1. PICK h \in events : h.item = j BY <4>1 DEF Waits
        <5>2. h \in events' /\ h.n # e.n BY <1>4, <3>4, <5>1
        <5>. QED BY <1>5, <1>6, <3>1, <5>1, <5>2 DEF Cared, Waits
      <4>2. CASE Settled(j)
        <5>1. Settled(j)' BY <1>1, <4>2 DEF Settled
        <5>. QED BY <1>5, <1>6, <3>1, <3>4, <5>1 DEF Cared
      <4>3. ~Follows(j, x) BY <1>1 DEF Follows
      <4>. QED BY <3>1, <3>2, <4>1, <4>2, <4>3 DEF Cared
    <3>. QED BY <3>3, <3>4
  <2>. QED BY <1>1, <2>1 DEF ConvergeInv, Cared
<1>11. UNCHANGED <<alone, item, file, request, asked>> /\ UNCHANGED <<index, chunks>> BY <1>1
<1>. QED BY <1>4, <1>6, <1>8, <1>9, <1>10, <1>11, IndexAsItWas, RowStep

\* Staff, the indexers that run and the delays.
LEMMA BaseStep ==
  ASSUME Base!KnowledgeAssumption, BaseInv, Base!Next
  PROVE  BaseInv'
<1>1. ASSUME NEW x \in Base!Running, Base!Work(x) \/ Base!Stop(x) PROVE BaseInv'
  <2>1. Base!First \in Indexers BY DEF Base!KnowledgeAssumption, Base!First
  <2>2. x \in Indexers /\ (alone => x = Base!First) BY <2>1 DEF Base!Running
  <2>. QED
    BY <1>1, <2>2, ClaimKeeps, ReadKeeps, MarkKeeps, ExtractKeeps, CompareKeeps, EmbedKeeps,
       RetryKeeps, ReplaceKeeps, DeleteKeeps, StopKeeps DEF Base!Work
<1>. QED BY <1>1, StaffStep, BecomeDueKeeps DEF Base!Next

\* The attempts are bounded by the requests there were: each raises them past the limit at
\* most once.
LEMMA BaseTyped ==
  ASSUME Base!KnowledgeAssumption, BaseInv
  PROVE  Base!TypeOK
<1>1. \A i \in Base!Items :
        item[i].text \in Texts \cup {NoText} /\ (item[i].text = NoText <=> item[i].status = "none")
  BY DEF BaseInv, BaseTypes, ItemInv, Written
<1>2. \A d \in Documents : item[d].status # "none" => file[d] BY DEF BaseInv, ItemInv
<1>3. \A i \in Base!Items : index[i].attempts \in 0..(MaxRetries + MaxEvents)
  <2>1. asked \in Nat /\ asked <= MaxEvents /\ MaxEvents \in Nat /\ MaxRetries \in Nat
    BY DEF BaseInv, BaseTypes, Base!KnowledgeAssumption
  <2>2. Cardinality(Spent) \in Nat /\ Cardinality(Spent) <= asked BY <2>1, SpentFinite
  <2>3. ASSUME NEW i \in Base!Items PROVE index[i].attempts \in 0..(MaxRetries + MaxEvents)
    <3>1. index[i].attempts \in Nat /\ index[i].attempts < MaxRetries + Cardinality(Spent)
      BY DEF BaseInv, BaseTypes, AttemptsInv, IndexRow
    <3>. QED BY <2>1, <2>2, <3>1
  <2>. QED BY <2>3
<1>4. \A x \in Indexers : worker[x].step \notin {"idle", "read"} => worker[x].text \in Texts
  BY DEF BaseInv, WorkersInv, WorkerInv
<1>5. events \subseteq [n : 1..asked, item : Base!Items, claimed : BOOLEAN, waits : BOOLEAN]
  <2>1. \A e \in events : e \in Ask /\ e.n \in 1..asked BY DEF BaseInv, BaseTypes, RowInv
  <2>. QED BY <2>1 DEF Ask
<1>. QED BY <1>1, <1>2, <1>3, <1>4, <1>5 DEF Base!TypeOK

\* Where no row of an item is left, it is settled.
LEMMA BaseConverged ==
  ASSUME Base!KnowledgeAssumption, BaseInv
  PROVE  Base!Converged
<1>1. ASSUME alone, NEW i \in Base!Items, item[i].status = "published", \A e \in events : e.item # i
      PROVE  Settled(i)
  <2>1. Cared(i) BY <1>1, ConvergeIsCared DEF BaseInv
  <2>2. ~Waits(i, Base!First) BY <1>1 DEF Waits
  <2>3. ASSUME Follows(i, Base!First) PROVE FALSE
    <3>1. PICK x \in Indexers : x = Base!First /\ worker[x].step # "idle" /\ worker[x].item = i
      <4>1. Base!First \in Indexers BY DEF Base!KnowledgeAssumption, Base!First
      <4>. QED BY <2>3, <4>1 DEF Follows
    <3>2. Base!Row(x) \in events /\ Base!Row(x).item = i BY <3>1, RowOf
    <3>. QED BY <1>1, <3>2
  <2>. QED BY <2>1, <2>2, <2>3 DEF Cared
<1>. QED BY <1>1 DEF Base!Converged, Base!Published, Base!Retrieved, Settled

-----------------------------------------------------------------------------
(* The three of them, of which a behaviour runs one.                       *)

\* The inductive invariant of the whole.
SettingsInv == CallsInv /\ AgentInv /\ BaseInv

\* What the instance assumes of the constants.
LEMMA Assumed ==
  Base!KnowledgeAssumption /\ Agent!SettingsAssumption /\ Calls!CallsAssumption
BY SettingsAssumption

\* The beginning and every step.
LEMMA SettingsStart == Init => SettingsInv
BY Assumed, CallsStart, AgentStart, BaseStart DEF Init, SettingsInv

\* A step of another part changes nothing of the calls,
LEMMA CallsRest ==
  ASSUME CallsInv, UNCHANGED callVars
  PROVE  CallsInv'
BY DEF CallsInv, CallTypes, Position, Heard, Calls!StreamIsCoherent, Calls!Ends, Calls!Here, callVars

\* ... nor of the agent's settings,
LEMMA AgentRests ==
  ASSUME AgentInv, UNCHANGED <<promptVars, agentVars, writer>>
  PROVE  AgentInv'
BY DEF AgentInv, AgentTypes, Saving, HoldsRow, Restores, HoldsLive, Agent!NothingOverwritten,
     promptVars, agentVars

\* ... nor of the knowledge base.
LEMMA BaseRests ==
  ASSUME BaseInv, UNCHANGED baseVars
  PROVE  BaseInv'
<1>1. UNCHANGED <<alone, item, file, index, chunks, events, asked, request, worker>> BY DEF baseVars
<1>2. BaseTypes' /\ ItemInv' /\ RequestInv' /\ RowInv'
  BY <1>1 DEF BaseInv, BaseTypes, ItemInv, RequestInv, RowInv
<1>3. WorkersInv' BY <1>1 DEF BaseInv, WorkersInv, WorkerInv
<1>4. AttemptsInv' BY <1>1 DEF BaseInv, AttemptsInv, Spent, MayEmbed
<1>5. Base!IndexedIsTrue' BY <1>1 DEF BaseInv, Base!IndexedIsTrue
<1>6. ConvergeInv' BY <1>1 DEF BaseInv, ConvergeInv, Waits, Follows, Settled
<1>. QED BY <1>2, <1>3, <1>4, <1>5, <1>6 DEF BaseInv

\* A step is one of one part.
LEMMA SettingsStep == SettingsInv /\ [Next]_vars => SettingsInv'
<1> SUFFICES ASSUME CallsInv, AgentInv, BaseInv, [Next]_vars PROVE CallsInv' /\ AgentInv' /\ BaseInv'
  BY DEF SettingsInv
<1>1. CASE Base!Next /\ OfKnowledge
  BY <1>1, Assumed, BaseStep, AgentRests, CallsRest DEF OfKnowledge
<1>2. CASE OfPrompt /\ Agent!PromptNext
  BY <1>2, Assumed, PromptStep, BaseRests, CallsRest DEF OfPrompt
<1>3. CASE OfAgent /\ Agent!AgentNext
  BY <1>3, Assumed, AgentStep, BaseRests, CallsRest DEF OfAgent
<1>4. CASE OfCalls /\ Calls!Next
  BY <1>4, Assumed, CallsStep, BaseRests, AgentRests DEF OfCalls
<1>5. CASE UNCHANGED vars
  BY <1>5, BaseRests, AgentRests, CallsRest DEF vars
<1>. QED BY <1>1, <1>2, <1>3, <1>4, <1>5 DEF Next

\* All of it holds in every state.
THEOREM SettingsInvariance == Spec => []SettingsInv
<1>1. Init => SettingsInv BY SettingsStart
<1>2. SettingsInv /\ [Next]_vars => SettingsInv' BY SettingsStep
<1>. QED BY <1>1, <1>2, PTL DEF Spec

\* The types of all three: an item's attempts stay within the limit and the requests there
\* were, a document has its file, a lock its transaction, a call its place in the plan.
THEOREM TypeCorrect == Spec => []TypeOK
<1>1. SettingsInv => TypeOK
  BY Assumed, CallsTyped, AgentTyped, BaseTyped DEF SettingsInv, TypeOK
<1>. QED BY <1>1, SettingsInvariance, PTL

\* The index state tells the truth about the chunks, for any number of indexers; a lone one
\* leaves the current text of what is published to retrieval (indexer.rs, index_state.rs).
THEOREM IndexTruthful == Spec => []IndexTellsTruth
<1>1. SettingsInv => IndexTellsTruth
  BY Assumed, BaseConverged DEF SettingsInv, BaseInv, IndexTellsTruth
<1>. QED BY <1>1, SettingsInvariance, PTL

\* Nobody overwrites a prompt or a configuration he was not shown, and an uploaded avatar is
\* shown exactly while there is one (prompt_store.rs, agent_config.rs, agent_routes.rs).
THEOREM NothingLost == Spec => []NothingOverwritten
<1>1. SettingsInv => NothingOverwritten
  BY DEF SettingsInv, AgentInv, NothingOverwritten
<1>. QED BY <1>1, SettingsInvariance, PTL

\* A consumer reads the text of one try of one provider, and nothing after its end; the
\* ledger has one row, of who answered, that says what he heard (ai/src/service.rs, usage.rs).
THEOREM StreamCoherent == Spec => []StreamIsCoherent
<1>1. SettingsInv => StreamIsCoherent
  BY DEF SettingsInv, CallsInv, StreamIsCoherent
<1>. QED BY <1>1, SettingsInvariance, PTL

=============================================================================
