--------------------------- MODULE WhatsAppSender ---------------------------
(***************************************************************************)
(* The way of a reply to WhatsApp (whatsapp/src/sender.rs) and of its      *)
(* delivery status back (whatsapp/src/webhook.rs).                         *)
(*                                                                         *)
(* A worker claims the row of a message by deleting it, before anything    *)
(* else; then every step reads afresh.  The provider's statuses come in    *)
(* any order, twice or never, to webhooks that run at once.                *)
(***************************************************************************)
EXTENDS Naturals, FiniteSets

CONSTANTS
  Replies,     \* messages of staff and of the AI
  Notices,     \* acknowledgements and fallbacks: messages of kind system
  Senders,     \* workers, one per server
  Webhooks,    \* status updates handled at once
  MaxDeaths,   \* bound: workers that die or whose statement fails
  NoMessage

Messages == Replies \cup Notices

\* What the constants are; the instance assumes it.
SenderAssumption == MaxDeaths \in Nat /\ NoMessage \notin Messages

VARIABLES
  conn, changes,  \* of Integrations
  numbered, \* the customer they go to has a live identifier on whatsapp
  posted,   \* messages there are
  queue,    \* rows of outbox_events, by message
  meta,     \* delivery_status of whatsapp_message_meta, "none" without a row
  known,    \* messages whose wamid is stored
  sent,     \* how often the provider has taken a message
  sender, webhook, died

senderVars == <<numbered, posted, queue, meta, known, sent, sender, webhook, died>>

Statuses == {"none", "pending", "sent", "delivered", "read", "failed"}
Rank == [pending |-> 0, sent |-> 1, delivered |-> 2, read |-> 3, failed |-> 99]

Idle == [step |-> "idle", message |-> NoMessage, at |-> 0]
Quiet == [message |-> NoMessage, new |-> "none"]

Init ==
  /\ numbered = TRUE /\ posted = {} /\ queue = {} /\ known = {} /\ died = 0
  /\ meta = [m \in Messages |-> "none"]
  /\ sent = [m \in Messages |-> 0]
  /\ sender = [s \in Senders |-> Idle]
  /\ webhook = [h \in Webhooks |-> Quiet]

-----------------------------------------------------------------------------
\* add_message of staff, the engine and the responder, with their message.  Only staff
\* look at the connection first.
Emit(m) ==
  /\ m \notin posted
  /\ posted' = posted \cup {m}
  /\ queue' = queue \cup {m}
  /\ UNCHANGED <<conn, changes, numbered, meta, known, sent, sender, webhook, died>>

\* update_customer: staff take the number from the customer, or give it back.
EditNumber ==
  /\ numbered' = ~numbered
  /\ UNCHANGED <<conn, changes, posted, queue, meta, known, sent, sender, webhook, died>>

\* Mutant: the row is read and stays until it is sent.
ClaimByReading(s) ==
  /\ sender[s] = Idle
  /\ \E m \in queue :
       sender' = [sender EXCEPT ![s] = [step |-> "prepare", message |-> m, at |-> changes]]
  /\ UNCHANGED <<conn, changes, numbered, posted, queue, meta, known, sent, webhook, died>>

\* claim_outbound_event.
Claim(s) ==
  /\ sender[s] = Idle
  /\ \E m \in queue :
       /\ queue' = queue \ {m}
       /\ sender' = [sender EXCEPT ![s] = [step |-> "prepare", message |-> m, at |-> changes]]
  /\ UNCHANGED <<conn, changes, numbered, posted, meta, known, sent, webhook, died>>

To(s, step) == sender' = [sender EXCEPT ![s].step = step]

Stop(s) == sender' = [sender EXCEPT ![s] = Idle]

\* message_body_for_outbound knows no body for a notice, and a customer may have no
\* number by now: the error ends its way without a row of its own.
Prepare(s) ==
  LET m == sender[s].message IN
    /\ sender[s].step = "prepare"
    /\ IF m \in Replies /\ numbered
         THEN /\ To(s, "window")
              /\ meta' = [meta EXCEPT ![m] = IF @ = "none" THEN "pending" ELSE @]
         ELSE Stop(s) /\ UNCHANGED meta
    /\ UNCHANGED <<conn, changes, numbered, posted, queue, known, sent, webhook, died>>

\* Mutant: the worker returns and tells nobody.
FailSilently(s) == Stop(s) /\ UNCHANGED meta

\* set_outbound_failed_in_tx.
Fail(s) ==
  /\ Stop(s)
  /\ meta' = [meta EXCEPT ![sender[s].message] = "failed"]

\* The customer's last message is older than a day, or not.
CheckWindow(s) ==
  /\ sender[s].step = "window"
  /\ \E open \in BOOLEAN : IF open THEN To(s, "connection") /\ UNCHANGED meta ELSE Fail(s)
  /\ UNCHANGED <<conn, changes, numbered, posted, queue, known, sent, webhook, died>>

\* Mutant: a connection that was switched off is found, too.
AnyConnection == conn.state # "never"

\* active_connection_for_slug.
ActiveConnection == conn.state = "on"

FindConnection(s) ==
  /\ sender[s].step = "connection"
  /\ IF ActiveConnection THEN To(s, "token") /\ UNCHANGED meta ELSE Fail(s)
  /\ UNCHANGED <<conn, changes, numbered, posted, queue, known, sent, webhook, died>>

\* There is a secret, and it does not open (Integrations).
Sealed == conn.secret # 0 /\ conn.secret <= conn.key

\* decrypted_secret: one that is missing ends as failed, one that does not open is an
\* error, which leaves the row pending.
FindToken(s) ==
  /\ sender[s].step = "token"
  /\ \/ conn.secret = 0 /\ Fail(s)
     \/ conn.secret > conn.key /\ To(s, "call") /\ UNCHANGED meta
     \/ Sealed /\ Stop(s) /\ UNCHANGED meta
  /\ UNCHANGED <<conn, changes, numbered, posted, queue, known, sent, webhook, died>>

\* send_text: a call that fails may have been taken all the same.
CallProvider(s) ==
  LET m == sender[s].message IN
    /\ sender[s].step = "call"
    /\ \E taken \in {0, 1}, result \in {"sent", "failed"} :
         /\ result = "sent" => taken = 1
         /\ sent' = [sent EXCEPT ![m] = @ + taken]
         /\ To(s, result)
    /\ UNCHANGED <<conn, changes, numbered, posted, queue, meta, known, webhook, died>>

RecordSent(s) ==
  /\ sender[s].step = "sent"
  /\ Stop(s)
  /\ meta' = [meta EXCEPT ![sender[s].message] = "sent"]
  /\ known' = known \cup {sender[s].message}
  /\ UNCHANGED <<conn, changes, numbered, posted, queue, sent, webhook, died>>

RecordFailed(s) ==
  /\ sender[s].step = "failed"
  /\ Fail(s)
  /\ UNCHANGED <<conn, changes, numbered, posted, queue, known, sent, webhook, died>>

Die(s) ==
  /\ sender[s] # Idle
  /\ died < MaxDeaths
  /\ died' = died + 1
  /\ Stop(s)
  /\ UNCHANGED <<conn, changes, numbered, posted, queue, meta, known, sent, webhook>>

-----------------------------------------------------------------------------
(* handle_status_update.                                                   *)

\* Mutant: matched by something every message has, instead of the wamid.
ReadAnyStatus(h) ==
  /\ webhook[h] = Quiet
  /\ conn.state = "on"
  /\ \E m \in posted, new \in {"sent", "delivered", "read", "failed"} :
       /\ meta[m] # "none"
       /\ Rank[new] > Rank[meta[m]]
       /\ webhook' = [webhook EXCEPT ![h] = [message |-> m, new |-> new]]
  /\ UNCHANGED <<conn, changes, numbered, posted, queue, meta, known, sent, sender, died>>

\* update_status_by_wamid_in_tx reads what is there; a wamid not stored yet is unknown.
ReadStatus(h) ==
  /\ webhook[h] = Quiet
  /\ conn.state = "on"
  /\ \E m \in known, new \in {"sent", "delivered", "read", "failed"} :
       /\ Rank[new] > Rank[meta[m]]
       /\ webhook' = [webhook EXCEPT ![h] = [message |-> m, new |-> new]]
  /\ UNCHANGED <<conn, changes, numbered, posted, queue, meta, known, sent, sender, died>>

\* And writes, whatever is there by then.
WriteStatus(h) ==
  /\ webhook[h] # Quiet
  /\ meta' = [meta EXCEPT ![webhook[h].message] = webhook[h].new]
  /\ webhook' = [webhook EXCEPT ![h] = Quiet]
  /\ UNCHANGED <<conn, changes, numbered, posted, queue, known, sent, sender, died>>

Work(s) ==
  \/ Claim(s) \/ Prepare(s) \/ CheckWindow(s) \/ FindConnection(s) \/ FindToken(s)
  \/ CallProvider(s) \/ RecordSent(s) \/ RecordFailed(s)

Next ==
  \/ \E m \in Messages : Emit(m)
  \/ EditNumber
  \/ \E s \in Senders : Work(s) \/ Die(s)
  \/ \E h \in Webhooks : ReadStatus(h) \/ WriteStatus(h)

-----------------------------------------------------------------------------
\* Types.
TypeOK ==
  /\ numbered \in BOOLEAN
  /\ queue \subseteq posted /\ posted \subseteq Messages /\ known \subseteq Replies
  /\ meta \in [Messages -> Statuses]
  /\ sent \in [Messages -> Nat]
  /\ \A s \in Senders : sender[s].message \in Messages \cup {NoMessage}
  /\ \A h \in Webhooks : webhook[h] = Quiet \/ webhook[h].message \in known

\* A customer never receives a message twice, whichever worker dies on the way; and one
\* whose status says it arrived, did.
SentOnce ==
  \A m \in Messages :
    /\ sent[m] <= 1
    /\ meta[m] \in {"sent", "delivered", "read"} => sent[m] = 1

\* A reply that is queued is sent or ends as failed, as long as no worker dies, the customer
\* keeps his number and the token opens; otherwise nobody may ever learn that it was not
\* sent (sender.rs:95 and 206).
EveryReplyEnds ==
  \A m \in Replies :
    m \in queue ~> meta[m] \notin {"none", "pending"} \/ died > 0 \/ ~numbered \/ Sealed

\* "Only performs the update if the new status has a strictly higher rank than the
\* current status (monotonicity enforcement)" (whatsapp/src/queries.rs:104).
StatusNeverRegresses ==
  [][\A m \in Messages : meta[m] \in DOMAIN Rank => Rank[meta'[m]] >= Rank[meta[m]]]_senderVars

=============================================================================
