-------------------------- MODULE WhatsAppInbound --------------------------
(***************************************************************************)
(* One customer's messages from WhatsApp (whatsapp/src/inbound.rs) and the *)
(* workers that fetch their media (whatsapp/src/media.rs).                 *)
(*                                                                         *)
(* The provider delivers a message as often as it likes, and webhooks run  *)
(* at once.  process_message is one transaction, but each of its           *)
(* statements sees what is committed by then: only the unique indexes on   *)
(* wamids and on a customer's number hold it together.                     *)
(***************************************************************************)
EXTENDS Naturals, FiniteSets

CONSTANTS
  Wamids,      \* messages of the provider
  Illustrated, \* those that come with a medium
  Webhooks,    \* deliveries handled at once
  Fetchers,    \* media workers, one per server
  MaxFetches,  \* 5 in the code
  MaxLapses,   \* bound: statements that fail, media workers that die
  NoMessage

\* What the constants are; the instance assumes it.
InboundAssumption ==
  /\ MaxFetches \in Nat \ {0} /\ MaxLapses \in Nat
  /\ NoMessage \notin Wamids /\ Illustrated \subseteq Wamids
  /\ IsFiniteSet(Fetchers) /\ IsFiniteSet(Webhooks)

VARIABLES
  conn, changes,  \* of Integrations
  customer,  \* the number belongs to a customer
  open,      \* open conversations of his
  made,      \* how many conversations there were
  stored,    \* messages: which wamid in which conversation
  lost,      \* wamids a delivery of which was answered 200 and not stored by it or before
  lapses,    \* statements that failed and media workers that died so far
  webhook,
  media,     \* message_attachments, by wamid
  fetcher

inboundVars == <<customer, open, made, stored, lost, lapses, webhook, media, fetcher>>

Quiet == [step |-> "idle", wamid |-> NoMessage, known |-> FALSE, conversation |-> 0]
Resting == [step |-> "idle", wamid |-> NoMessage]

Init ==
  /\ customer = FALSE /\ open = {} /\ made = 0 /\ stored = {} /\ lost = {} /\ lapses = 0
  /\ webhook = [h \in Webhooks |-> Quiet]
  /\ media = [w \in Wamids |-> [status |-> "none", attempts |-> 0]]
  /\ fetcher = [f \in Fetchers |-> Resting]

Recorded(w) == \E r \in stored : r.wamid = w

-----------------------------------------------------------------------------
\* receive_message, and the first look of process_message.
Receive(h) ==
  /\ webhook[h] = Quiet
  /\ conn.state = "on"
  /\ \E w \in Wamids :
       /\ ~Recorded(w)
       /\ webhook' = [webhook EXCEPT ![h].step = "customer", ![h].wamid = w]
  /\ UNCHANGED <<conn, changes, customer, open, made, stored, lost, lapses, media, fetcher>>

\* Mutant: the number is compared with what staff typed, and never found.
NotFound == FALSE

\* find_customer_by_identifier_in_tx.
Found == customer

\* resolve_customer_in_tx: by the number, or a new one.
ResolveCustomer(h) ==
  /\ webhook[h].step = "customer"
  /\ webhook' = [webhook EXCEPT ![h].step = "conversation", ![h].known = Found]
  /\ UNCHANGED <<conn, changes, customer, open, made, stored, lost, lapses, media, fetcher>>

\* find_open_conversation_in_tx: the most recent one; 0 stands for a new one.
FindConversation(h) ==
  /\ webhook[h].step = "conversation"
  /\ \E c \in IF webhook[h].known /\ open # {} THEN open ELSE {0} :
       webhook' = [webhook EXCEPT ![h].step = "store", ![h].conversation = c]
  /\ UNCHANGED <<conn, changes, customer, open, made, stored, lost, lapses, media, fetcher>>

\* Mutant: no index on (tenant_id, wamid).
NumberFree(h) == ~customer \/ webhook[h].known

\* The unique indexes: the number is nobody's or known, the wamid not stored.
Unique(h) == (~customer \/ webhook[h].known) /\ ~Recorded(webhook[h].wamid)

\* The rest of process_message, committed.
Store(h) ==
  LET w == webhook[h].wamid
      new == webhook[h].conversation = 0
      c == IF new THEN made + 1 ELSE webhook[h].conversation
  IN /\ webhook[h].step = "store"
     /\ Unique(h)
     /\ customer' = TRUE
     /\ made' = IF new THEN made + 1 ELSE made
     /\ open' = IF new THEN open \cup {c} ELSE open
     /\ stored' = stored \cup {[wamid |-> w, conversation |-> c]}
     /\ media' = [media EXCEPT ![w].status = IF w \in Illustrated THEN "pending" ELSE @]
     /\ webhook' = [webhook EXCEPT ![h] = Quiet]
     /\ UNCHANGED <<conn, changes, lost, lapses, fetcher>>

\* Anything that fails is logged, and the provider told it is received.
GiveUp(h) ==
  /\ lost' = IF Recorded(webhook[h].wamid) THEN lost ELSE lost \cup {webhook[h].wamid}
  /\ webhook' = [webhook EXCEPT ![h] = Quiet]
  /\ UNCHANGED <<conn, changes, customer, open, made, stored, media, fetcher>>

Conflict(h) ==
  /\ webhook[h].step = "store" /\ ~Unique(h)
  /\ GiveUp(h)
  /\ UNCHANGED lapses

Lapse == lapses < MaxLapses /\ lapses' = lapses + 1

\* Any other error of the transaction.
Abort(h) ==
  /\ webhook[h] # Quiet
  /\ Lapse
  /\ GiveUp(h)

\* Staff resolve a conversation.
ResolveConversation(c) ==
  /\ c \in open
  /\ open' = open \ {c}
  /\ UNCHANGED <<conn, changes, customer, made, stored, lost, lapses, webhook, media, fetcher>>

-----------------------------------------------------------------------------
\* claim_pending_attachment: its lock ends with its statement, so two workers may hold
\* one attachment.
ClaimMedium(f) ==
  /\ fetcher[f] = Resting
  /\ \E w \in Wamids :
       /\ media[w].status = "pending" /\ media[w].attempts < MaxFetches
       /\ fetcher' = [fetcher EXCEPT ![f] = [step |-> "fetch", wamid |-> w]]
  /\ UNCHANGED <<conn, changes, customer, open, made, stored, lost, lapses, webhook, media>>

\* The connection's token does not open (Integrations).
Unreadable == conn.state = "on" /\ conn.secret # 0 /\ conn.secret <= conn.key

\* The token is there and opens.
Readable == conn.state = "on" /\ conn.secret > conn.key

\* get_tenant_access_token: one that does not open is an error, and the worker leaves
\* without counting the attempt.
LoseHeart(f) ==
  /\ fetcher[f].step = "fetch" /\ Unreadable
  /\ fetcher' = [fetcher EXCEPT ![f] = Resting]
  /\ UNCHANGED <<conn, changes, customer, open, made, stored, lost, lapses, webhook, media>>

\* The address, the bytes and their storage: any may fail; without a connection or its
\* secret it does.
Fetch(f) ==
  /\ fetcher[f].step = "fetch" /\ ~Unreadable
  /\ \E ok \in {FALSE} \cup {Readable} :
       fetcher' = [fetcher EXCEPT ![f].step = IF ok THEN "fetched" ELSE "failed"]
  /\ UNCHANGED <<conn, changes, customer, open, made, stored, lost, lapses, webhook, media>>

Settle(f, new) ==
  /\ media' = [media EXCEPT ![fetcher[f].wamid] = new]
  /\ fetcher' = [fetcher EXCEPT ![f] = Resting]
  /\ UNCHANGED <<conn, changes, customer, open, made, stored, lost, lapses, webhook>>

\* mark_attachment_stored.
StoreMedium(f) ==
  /\ fetcher[f].step = "fetched"
  /\ Settle(f, [media[fetcher[f].wamid] EXCEPT !.status = "stored"])

\* Mutant: one attempt more, which nobody claims.
OneMore(attempts) == attempts > MaxFetches

LastAttempt(attempts) == attempts >= MaxFetches

\* mark_attachment_failed_attempt, whatever the status is by then.
FailMedium(f) ==
  LET m == media[fetcher[f].wamid] IN
    /\ fetcher[f].step = "failed"
    /\ Settle(f, [status |-> IF LastAttempt(m.attempts + 1) THEN "failed" ELSE m.status,
                  attempts |-> m.attempts + 1])

\* A statement fails or the process dies: nothing is counted.
Drop(f) ==
  /\ fetcher[f] # Resting
  /\ Lapse
  /\ fetcher' = [fetcher EXCEPT ![f] = Resting]
  /\ UNCHANGED <<conn, changes, customer, open, made, stored, lost, webhook, media>>

Work(f) == ClaimMedium(f) \/ LoseHeart(f) \/ Fetch(f) \/ StoreMedium(f) \/ FailMedium(f)

Next ==
  \/ \E h \in Webhooks :
       \/ Receive(h) \/ ResolveCustomer(h) \/ FindConversation(h)
       \/ Store(h) \/ Conflict(h) \/ Abort(h)
  \/ \E c \in open : ResolveConversation(c)
  \/ \E f \in Fetchers : Work(f) \/ Drop(f)

-----------------------------------------------------------------------------
\* Types.
TypeOK ==
  /\ customer \in BOOLEAN /\ open \subseteq 1..made
  /\ stored \subseteq [wamid : Wamids, conversation : 1..made]
  /\ lost \subseteq Wamids /\ lapses \in 0..MaxLapses
  /\ \A h \in Webhooks : webhook[h].wamid \in Wamids \cup {NoMessage}
  /\ \A w \in Wamids : media[w].attempts \in 0..(MaxFetches + Cardinality(Fetchers) - 1)

\* However often and however concurrently the provider delivers a message, it appears once,
\* and never without a customer it belongs to.  Messages are lost (webhook.rs:215), but, failed
\* statements apart, only of those handled at once before the number had a customer, and not
\* all of them.
InboundOnce ==
  /\ \A r, q \in stored : r.wamid = q.wamid => r = q
  /\ stored # {} => customer
  /\ lost # {} => Cardinality(lost) < Cardinality(Webhooks) + lapses

\* Every medium of a stored message ends stored or failed, though two workers may fetch
\* it at once, as long as the token opens: otherwise it is tried for ever (media.rs:39).
EveryMediumEnds ==
  \A w \in Illustrated :
    media[w].status = "pending" ~> media[w].status \in {"stored", "failed"} \/ Unreadable

=============================================================================
