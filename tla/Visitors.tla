------------------------------- MODULE Visitors -------------------------------
(***************************************************************************)
(* The customers of one tenant and the visitors of its website widget      *)
(* (customers/src, widgets/src, feedback/src).  A visitor has a session,   *)
(* for 24 hours after its last request; his first conversation makes him a *)
(* customer, who is known by an identifier: his session on the channel     *)
(* "widget", or a number on "phone" or "whatsapp".                         *)
(*                                                                         *)
(* A handler reads the session when it enters and writes in a transaction  *)
(* later; what it read stays in request[h].  Names, contact fields and     *)
(* message texts are left out.                                             *)
(***************************************************************************)
EXTENDS Naturals, FiniteSets

CONSTANTS
  Sessions,       \* bound: sessions ever begun
  Customers,      \* bound: rows of customers
  Numbers,        \* telephone numbers
  Conversations,  \* bound: conversations ever opened
  Ratings,        \* 1 to 5 in the code
  Handlers,       \* requests of visitors at once
  MaxStaffActs,   \* bound: what staff do to customers, conversations and the widget
  Nobody

VisitorsAssumption ==
  /\ MaxStaffActs \in Nat
  /\ Nobody \notin Sessions \cup Customers \cup Conversations \cup Ratings

VARIABLES
  widget,        \* "none", "enabled", "disabled" or "deleted"
  session,       \* widget_sessions
  ids,           \* customer_channel_identifiers that are live, of every customer; no row: {} and not in rows
  rows,          \* customers
  conversation,  \* conversations
  newer,         \* which conversations have the later last_activity_at
  feedback,      \* conversation_feedback: its rating
  request,       \* what each running handler has read
  acts           \* of staff so far

visitorVars == <<widget, session, ids, rows, conversation, newer, feedback, request, acts>>

Widget(s) == <<"widget", s>>
Identifiers == ({"widget"} \X Sessions) \cup ({"phone", "whatsapp"} \X Numbers)
Holders(i) == {c \in rows : i \in ids[c]}

NoSession == [status |-> "none", customer |-> Nobody]
NoConversation == [customer |-> Nobody, status |-> "none"]
Idle == [op |-> "none", session |-> Nobody, customer |-> Nobody, of |-> Nobody]
Ops == {"none", "open", "insert", "say", "said", "rate", "rated"}

Init ==
  /\ widget = "none"
  /\ session = [s \in Sessions |-> NoSession]
  /\ ids = [c \in Customers |-> {}] /\ rows = {}
  /\ conversation = [v \in Conversations |-> NoConversation]
  /\ newer = {}
  /\ feedback = [v \in Conversations |-> Nobody]
  /\ request = [h \in Handlers |-> Idle]
  /\ acts = 0

-----------------------------------------------------------------------------
(* Staff: the widget, and the customers.                                   *)

Act == acts < MaxStaffActs /\ acts' = acts + 1

\* The identifier of a new row.
New(S, used) == CHOOSE x \in S : x \notin used

\* create_instance, enabled whatever the payload says of it.
CreateWidget ==
  /\ Act /\ widget = "none"
  /\ widget' = "enabled"
  /\ UNCHANGED <<session, ids, rows, conversation, newer, feedback, request>>

UpdateWidget(to) ==
  /\ Act /\ widget \in {"enabled", "disabled"} \ {to}
  /\ widget' = to
  /\ UNCHANGED <<session, ids, rows, conversation, newer, feedback, request>>

DeleteWidget ==
  /\ Act /\ widget \in {"enabled", "disabled"}
  /\ widget' = "deleted"
  /\ UNCHANGED <<session, ids, rows, conversation, newer, feedback, request>>

\* validate_channel_value: "widget" is not a channel that staff may name.
Nameable == Identifiers \ ({"widget"} \X Sessions)

\* A payload names no identifier twice; whatever else it holds is left out.
Payloads == SUBSET Nameable

\* try_insert_identifier: the live unique index.
Insertable(new, c) == \A i \in new : Holders(i) \subseteq {c}

\* create_customer: a conflict leaves no row behind.
CreateCustomer(new) ==
  LET c == New(Customers, rows) IN
  /\ Act /\ rows # Customers
  /\ Insertable(new, c)
  /\ rows' = rows \cup {c}
  /\ ids' = [ids EXCEPT ![c] = new]
  /\ UNCHANGED <<widget, session, conversation, newer, feedback, request>>

\* update_customer locks the row and skips a set that is the same.
Changes(c, new) == c \in rows /\ new # ids[c]

\* update_customer with identifiers: replaces all of them, or none.
UpdateCustomer(c, new) ==
  /\ Act /\ Changes(c, new)
  /\ Insertable(new, c)
  /\ ids' = [ids EXCEPT ![c] = new]
  /\ UNCHANGED <<widget, session, rows, conversation, newer, feedback, request>>

Open(c) == {v \in Conversations : conversation[v] = [customer |-> c, status |-> "open"]}

Begun == {v \in Conversations : conversation[v] # NoConversation}

\* A message sets last_activity_at to the time its transaction began: what began later
\* and committed before stays later.  Which of two customers wrote later is left out.
Bump(v) ==
  LET others == {u \in Begun \ {v} : conversation[u].customer = conversation'[v].customer}
  IN \E later \in SUBSET others :
       /\ \A u \in later, w \in others : <<w, u>> \in newer => w \in later
       /\ newer' = {p \in newer : p[1] # v /\ p[2] # v} \cup (later \X {v})
                      \cup ({v} \X (others \ later))

AddConversation(c) ==
  LET v == New(Conversations, Begun) IN
  /\ Begun # Conversations
  /\ conversation' = [conversation EXCEPT ![v] = [customer |-> c, status |-> "open"]]
  /\ Bump(v)

\* create_conversation of staff: whether another is open is not asked.
OpenByStaff(c) ==
  /\ Act /\ c \in rows
  /\ AddConversation(c)
  /\ UNCHANGED <<widget, session, ids, rows, feedback, request>>

\* patch_conversation: staff resolve, or open again.
SetStatus(v, to) ==
  /\ Act /\ conversation[v].status \in {"open", "ended"} \ {to}
  /\ conversation' = [conversation EXCEPT ![v].status = to]
  /\ UNCHANGED <<widget, session, ids, rows, newer, feedback, request>>

\* add_message_in_tx: a reply of staff, or a message they log, opens it again.
Reply(v) ==
  /\ Act /\ v \in Begun
  /\ conversation' = [conversation EXCEPT ![v].status = "open"]
  /\ Bump(v)
  /\ UNCHANGED <<widget, session, ids, rows, feedback, request>>

\* An answer of the AI, an acknowledgement, or a message over WhatsApp.
Answer(v) ==
  /\ v \in Begun
  /\ UNCHANGED conversation /\ Bump(v)
  /\ UNCHANGED <<widget, session, ids, rows, feedback, request, acts>>

\* process_message: a message over WhatsApp begins a conversation on its own channel.
OpenByNumber(c) ==
  /\ \E n \in Numbers : <<"whatsapp", n>> \in ids[c]
  /\ AddConversation(c)
  /\ UNCHANGED <<widget, session, ids, rows, feedback, request, acts>>

\* Mutant: attaches the identifier ON CONFLICT DO NOTHING.
CreateAnyway(i) ==
  LET c == New(Customers, rows) IN
  /\ rows # Customers
  /\ rows' = rows \cup {c}
  /\ ids' = [ids EXCEPT ![c] = IF Holders(i) = {} THEN {i} ELSE {}]

\* A new customer with its only identifier.
CreateWith(i) ==
  LET c == New(Customers, rows) IN
  /\ rows # Customers /\ Holders(i) = {}
  /\ rows' = rows \cup {c}
  /\ ids' = [ids EXCEPT ![c] = {i}]

\* resolve_customer_in_tx, for the first message of a number: the holder of the number's
\* whatsapp identifier, else of its telephone number, else a new customer.
Writes(n) ==
  /\ Holders(<<"whatsapp", n>>) = {}
  /\ \/ \E c \in Holders(<<"phone", n>>) :
          ids' = [ids EXCEPT ![c] = @ \cup {<<"whatsapp", n>>}] /\ UNCHANGED rows
     \/ /\ Holders(<<"phone", n>>) = {}
        /\ CreateWith(<<"whatsapp", n>>)
  /\ UNCHANGED <<widget, session, conversation, newer, feedback, request, acts>>

-----------------------------------------------------------------------------
(* Sessions.                                                               *)

\* create_session: a widget that is disabled gives sessions as well.
CreateSession(s) ==
  /\ widget \in {"enabled", "disabled"} /\ session[s].status = "none"
  /\ session' = [session EXCEPT ![s].status = "valid"]
  /\ UNCHANGED <<widget, ids, rows, conversation, newer, feedback, request, acts>>

\* Time: 24 hours without a request.
Elapse(s) ==
  /\ session[s].status = "valid"
  /\ session' = [session EXCEPT ![s].status = "overdue"]
  /\ UNCHANGED <<widget, ids, rows, conversation, newer, feedback, request, acts>>

\* delete_expired_sessions, every six hours.
Sweep ==
  /\ \E s \in Sessions : session[s].status = "overdue"
  /\ session' = [s \in Sessions |-> IF session[s].status = "overdue"
                                    THEN [NoSession EXCEPT !.status = "gone"] ELSE session[s]]
  /\ UNCHANGED <<widget, ids, rows, conversation, newer, feedback, request, acts>>

\* authenticate_session, at the head of every handler of a visitor; the identifier of no
\* conversation is answered like that of another's.
Begin(h, s, op, v) ==
  /\ request[h] = Idle /\ session[s].status = "valid"
  /\ op = "open" <=> v = Nobody
  /\ v \in Begun \cup {Nobody}
  /\ request' = [request EXCEPT ![h] =
       [op |-> op, session |-> s, customer |-> session[s].customer, of |-> v]]
  /\ UNCHANGED <<widget, session, ids, rows, conversation, newer, feedback, acts>>

Over(h) == request' = [request EXCEPT ![h] = Idle]

-----------------------------------------------------------------------------
(* create_conversation.                                                    *)

\* set_session_customer, unless the sweep has deleted the row.
Link(s, c) ==
  session' = IF session[s].status = "gone" THEN session
             ELSE [session EXCEPT ![s].customer = c]

\* ensure_customer_for_session: of the session as it was read when the handler entered.
OpenFirst(h) ==
  LET s == request[h].session
      c == New(Customers, rows) IN
  /\ request[h].op = "open" /\ request[h].customer = Nobody
  /\ CreateWith(Widget(s))
  /\ Link(s, c)
  /\ AddConversation(c)
  /\ Over(h)
  /\ UNCHANGED <<widget, feedback, acts>>

\* Another handler made the customer: the insert fails and the answer is a 500.
OpenFails(h) ==
  /\ request[h].op = "open" /\ request[h].customer = Nobody
  /\ Holders(Widget(request[h].session)) # {}
  /\ Over(h)
  /\ UNCHANGED <<widget, session, ids, rows, conversation, newer, feedback, acts>>

\* The latest open conversation of the customer, on any channel; the read locks nothing.
FindOpen(h) ==
  /\ request[h].op = "open" /\ request[h].customer # Nobody
  /\ IF Open(request[h].customer) # {} THEN Over(h)
     ELSE request' = [request EXCEPT ![h].op = "insert"]
  /\ UNCHANGED <<widget, session, ids, rows, conversation, newer, feedback, acts>>

OpenAnother(h) ==
  /\ request[h].op = "insert"
  /\ AddConversation(request[h].customer)
  /\ Over(h)
  /\ UNCHANGED <<widget, session, ids, rows, feedback, acts>>

-----------------------------------------------------------------------------
(* send_message and submit_feedback.                                       *)

Own(h) == request[h].customer # Nobody /\ conversation[request[h].of].customer = request[h].customer
Ended(h) == conversation[request[h].of].status = "ended"

\* 404 for another's conversation, 409 or 422 for the wrong status.
Refused(h) ==
  /\ request[h].op \in {"say", "rate"}
  /\ ~ Own(h) \/ (request[h].op = "say" <=> Ended(h))
  /\ Over(h)
  /\ UNCHANGED <<widget, session, ids, rows, conversation, newer, feedback, acts>>

CheckOpen(h) ==
  /\ request[h].op = "say" /\ Own(h) /\ ~ Ended(h)
  /\ request' = [request EXCEPT ![h].op = "said"]
  /\ UNCHANGED <<widget, session, ids, rows, conversation, newer, feedback, acts>>

\* add_message_in_tx: the message opens the conversation again if it ended meanwhile.
Say(h) ==
  LET v == request[h].of IN
  /\ request[h].op = "said"
  /\ conversation' = [conversation EXCEPT ![v].status = "open"]
  /\ Bump(v)
  /\ Over(h)
  /\ UNCHANGED <<widget, session, ids, rows, feedback, acts>>

CheckEnded(h) ==
  /\ request[h].op = "rate" /\ Own(h) /\ Ended(h)
  /\ request' = [request EXCEPT ![h].op = "rated"]
  /\ UNCHANGED <<widget, session, ids, rows, conversation, newer, feedback, acts>>

\* Mutant: ON CONFLICT DO UPDATE.
RatedAgain(v, rating) == rating

\* insert_feedback: ON CONFLICT DO NOTHING; a second rating is answered with the first.
Rated(v, rating) == IF feedback[v] = Nobody THEN rating ELSE feedback[v]

Rate(h, rating) ==
  LET v == request[h].of IN
  /\ request[h].op = "rated"
  /\ feedback' = [feedback EXCEPT ![v] = Rated(v, rating)]
  /\ Over(h)
  /\ UNCHANGED <<widget, session, ids, rows, conversation, newer, acts>>

-----------------------------------------------------------------------------
Staff ==
  \/ CreateWidget \/ DeleteWidget
  \/ \E to \in {"enabled", "disabled"} : UpdateWidget(to)
  \/ \E new \in Payloads :
       CreateCustomer(new) \/ \E c \in Customers : UpdateCustomer(c, new)
  \/ \E c \in Customers : OpenByStaff(c)
  \/ \E v \in Conversations : Reply(v)
  \/ \E v \in Conversations, to \in {"open", "ended"} : SetStatus(v, to)

Visitor(h) ==
  \/ \E s \in Sessions :
       \/ Begin(h, s, "open", Nobody)
       \/ \E op \in {"say", "rate"}, v \in Conversations : Begin(h, s, op, v)
  \/ OpenFirst(h) \/ OpenFails(h) \/ FindOpen(h) \/ OpenAnother(h)
  \/ Refused(h) \/ CheckOpen(h) \/ Say(h) \/ CheckEnded(h)
  \/ \E rating \in Ratings : Rate(h, rating)

Next ==
  \/ Staff
  \/ \E h \in Handlers : Visitor(h)
  \/ \E s \in Sessions : CreateSession(s) \/ Elapse(s)
  \/ Sweep
  \/ \E n \in Numbers : Writes(n)
  \/ \E c \in Customers : OpenByNumber(c)
  \/ \E v \in Conversations : Answer(v)

-----------------------------------------------------------------------------
\* The type invariant.
TypeOK ==
  /\ acts \in 0..MaxStaffActs
  /\ widget \in {"none", "enabled", "disabled", "deleted"}
  /\ session \in [Sessions -> [status : {"none", "valid", "overdue", "gone"},
                               customer : rows \cup {Nobody}]]
  /\ rows \subseteq Customers /\ ids \in [Customers -> SUBSET Identifiers]
  /\ conversation \in [Conversations -> [customer : rows \cup {Nobody},
                                         status : {"none", "open", "ended"}]]
  /\ newer \subseteq Conversations \X Conversations
  /\ feedback \in [Conversations -> Ratings \cup {Nobody}]
  /\ request \in [Handlers -> [op : Ops, session : Sessions \cup {Nobody},
                               customer : rows \cup {Nobody}, of : Conversations \cup {Nobody}]]

\* get_conversation shows a visitor one conversation, on any channel: the open one of his
\* customer with the latest activity.
Shown(s) ==
  {v \in Open(session[s].customer) :
     \A u \in Open(session[s].customer) : <<u, v>> \notin newer}

\* A visitor keeps his place: the conversation he is shown goes on being shown to him while
\* his session lasts, until it ends or another open one of the same customer has a later
\* message, however his requests cross, unless staff took his session from his customer's
\* identifiers; a rating is never replaced; and no identifier goes from one customer to
\* another in one change (widgets/src/public_routes.rs:258 and queries.rs:100,
\* feedback/src/queries.rs:42, customers/src/routes.rs:119).
VisitorKeepsPlace ==
  [][ /\ \A s \in Sessions : session[s].customer # Nobody =>
           \/ \A v \in Shown(s) :
                \/ v \in Shown(s)' \/ conversation'[v].status = "ended"
                \/ \E u \in Conversations :
                     /\ conversation'[u] = [customer |-> session[s].customer, status |-> "open"]
                     /\ <<u, v>> \in newer'
           \/ session'[s].status = "gone"
           \/ Holders(Widget(s)) = {}
      /\ \A v \in Conversations : feedback[v] # Nobody => feedback'[v] = feedback[v]
      /\ \A c, d \in rows, i \in Identifiers :
           c # d /\ i \in ids[c] => i \notin ids'[d] ]_visitorVars

=============================================================================
