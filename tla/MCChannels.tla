----------------------------- MODULE MCChannels -----------------------------
(***************************************************************************)
(* A small instance of the channel modules over one connection: staff      *)
(* change it while deliveries, replies or a customer's messages pass       *)
(* through it; of the visitors of the website; of the members who are      *)
(* connected to the dashboard; and of somebody who pages through a list.   *)
(* A behaviour has one kind of traffic, and less of something where it is  *)
(* the conjuncts of an Of... action that say so.                           *)
(***************************************************************************)
EXTENDS Integrations

CONSTANTS
  Replies, Notices, Senders, Hooks, MaxDeaths, NoMessage,
  Wamids, Illustrated, Webhooks, Fetchers, MaxFetches, MaxLapses,
  MaxChangesInTraffic, \* bound: MaxChanges where messages come in or a notice leaves
  Sessions, Customers, Numbers, Conversations, Ratings, Handlers, MaxStaffActs, Nobody,
  Members, Streams, NoMember, MaxToggles, MaxConnects, MaxRestarts,
  Talks, MaxWrites, PageLimit, MaxClock, MaxPatches

VARIABLES
  part,
  numbered, posted, queue, meta, known, sent, sender, hook, died,
  customer, open, made, stored, lost, lapses, webhook, media, fetcher,
  widget, session, ids, rows, conversation, newer, feedback, visit, acts,
  available, present, stream, sleeping, reverting, unwatched, budget,
  now, write, activity, ended, patches, walk

Sender == INSTANCE WhatsAppSender WITH Webhooks <- Hooks, webhook <- hook
Inbound == INSTANCE WhatsAppInbound
Site == INSTANCE Visitors WITH request <- visit
Dashboard == INSTANCE Presence
Pages == INSTANCE Paging

ASSUME ChannelsAssumption ==
  /\ Sender!SenderAssumption /\ Inbound!InboundAssumption
  /\ Site!VisitorsAssumption /\ Dashboard!PresenceAssumption
  /\ Pages!PagingAssumption

senderVars == <<numbered, posted, queue, meta, known, sent, sender, hook, died>>
inboundVars == <<customer, open, made, stored, lost, lapses, webhook, media, fetcher>>
siteVars == <<widget, session, ids, rows, conversation, newer, feedback, visit, acts>>
presenceVars == <<available, present, stream, sleeping, reverting, unwatched, budget>>
pagingVars == <<now, write, activity, ended, patches, walk>>
vars == <<part, connVars, senderVars, inboundVars, siteVars, presenceVars, pagingVars>>

ChannelsInit ==
  /\ part \in {"deliveries", "replies", "messages", "media", "visitors", "dashboard", "pages"}
  /\ Init /\ Sender!Init /\ Inbound!Init /\ Site!Init /\ Dashboard!Init /\ Pages!Init

OfStaff ==
  /\ part \notin {"visitors", "dashboard", "pages"}
  /\ part = "messages" \/ posted \cap Notices # {} => changes < MaxChangesInTraffic
  /\ part = "media" => changes < MaxChangesInTraffic \/ request' = request
  /\ Staff
  /\ part = "messages" => \E r \in Requests : \A q \in Requests \ {r} : request'[q] = "idle"
  /\ UNCHANGED <<part, senderVars, inboundVars, siteVars, presenceVars, pagingVars>>
OfDeliveries ==
  /\ part = "deliveries" /\ Outside
  /\ UNCHANGED <<part, senderVars, inboundVars, siteVars, presenceVars, pagingVars>>
OfReplies ==
  /\ part = "replies" /\ Sender!Next
  /\ posted' \cap Notices # {} => changes <= MaxChangesInTraffic /\ numbered'
  /\ UNCHANGED <<part, request, delivery, inboundVars, siteVars, presenceVars, pagingVars>>
OfMessages ==
  /\ part \in {"messages", "media"} /\ Inbound!Next
  /\ \A h \in Webhooks :
       webhook'[h] # Inbound!Quiet => (part = "media" <=> webhook'[h].wamid \in Illustrated)
  /\ UNCHANGED <<part, request, delivery, senderVars, siteVars, presenceVars, pagingVars>>
OfVisitors ==
  /\ part = "visitors" /\ Site!Next
  /\ Cardinality(rows') > 1 => acts' < MaxStaffActs
  /\ UNCHANGED <<part, connVars, senderVars, inboundVars, presenceVars, pagingVars>>
OfDashboard ==
  /\ part = "dashboard" /\ Dashboard!Next
  /\ UNCHANGED <<part, connVars, senderVars, inboundVars, siteVars, pagingVars>>
OfPages ==
  /\ part = "pages" /\ Pages!Next
  /\ UNCHANGED <<part, connVars, senderVars, inboundVars, siteVars, presenceVars>>

Next == OfStaff \/ OfDeliveries \/ OfReplies \/ OfMessages \/ OfVisitors \/ OfDashboard \/ OfPages

Fairness ==
  /\ \A s \in Senders : WF_vars(OfReplies /\ Sender!Work(s))
  /\ \A f \in Fetchers : WF_vars(OfMessages /\ Inbound!Work(f))

Spec == ChannelsInit /\ [][Next]_vars /\ Fairness

\* The types of all six.
TypeOK ==
  /\ ConnTypeOK /\ Sender!TypeOK /\ Inbound!TypeOK /\ Site!TypeOK
  /\ Dashboard!TypeOK /\ Pages!TypeOK

\* What leaves or enters through a connection does so only while it is on, or was when
\* the call or the delivery began: no reply claimed and no delivery received after
\* staff disconnected passes, not even on a secret that an update, begun before, put
\* back after.  Nor does a member stay available without a stream of the dashboard: a
\* revert is on its way (Presence).
OnlyWhileConnected ==
  /\ \A s \in Senders : sender[s].step = "call" => OnSince(sender[s].at)
  /\ \A d \in Deliveries : delivery[d].step = "record" => OnSince(delivery[d].at)
  /\ Dashboard!AbsentAreReverted

\* No reply is sent twice (WhatsAppSender), and no message is stored twice, or without its
\* customer, however often the provider delivers it (WhatsAppInbound); and none is shown
\* twice, or left out, to somebody who pages through a conversation (Paging).
NoMessageTwice == Sender!SentOnce /\ Inbound!InboundOnce /\ Pages!PagesAreWhole

\* A queued reply ends (WhatsAppSender) and so does every medium (WhatsAppInbound).
EveryTransferEnds == Sender!EveryReplyEnds /\ Inbound!EveryMediumEnds

\* WhatsAppSender: statuses only rise (whatsapp/src/queries.rs:104).
StatusNeverRegresses == Sender!StatusNeverRegresses

\* Visitors: an open conversation stays with its visitor, a rating and an identifier with
\* theirs.
VisitorKeepsPlace == Site!VisitorKeepsPlace

=============================================================================
