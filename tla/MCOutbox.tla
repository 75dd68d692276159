------------------------------ MODULE MCOutbox ------------------------------
(***************************************************************************)
(* Small instances of two consumers of outbox_events that share no row:    *)
(* invitation mails and notifications, either of tool requests and         *)
(* assignments or of escalations, with one event more but no mishap.  A    *)
(* behaviour is one of these, the other part of the state stays as it      *)
(* begins.                                                                 *)
(***************************************************************************)
EXTENDS Naturals, FiniteSets

CONSTANTS
  Mails, Senders, Configured, MaxAttempts, MaxDeaths, NoMail,
  Members, Escalations, Tools, Conversations, Workers, MaxEvents, MaxMishaps, Nobody

VARIABLES
  part,
  row, status, call, received, died,
  eligible, stage, handlers, drain, queue, clock, worker, inbox, cleared, late,
  failures, deaths, removals

Delivery == INSTANCE InvitationDelivery
Notification == INSTANCE Notifications

ASSUME OutboxAssumption == Delivery!MailAssumption /\ Notification!NotificationAssumption

mailVars == <<row, status, call, received, died>>
noteVars == <<eligible, stage, handlers, drain, queue, clock, worker, inbox, cleared, late,
              failures, deaths, removals>>
vars == <<part, mailVars, noteVars>>

Init == part \in {"delivery", "requests", "escalations"} /\ Delivery!Init /\ Notification!Init

OfMails == part = "delivery" /\ UNCHANGED <<part, noteVars>>
OfNotifications ==
  /\ \/ /\ part = "requests" /\ clock' < MaxEvents /\ UNCHANGED drain
        /\ \A e \in Escalations : UNCHANGED stage[e]
     \/ /\ part = "escalations" /\ failures' + deaths' + removals' = 0
        /\ \A s \in Tools \cup Conversations : UNCHANGED <<stage[s], handlers[s]>>
  /\ UNCHANGED <<part, mailVars>>

Next == (OfMails /\ Delivery!Next) \/ (Notification!Next /\ OfNotifications)

\* The fairness of either specification, of its own behaviours.
Fairness ==
  /\ \A s \in Senders : WF_vars(OfMails /\ Delivery!Work(s))
  /\ \A m \in Mails : WF_vars(OfMails /\ Delivery!LeaseEnds(m)) /\ WF_vars(OfMails /\ Delivery!Due(m))
  /\ \A w \in Workers : WF_vars(Notification!Work(w) /\ OfNotifications)

FairSpec == Init /\ [][Next]_vars /\ Fairness

\* The types of both.
TypeOK == Delivery!TypeOK /\ Notification!TypeOK

\* InvitationDelivery: the status staff see agrees with how the row ended.
StatusTellsTheRow == Delivery!StatusTellsTheRow

\* InvitationDelivery: every delivery ends, whichever calls die.
EveryMailEnds == part = "delivery" => Delivery!EveryMailEnds

\* Notifications: a resolution clears the subject for all but who took it and who is told of
\* it even later, nobody loses what he alone took, and what was read or resolved is never
\* unread again, although events are handled twice and out of order and drains assign over
\* claims.
InboxSettles == Notification!InboxSettles

\* Notifications: every member who may decide is told, unless a worker died.
EverybodyIsTold == Notification!EverybodyIsTold

=============================================================================
