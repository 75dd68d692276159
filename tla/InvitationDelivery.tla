------------------------- MODULE InvitationDelivery -------------------------
(***************************************************************************)
(* The worker that mails invitations (tenancy/src/invitations.rs:529), on  *)
(* the rows create_invitation leaves in outbox_events.                     *)
(*                                                                         *)
(* One call of the worker first buries a row whose attempts are used up,   *)
(* else claims a row for five minutes, mails outside any transaction and   *)
(* writes the end in a last one.  Every server runs the worker; a call may *)
(* die anywhere, or take longer than its lease.  A claim raises attempts,  *)
(* so that the number of the attempt stands for its fresh claim_token.     *)
(***************************************************************************)
EXTENDS Naturals, FiniteSets

CONSTANTS
  Mails,        \* invitations with a row in outbox_events
  Senders,      \* calls of the worker that run at once, one per server
  Configured,   \* those whose server has a mail server to send through
  MaxAttempts,  \* 3 in the code
  MaxDeaths,    \* bound: calls that die
  NoMail

\* What the constants are; the instance assumes it.
MailAssumption ==
  /\ MaxAttempts \in Nat \ {0} /\ MaxDeaths \in Nat
  /\ NoMail \notin Mails
  /\ Configured \subseteq Senders

VARIABLES
  row,       \* outbox_events
  status,    \* tenant_invitations.email_delivery_status
  call,      \* what each running call does
  received,  \* how often the mail reached its addressee
  died

vars == <<row, status, call, received, died>>

\* token = 0 for a row nobody claims; leased while claimed_at is younger than five
\* minutes; due once available_at has passed.  A row is dropped when a server without a
\* mail server took it: dead-lettered as well, with another last_error.
Row == [ended : {"no", "processed", "dead-lettered", "dropped"}, attempts : 0..MaxAttempts,
        token : 0..MaxAttempts, leased : BOOLEAN, due : BOOLEAN]
Call == [step : {"idle", "claim", "send", "finish"}, mail : Mails \cup {NoMail},
         token : 0..MaxAttempts, result : {"none", "sent", "failed", "unconfigured"}]

Idle == [step |-> "idle", mail |-> NoMail, token |-> 0, result |-> "none"]

Init ==
  /\ row = [m \in Mails |-> [ended |-> "no", attempts |-> 0, token |-> 0, leased |-> FALSE,
                             due |-> TRUE]]
  /\ status = [m \in Mails |-> "queued"]
  /\ call = [s \in Senders |-> Idle]
  /\ received = [m \in Mails |-> 0]
  /\ died = 0

-----------------------------------------------------------------------------
Unclaimed(m) == row[m].ended = "no" /\ ~row[m].leased

Exhausted(m) == Unclaimed(m) /\ row[m].attempts >= MaxAttempts

\* Mutant: claims are not counted.
OpenForRetry(m) == Unclaimed(m) /\ row[m].due

\* Mutant: only what was never claimed, or was given back.
NeverTaken(m) ==
  Unclaimed(m) /\ row[m].token = 0 /\ row[m].due /\ row[m].attempts < MaxAttempts

Claimable(m) == Unclaimed(m) /\ row[m].due /\ row[m].attempts < MaxAttempts

\* Mutant: the claim is not cleared.
EndedClaimed(m, how) == [row[m] EXCEPT !.ended = how, !.leased = FALSE]

Ended(m, how) == [row[m] EXCEPT !.ended = how, !.token = 0, !.leased = FALSE]

\* The first transaction: bury one row nobody will attempt again.
Bury(s) ==
  /\ call[s].step = "idle"
  /\ \E m \in Mails :
       /\ Exhausted(m)
       /\ row' = [row EXCEPT ![m] = Ended(m, "dead-lettered")]
       /\ status' = [status EXCEPT ![m] = IF @ = "queued" THEN "failed" ELSE @]
  /\ UNCHANGED <<call, received, died>>

NothingToBury(s) ==
  /\ call[s].step = "idle"
  /\ ~\E m \in Mails : Exhausted(m)
  /\ call' = [call EXCEPT ![s].step = "claim"]
  /\ UNCHANGED <<row, status, received, died>>

\* The second: claim a row.
Claim(s) ==
  /\ call[s].step = "claim"
  /\ \E m \in Mails :
       LET attempt == IF row[m].attempts < MaxAttempts THEN row[m].attempts + 1 ELSE MaxAttempts
       IN /\ Claimable(m)
          /\ row' = [row EXCEPT ![m].attempts = attempt, ![m].token = attempt,
                                ![m].leased = TRUE]
          /\ call' = [call EXCEPT ![s] =
               [step |-> "send", mail |-> m, token |-> attempt, result |-> "none"]]
  /\ UNCHANGED <<status, received, died>>

NothingToClaim(s) ==
  /\ call[s].step = "claim"
  /\ ~\E m \in Mails : Claimable(m)
  /\ call' = [call EXCEPT ![s] = Idle]
  /\ UNCHANGED <<row, status, received, died>>

\* send_invitation_email: a mail server that fails may have passed the mail on.
Send(s) ==
  /\ call[s].step = "send"
  /\ \E result \in IF s \in Configured THEN {"sent", "failed"} ELSE {"unconfigured"},
        passed \in {0, 1} :
       /\ result = "sent" => passed = 1
       /\ result = "unconfigured" => passed = 0
       /\ call' = [call EXCEPT ![s].step = "finish", ![s].result = result]
       /\ received' = [received EXCEPT ![call[s].mail] = @ + passed]
  /\ UNCHANGED <<row, status, died>>

\* Mutant: the row is written by its id alone.
HoldsAnyToken(s) == call[s].step = "finish"

\* The claim still stands: nobody claimed or buried the row since.
HoldsClaim(s) == call[s].step = "finish" /\ row[call[s].mail].token = call[s].token

\* A failed attempt before the last gives the row back for the next second.
GiveBack(s) ==
  LET m == call[s].mail IN
    /\ HoldsClaim(s)
    /\ call[s].result = "failed" /\ call[s].token < MaxAttempts
    /\ row' = [row EXCEPT ![m].token = 0, ![m].leased = FALSE, ![m].due = FALSE]
    /\ call' = [call EXCEPT ![s] = Idle]
    /\ UNCHANGED <<status, received, died>>

Outcome == [sent |-> "processed", failed |-> "dead-lettered", unconfigured |-> "dropped"]

\* The last transaction.  Staff are not told of what was dropped.
Finish(s) ==
  LET m == call[s].mail
      result == call[s].result IN
    /\ HoldsClaim(s)
    /\ result = "failed" => call[s].token >= MaxAttempts
    /\ row' = [row EXCEPT ![m] = Ended(m, Outcome[result])]
    /\ status' = [status EXCEPT ![m] =
         IF @ = "queued" /\ result # "unconfigured" THEN result ELSE @]
    /\ call' = [call EXCEPT ![s] = Idle]
    /\ UNCHANGED <<received, died>>

\* Another call has the row by now, or buried it: no row is updated.
ClaimLost(s) ==
  /\ call[s].step = "finish"
  /\ ~HoldsClaim(s)
  /\ call' = [call EXCEPT ![s] = Idle]
  /\ UNCHANGED <<row, status, received, died>>

\* A crash, or an error of the database.
Die(s) ==
  /\ call[s].step # "idle"
  /\ died < MaxDeaths
  /\ died' = died + 1
  /\ call' = [call EXCEPT ![s] = Idle]
  /\ UNCHANGED <<row, status, received>>

-----------------------------------------------------------------------------
(* Time.                                                                   *)

LeaseEnds(m) ==
  /\ row[m].leased
  /\ row' = [row EXCEPT ![m].leased = FALSE]
  /\ UNCHANGED <<status, call, received, died>>

Due(m) ==
  /\ ~row[m].due
  /\ row' = [row EXCEPT ![m].due = TRUE]
  /\ UNCHANGED <<status, call, received, died>>

Work(s) ==
  \/ Bury(s) \/ NothingToBury(s)
  \/ Claim(s) \/ NothingToClaim(s)
  \/ Send(s) \/ GiveBack(s) \/ Finish(s) \/ ClaimLost(s)

Next ==
  \/ \E s \in Senders : Work(s) \/ Die(s)
  \/ \E m \in Mails : LeaseEnds(m) \/ Due(m)

Spec == Init /\ [][Next]_vars

\* run_invitation_delivery_worker calls again and again; a mail server answers or
\* its timeout does.
Fairness ==
  /\ \A s \in Senders : WF_vars(Work(s))
  /\ \A m \in Mails : WF_vars(LeaseEnds(m)) /\ WF_vars(Due(m))

FairSpec == Spec /\ Fairness

-----------------------------------------------------------------------------
\* Types; a row that ended has no claim left (outbox_claim_shape of the table).
TypeOK ==
  /\ row \in [Mails -> Row]
  /\ \A m \in Mails : row[m].ended # "no" => row[m].token = 0
  /\ status \in [Mails -> {"queued", "sent", "failed"}]
  /\ call \in [Senders -> Call]
  /\ received \in [Mails -> 0..MaxAttempts]
  /\ died \in 0..MaxDeaths

\* What staff see agrees with the row, although calls whose lease ran out long ago still
\* want to write it: sent exactly for a processed row, and then the mail did arrive;
\* failed exactly for a buried one; queued for one that is open or was dropped.
StatusTellsTheRow ==
  \A m \in Mails :
    /\ status[m] = "sent" <=> row[m].ended = "processed"
    /\ status[m] = "failed" <=> row[m].ended = "dead-lettered"
    /\ status[m] = "sent" => received[m] > 0

\* Every delivery ends, whichever calls die and however late they answer.
EveryMailEnds == \A m \in Mails : <>(row[m].ended # "no")

=============================================================================
