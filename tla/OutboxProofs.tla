----------------------------- MODULE OutboxProofs -----------------------------
(***************************************************************************)
(* Proofs about the two consumers of outbox_events in MCOutbox, for any    *)
(* number of senders, workers, rows and members: first each consumer by    *)
(* itself, at the end their composition.                                   *)
(***************************************************************************)
EXTENDS MCOutbox, FiniteSetTheorems, TLAPS

-----------------------------------------------------------------------------
(* The mails (InvitationDelivery).                                         *)

\* The calls that are about to mail m.
Sending(m) == {s \in Senders : call[s].step = "send" /\ call[s].mail = m}

\* What a call carries: a row it claimed with a token, and the result of its attempt.
CallInv(s) ==
  /\ call[s].step \in {"send", "finish"} => call[s].mail \in Mails /\ call[s].token > 0
  /\ call[s].step = "finish" =>
       /\ call[s].result \in {"sent", "failed", "unconfigured"}
       /\ call[s].result = "sent" => received[call[s].mail] > 0

\* A mail is passed on at most once per counted attempt, those under way included.
AttemptsCounted(m) ==
  /\ IsFiniteSet(Sending(m))
  /\ received[m] + Cardinality(Sending(m)) <= row[m].attempts

MailInv ==
  /\ Delivery!TypeOK
  /\ \A s \in Senders : CallInv(s)
  /\ \A m \in Mails : AttemptsCounted(m)
  /\ Delivery!StatusTellsTheRow

-----------------------------------------------------------------------------
(* The notifications (Notifications).                                      *)

Stages == {"new", "awaiting", "open", "decided early", "handled"}
Drains == [step : {"none", "begun", "read"}, of : Escalations \cup {Nobody}, at : Nat]

\* A resolution was written by a transaction in which somebody took its subject.
SettledBy(r) ==
  r.type = "resolved" =>
    /\ r.subject \in Escalations \cup Tools
    /\ r.by \in handlers[r.subject]

WorkerInv(w) ==
  /\ worker[w].step \in {"idle", "claimed", "fan out", "delete"}
  /\ worker[w].step = "idle" => worker[w] = Notification!Idle
  /\ worker[w].step # "idle" => worker[w].row \in Notification!Row /\ SettledBy(worker[w].row)

NoteInv ==
  /\ Notification!TypeOK
  /\ clock \in Nat
  /\ worker = [w \in Workers |-> worker[w]]
  /\ \A r \in queue : SettledBy(r)
  /\ \A w \in Workers : WorkerInv(w)
  /\ cleared \subseteq Escalations \cup Tools
  /\ \A m \in Members, s \in Notification!Subjects : inbox[m][s] = "resolved" => s \in cleared
  /\ Notification!ResolutionClears

-----------------------------------------------------------------------------
(* Each action of InvitationDelivery keeps MailInv.                        *)

LEMMA MailConstants ==
  /\ MaxAttempts \in Nat \ {0} /\ MaxDeaths \in Nat
  /\ NoMail \notin Mails
  /\ Configured \subseteq Senders
  BY OutboxAssumption DEF Delivery!MailAssumption

LEMMA MailInit == Delivery!Init => MailInv
  <1> SUFFICES ASSUME Delivery!Init PROVE MailInv
    OBVIOUS
  <1> USE MailConstants
  <1>1. Delivery!TypeOK
    BY DEF Delivery!Init, Delivery!TypeOK, Delivery!Row, Delivery!Call, Delivery!Idle
  <1>2. \A s \in Senders : CallInv(s)
    BY DEF Delivery!Init, Delivery!Idle, CallInv
  <1>3. ASSUME NEW m \in Mails PROVE AttemptsCounted(m)
    <2>1. Sending(m) = {}
      BY DEF Delivery!Init, Delivery!Idle, Sending
    <2> QED
      BY <2>1, FS_EmptySet DEF AttemptsCounted, Delivery!Init
  <1>4. Delivery!StatusTellsTheRow
    BY DEF Delivery!Init, Delivery!StatusTellsTheRow
  <1> QED
    BY <1>1, <1>2, <1>3, <1>4 DEF MailInv

\* A call that leaves, or does not come to, the sending of m keeps the count, as long as the
\* attempts do not fall.
LEMMA CountKept ==
  ASSUME NEW m \in Mails, AttemptsCounted(m), Sending(m)' \subseteq Sending(m),
         row[m].attempts \in Nat, row'[m].attempts \in Nat, received[m] \in Nat,
         row'[m].attempts = row[m].attempts, received'[m] = received[m]
  PROVE  AttemptsCounted(m)'
  <1>1. IsFiniteSet(Sending(m)') /\ Cardinality(Sending(m)') <= Cardinality(Sending(m))
    BY FS_Subset DEF AttemptsCounted
  <1>2. Cardinality(Sending(m)') \in Nat /\ Cardinality(Sending(m)) \in Nat
    BY <1>1, FS_CardinalityType DEF AttemptsCounted
  <1>3. received[m] + Cardinality(Sending(m)') <= row[m].attempts
    BY <1>1, <1>2 DEF AttemptsCounted
  <1> QED
    BY <1>1, <1>3 DEF AttemptsCounted

\* One that neither mails nor finishes: what it carries still holds.
LEMMA TypedMails ==
  ASSUME MailInv
  PROVE  /\ \A m \in Mails : row[m] \in Delivery!Row /\ row[m].attempts \in Nat
         /\ \A m \in Mails : received[m] \in Nat
         /\ \A s \in Senders : call[s] \in Delivery!Call
         /\ DOMAIN row = Mails /\ DOMAIN call = Senders /\ DOMAIN received = Mails
  BY MailConstants DEF MailInv, Delivery!TypeOK, Delivery!Row

\* Steps that write one row, and leave attempts, calls and what arrived alone.
LEMMA RowWritten ==
  ASSUME MailInv, NEW m \in Mails, NEW r \in Delivery!Row, r.attempts = row[m].attempts,
         r.ended # "no" => r.token = 0,
         row' = [row EXCEPT ![m] = r], status' \in [Mails -> {"queued", "sent", "failed"}],
         UNCHANGED <<received, died>>,
         \/ call' = call
         \/ \E s \in Senders : call' = [call EXCEPT ![s] = Delivery!Idle],
         Delivery!StatusTellsTheRow'
  PROVE  MailInv'
  <1> USE MailConstants
  <1>1. Delivery!TypeOK'
    <2>1. row' \in [Mails -> Delivery!Row]
      BY DEF MailInv, Delivery!TypeOK
    <2>2. \A n \in Mails : row'[n].ended # "no" => row'[n].token = 0
      BY DEF MailInv, Delivery!TypeOK
    <2>3. call' \in [Senders -> Delivery!Call]
      BY DEF MailInv, Delivery!TypeOK, Delivery!Call, Delivery!Idle
    <2> QED
      BY <2>1, <2>2, <2>3 DEF MailInv, Delivery!TypeOK
  <1>2. \A s \in Senders : call'[s] = call[s] \/ call'[s] = Delivery!Idle
    BY TypedMails
  <1>3. \A s \in Senders : CallInv(s)'
    BY <1>2 DEF MailInv, CallInv, Delivery!Idle
  <1>4. ASSUME NEW n \in Mails PROVE AttemptsCounted(n)'
    <2>1. Sending(n)' \subseteq Sending(n)
      BY <1>2 DEF Sending, Delivery!Idle
    <2>2. row'[n].attempts = row[n].attempts
      BY TypedMails
    <2> QED
      BY <2>1, <2>2, TypedMails, CountKept DEF MailInv
  <1> QED
    BY <1>1, <1>3, <1>4 DEF MailInv

\* Steps that write one call, which does not come to send.
LEMMA CallWritten ==
  ASSUME MailInv, NEW s \in Senders, NEW c \in Delivery!Call, c.step \in {"idle", "claim"},
         call' = [call EXCEPT ![s] = c], died' \in 0..MaxDeaths,
         UNCHANGED <<row, status, received>>
  PROVE  MailInv'
  <1>1. Delivery!TypeOK'
    BY DEF MailInv, Delivery!TypeOK
  <1>2. \A g \in Senders : call'[g] = call[g] \/ call'[g] = c
    BY TypedMails
  <1>3. \A g \in Senders : CallInv(g)'
    BY <1>2 DEF MailInv, CallInv
  <1>4. ASSUME NEW n \in Mails PROVE AttemptsCounted(n)'
    <2>1. Sending(n)' \subseteq Sending(n)
      BY <1>2 DEF Sending
    <2> QED
      BY <2>1, TypedMails, CountKept DEF MailInv
  <1>5. Delivery!StatusTellsTheRow'
    BY DEF MailInv, Delivery!StatusTellsTheRow
  <1> QED
    BY <1>1, <1>3, <1>4, <1>5 DEF MailInv

\* What an update of a row makes of it.
LEMMA RowUpdates ==
  ASSUME NEW o \in Delivery!Row, NEW l \in BOOLEAN
  PROVE  /\ \A e \in {"processed", "dead-lettered", "dropped"} :
              [o EXCEPT !.ended = e, !.token = 0, !.leased = l] \in Delivery!Row
         /\ \A a \in 0..MaxAttempts :
              [o EXCEPT !.attempts = a, !.token = a, !.leased = l] \in Delivery!Row
         /\ \A d \in BOOLEAN :
              [o EXCEPT !.token = 0, !.leased = l, !.due = d] \in Delivery!Row
         /\ [o EXCEPT !.leased = l] \in Delivery!Row
         /\ [o EXCEPT !.due = l] \in Delivery!Row
  <1>1. 0 \in 0..MaxAttempts
    BY MailConstants
  <1>2. \A e \in {"processed", "dead-lettered", "dropped"} :
          [o EXCEPT !.ended = e, !.token = 0, !.leased = l] \in Delivery!Row
    BY <1>1 DEF Delivery!Row
  <1>3. \A a \in 0..MaxAttempts :
          [o EXCEPT !.attempts = a, !.token = a, !.leased = l] \in Delivery!Row
    BY DEF Delivery!Row
  <1>4. \A d \in BOOLEAN : [o EXCEPT !.token = 0, !.leased = l, !.due = d] \in Delivery!Row
    BY <1>1 DEF Delivery!Row
  <1>5. [o EXCEPT !.leased = l] \in Delivery!Row /\ [o EXCEPT !.due = l] \in Delivery!Row
    BY DEF Delivery!Row
  <1> QED
    BY <1>2, <1>3, <1>4, <1>5

LEMMA Booleans == TRUE \in BOOLEAN /\ FALSE \in BOOLEAN
  BY Zenon

LEMMA BuryStep == ASSUME MailInv, NEW s \in Senders, Delivery!Bury(s) PROVE MailInv'
  <1> PICK m \in Mails :
        /\ Delivery!Exhausted(m)
        /\ row' = [row EXCEPT ![m] = Delivery!Ended(m, "dead-lettered")]
        /\ status' = [status EXCEPT ![m] = IF @ = "queued" THEN "failed" ELSE @]
    BY DEF Delivery!Bury
  <1> DEFINE r == Delivery!Ended(m, "dead-lettered")
  <1>1. r \in Delivery!Row /\ r.attempts = row[m].attempts /\ r.token = 0
        /\ r.ended = "dead-lettered"
    <2>1. r \in Delivery!Row
      BY RowUpdates, Booleans, TypedMails, Zenon DEF Delivery!Ended
    <2> QED
      BY <2>1, TypedMails DEF Delivery!Ended, Delivery!Row
  <1>2. status' \in [Mails -> {"queued", "sent", "failed"}]
    BY DEF MailInv, Delivery!TypeOK
  <1>3. status[m] = "queued"
    BY DEF MailInv, Delivery!StatusTellsTheRow, Delivery!Exhausted, Delivery!Unclaimed,
           Delivery!TypeOK
  <1>4. Delivery!StatusTellsTheRow'
    <2> HIDE DEF r
    <2> SUFFICES ASSUME NEW n \in Mails
                 PROVE  /\ status'[n] = "sent" <=> row'[n].ended = "processed"
                        /\ status'[n] = "failed" <=> row'[n].ended = "dead-lettered"
                        /\ status'[n] = "sent" => received'[n] > 0
      BY DEF Delivery!StatusTellsTheRow
    <2>1. CASE n = m
      <3>1. row'[m].ended = "dead-lettered"
        BY <1>1, TypedMails DEF r
      <3>2. status'[m] = "failed"
        BY <1>3 DEF MailInv, Delivery!TypeOK
      <3> QED
        BY <2>1, <3>1, <3>2
    <2>2. CASE n # m
      BY <2>2, TypedMails DEF MailInv, Delivery!TypeOK, Delivery!StatusTellsTheRow, Delivery!Bury
    <2> QED
      BY <2>1, <2>2
  <1> HIDE DEF r
  <1>5. row' = [row EXCEPT ![m] = r] /\ UNCHANGED <<received, died, call>>
    BY DEF r, Delivery!Bury
  <1> QED
    BY <1>1, <1>2, <1>4, <1>5, RowWritten

LEMMA ClaimMailStep == ASSUME MailInv, NEW s \in Senders, Delivery!Claim(s) PROVE MailInv'
  <1> USE MailConstants
  <1>0. PICK m \in Mails :
        LET attempt == IF row[m].attempts < MaxAttempts THEN row[m].attempts + 1
                       ELSE MaxAttempts
        IN /\ Delivery!Claimable(m)
           /\ row' = [row EXCEPT ![m].attempts = attempt, ![m].token = attempt,
                                 ![m].leased = TRUE]
           /\ call' = [call EXCEPT ![s] =
                [step |-> "send", mail |-> m, token |-> attempt, result |-> "none"]]
    BY DEF Delivery!Claim
  <1> DEFINE attempt == row[m].attempts + 1
             r == [row[m] EXCEPT !.attempts = attempt, !.token = attempt, !.leased = TRUE]
             c == [step |-> "send", mail |-> m, token |-> attempt, result |-> "none"]
  <1>1. /\ row[m].ended = "no" /\ attempt \in 1..MaxAttempts
        /\ row' = [row EXCEPT ![m] = r]
        /\ call' = [call EXCEPT ![s] = c]
        /\ call[s].step = "claim" /\ UNCHANGED <<status, received, died>>
    <2>1. row[m].ended = "no" /\ row[m].attempts < MaxAttempts /\ row[m].attempts \in Nat
      BY <1>0, TypedMails DEF Delivery!Claimable, Delivery!Unclaimed
    <2>2. row[m].attempts + 1 \in 1..MaxAttempts
      BY <2>1
    <2>3. call[s].step = "claim" /\ UNCHANGED <<status, received, died>>
      BY DEF Delivery!Claim
    <2>4. row' = [row EXCEPT ![m] = r] /\ call' = [call EXCEPT ![s] = c]
      BY <1>0, <2>1
    <2> QED
      BY <2>1, <2>2, <2>3, <2>4
  <1>2. r \in Delivery!Row /\ r.attempts = attempt /\ r.ended = "no"
    <2>1. r \in Delivery!Row
      <3> HIDE DEF attempt
      <3>1. attempt \in 0..MaxAttempts
        BY <1>1
      <3> QED
        BY <3>1, RowUpdates, Booleans, TypedMails, Zenon
    <2> QED
      BY <1>1, <2>1, TypedMails DEF Delivery!Row
  <1>3. c \in Delivery!Call /\ c.step = "send" /\ c.mail = m /\ c.token > 0
    BY <1>1 DEF Delivery!Call
  <1> HIDE DEF r, c
  <1>4. Delivery!TypeOK'
    BY <1>1, <1>2, <1>3 DEF MailInv, Delivery!TypeOK
  <1>5. ASSUME NEW g \in Senders PROVE CallInv(g)'
    BY <1>1, <1>3, TypedMails DEF MailInv, CallInv
  <1>6. ASSUME NEW n \in Mails PROVE AttemptsCounted(n)'
    <2>1. CASE n # m
      <3>1. Sending(n)' \subseteq Sending(n)
        BY <1>1, <1>3, <2>1, TypedMails DEF Sending
      <3>2. row'[n] = row[n]
        BY <1>1, <2>1, TypedMails
      <3> QED
        BY <1>1, <3>1, <3>2, TypedMails, CountKept DEF MailInv
    <2>2. CASE n = m
      <3>1. Sending(m)' = Sending(m) \cup {s} /\ s \notin Sending(m)
        BY <1>1, <1>3, TypedMails DEF Sending
      <3>2. IsFiniteSet(Sending(m)) /\ received[m] + Cardinality(Sending(m)) <= row[m].attempts
        BY DEF MailInv, AttemptsCounted
      <3>3. IsFiniteSet(Sending(m)') /\ Cardinality(Sending(m)') = Cardinality(Sending(m)) + 1
        BY <3>1, <3>2, FS_AddElement
      <3>4. row'[m].attempts = row[m].attempts + 1 /\ received'[m] = received[m]
        BY <1>1, <1>2, TypedMails
      <3>5. Cardinality(Sending(m)) \in Nat
        BY <3>2, FS_CardinalityType
      <3>6. received'[m] + Cardinality(Sending(m)') <= row'[m].attempts
        BY <3>2, <3>3, <3>4, <3>5, TypedMails
      <3> QED
        BY <2>2, <3>3, <3>6 DEF AttemptsCounted
    <2> QED
      BY <2>1, <2>2
  <1>7. Delivery!StatusTellsTheRow'
    BY <1>1, <1>2, TypedMails DEF MailInv, Delivery!StatusTellsTheRow
  <1> QED
    BY <1>4, <1>5, <1>6, <1>7 DEF MailInv

\* A mail is passed on within the attempt that was counted for it.
LEMMA SendStep == ASSUME MailInv, NEW s \in Senders, Delivery!Send(s) PROVE MailInv'
  <1> USE MailConstants
  <1>0. PICK result \in IF s \in Configured THEN {"sent", "failed"} ELSE {"unconfigured"},
             passed \in {0, 1} :
       /\ result = "sent" => passed = 1
       /\ call' = [call EXCEPT ![s].step = "finish", ![s].result = result]
       /\ received' = [received EXCEPT ![call[s].mail] = @ + passed]
    BY DEF Delivery!Send
  <1>m. PICK m \in Mails : m = call[s].mail
    BY DEF Delivery!Send, MailInv, CallInv
  <1> DEFINE c == [call[s] EXCEPT !.step = "finish", !.result = result]
  <1>1. /\ call[s].mail = m /\ call[s].token > 0 /\ call[s].step = "send"
        /\ UNCHANGED <<row, status, died>>
    BY <1>m DEF Delivery!Send, MailInv, CallInv
  <1>2. c \in Delivery!Call /\ c.step = "finish" /\ c.mail = m /\ c.token > 0 /\ c.result = result
        /\ result \in {"sent", "failed", "unconfigured"}
    BY <1>0, <1>1, TypedMails DEF Delivery!Call
  <1>3. call' = [call EXCEPT ![s] = c] /\ received'[m] = received[m] + passed
        /\ \A n \in Mails \ {m} : received'[n] = received[n]
    BY <1>0, <1>1, TypedMails
  <1> HIDE DEF c
  <1>6. ASSUME NEW n \in Mails PROVE AttemptsCounted(n)'
    <2>1. CASE n # m
      <3>1. Sending(n)' \subseteq Sending(n)
        BY <1>2, <1>3, <2>1, TypedMails DEF Sending
      <3> QED
        BY <1>1, <1>3, <2>1, <3>1, TypedMails, CountKept DEF MailInv
    <2>2. CASE n = m
      <3>1. Sending(m)' = Sending(m) \ {s} /\ s \in Sending(m)
        BY <1>1, <1>2, <1>3, TypedMails DEF Sending
      <3>2. IsFiniteSet(Sending(m)) /\ received[m] + Cardinality(Sending(m)) <= row[m].attempts
        BY <1>1 DEF MailInv, AttemptsCounted
      <3>3. IsFiniteSet(Sending(m)') /\ Cardinality(Sending(m)') = Cardinality(Sending(m)) - 1
        BY <3>1, <3>2, FS_RemoveElement
      <3>5. Cardinality(Sending(m)) \in Nat
        BY <3>2, FS_CardinalityType
      <3>6. received'[m] + Cardinality(Sending(m)') <= row'[m].attempts
        BY <1>0, <1>1, <1>3, <3>2, <3>3, <3>5, TypedMails
      <3>7. row'[m].attempts \in Nat
        BY <1>1, TypedMails
      <3> QED
        BY <2>2, <3>3, <3>6, <3>7 DEF AttemptsCounted
    <2> QED
      BY <2>1, <2>2
  <1>7. received' \in [Mails -> 0..MaxAttempts]
    <2>1. received' \in [Mails -> Nat]
      BY <1>0, <1>1, TypedMails DEF MailInv, Delivery!TypeOK
    <2>2. ASSUME NEW n \in Mails PROVE received'[n] <= MaxAttempts
      <3>1. IsFiniteSet(Sending(n)') /\ received'[n] + Cardinality(Sending(n)') <= row[n].attempts
        BY <1>1, <1>6 DEF AttemptsCounted
      <3>2. Cardinality(Sending(n)') \in Nat
        BY <3>1, FS_CardinalityType
      <3>3. row[n].attempts \in 0..MaxAttempts
        BY TypedMails DEF Delivery!Row
      <3> QED
        BY <2>1, <3>1, <3>2, <3>3
    <2> QED
      BY <2>1, <2>2
  <1>4. Delivery!TypeOK'
    BY <1>1, <1>2, <1>3, <1>7 DEF MailInv, Delivery!TypeOK
  <1>5. ASSUME NEW g \in Senders PROVE CallInv(g)'
    <2>1. CASE g = s
      BY <1>0, <1>1, <1>2, <1>3, <2>1, TypedMails DEF CallInv
    <2>2. CASE g # s
      <3>1. call'[g] = call[g] /\ CallInv(g)
        BY <1>3, <2>2, TypedMails DEF MailInv
      <3>2. \A n \in Mails : received[n] > 0 => received'[n] > 0
        BY <1>0, <1>1, <1>3, TypedMails
      <3> QED
        BY <3>1, <3>2 DEF CallInv
    <2> QED
      BY <2>1, <2>2
  <1>8. Delivery!StatusTellsTheRow'
    <2>1. \A n \in Mails : received[n] > 0 => received'[n] > 0
      BY <1>0, <1>1, <1>3, TypedMails
    <2> QED
      BY <1>1, <2>1 DEF MailInv, Delivery!StatusTellsTheRow
  <1> QED
    BY <1>4, <1>5, <1>6, <1>8 DEF MailInv

LEMMA GiveBackStep == ASSUME MailInv, NEW s \in Senders, Delivery!GiveBack(s) PROVE MailInv'
  <1> DEFINE m == call[s].mail
             r == [row[m] EXCEPT !.token = 0, !.leased = FALSE, !.due = FALSE]
  <1>1. m \in Mails
    BY DEF Delivery!GiveBack, Delivery!HoldsClaim, MailInv, CallInv
  <1>2. r \in Delivery!Row /\ r.attempts = row[m].attempts /\ r.token = 0
        /\ r.ended = row[m].ended
    <2>1. r \in Delivery!Row
      BY <1>1, RowUpdates, Booleans, TypedMails, Zenon
    <2> QED
      BY <1>1, <2>1, TypedMails DEF Delivery!Row
  <1>3. /\ row' = [row EXCEPT ![m] = r] /\ UNCHANGED <<status, received, died>>
        /\ call' = [call EXCEPT ![s] = Delivery!Idle]
    BY DEF Delivery!GiveBack
  <1> HIDE DEF r
  <1>4. Delivery!StatusTellsTheRow'
    BY <1>2, <1>3, TypedMails DEF MailInv, Delivery!StatusTellsTheRow
  <1>5. status' \in [Mails -> {"queued", "sent", "failed"}]
    BY <1>3 DEF MailInv, Delivery!TypeOK
  <1> QED
    BY <1>1, <1>2, <1>3, <1>4, <1>5, RowWritten

\* Whoever still holds the claim finds the row open, so that the status is its to write.
LEMMA FinishMailStep == ASSUME MailInv, NEW s \in Senders, Delivery!Finish(s) PROVE MailInv'
  <1> DEFINE m == call[s].mail
             how == Delivery!Outcome[call[s].result]
             r == Delivery!Ended(m, how)
  <1>1. /\ m \in Mails /\ call[s].result \in {"sent", "failed", "unconfigured"}
        /\ call[s].result = "sent" => received[m] > 0
        /\ row[m].token > 0
    BY DEF Delivery!Finish, Delivery!HoldsClaim, MailInv, CallInv
  <1>2. row[m].ended = "no"
    BY <1>1, MailConstants DEF MailInv, Delivery!TypeOK
  <1>3. /\ call[s].result = "sent" => how = "processed"
        /\ call[s].result = "failed" => how = "dead-lettered"
        /\ call[s].result = "unconfigured" => how = "dropped"
    BY DEF Delivery!Outcome
  <1>4. how \in {"processed", "dead-lettered", "dropped"}
    BY <1>1, <1>3
  <1>5. /\ row' = [row EXCEPT ![m] = r]
        /\ status' = [status EXCEPT ![m] =
             IF @ = "queued" /\ call[s].result # "unconfigured" THEN call[s].result ELSE @]
        /\ call' = [call EXCEPT ![s] = Delivery!Idle] /\ UNCHANGED <<received, died>>
    BY DEF Delivery!Finish
  <1> HIDE DEF how
  <1>6. r \in Delivery!Row /\ r.attempts = row[m].attempts /\ r.token = 0 /\ r.ended = how
    <2>1. r \in Delivery!Row
      BY <1>1, <1>4, RowUpdates, Booleans, TypedMails, Zenon DEF Delivery!Ended
    <2> QED
      BY <1>1, <2>1, TypedMails DEF Delivery!Ended, Delivery!Row
  <1>7. status' \in [Mails -> {"queued", "sent", "failed"}]
    BY <1>1, <1>5 DEF MailInv, Delivery!TypeOK
  <1>8. status[m] = "queued"
    BY <1>1, <1>2 DEF MailInv, Delivery!StatusTellsTheRow, Delivery!TypeOK
  <1> HIDE DEF r
  <1>9. Delivery!StatusTellsTheRow'
    <2> SUFFICES ASSUME NEW n \in Mails
                 PROVE  /\ status'[n] = "sent" <=> row'[n].ended = "processed"
                        /\ status'[n] = "failed" <=> row'[n].ended = "dead-lettered"
                        /\ status'[n] = "sent" => received'[n] > 0
      BY DEF Delivery!StatusTellsTheRow
    <2>1. CASE n = m
      <3>1. row'[n].ended = how /\ received'[n] = received[m]
            /\ status'[n] = IF call[s].result # "unconfigured" THEN call[s].result ELSE "queued"
        BY <2>1, <1>1, <1>5, <1>6, <1>8, TypedMails DEF MailInv, Delivery!TypeOK
      <3> QED
        BY <3>1, <1>1, <1>3
    <2>2. CASE n # m
      BY <2>2, <1>5, TypedMails DEF MailInv, Delivery!TypeOK, Delivery!StatusTellsTheRow
    <2> QED
      BY <2>1, <2>2
  <1> QED
    BY <1>1, <1>5, <1>6, <1>7, <1>9, RowWritten

\* Steps that only write a call, or only the time of a row.
LEMMA OtherCallSteps ==
  ASSUME MailInv, NEW s \in Senders,
         \/ Delivery!NothingToBury(s) \/ Delivery!NothingToClaim(s) \/ Delivery!ClaimLost(s)
         \/ Delivery!Die(s)
  PROVE  MailInv'
  <1> USE MailConstants
  <1>1. Delivery!Idle \in Delivery!Call /\ Delivery!Idle.step = "idle"
    BY DEF Delivery!Idle, Delivery!Call
  <1>2. died \in 0..MaxDeaths
    BY DEF MailInv, Delivery!TypeOK
  <1>3. CASE Delivery!NothingToBury(s)
    <2> DEFINE c == [call[s] EXCEPT !.step = "claim"]
    <2>1. c \in Delivery!Call /\ c.step = "claim"
      BY TypedMails DEF Delivery!Call
    <2>2. call' = [call EXCEPT ![s] = c]
      BY <1>3 DEF Delivery!NothingToBury
    <2> HIDE DEF c
    <2> QED
      BY <1>2, <1>3, <2>1, <2>2, CallWritten DEF Delivery!NothingToBury
  <1>4. CASE Delivery!NothingToClaim(s) \/ Delivery!ClaimLost(s) \/ Delivery!Die(s)
    <2>1. /\ call' = [call EXCEPT ![s] = Delivery!Idle] /\ died' \in 0..MaxDeaths
          /\ UNCHANGED <<row, status, received>>
      BY <1>2, <1>4 DEF Delivery!NothingToClaim, Delivery!ClaimLost, Delivery!Die
    <2> QED
      BY <2>1, <1>1, CallWritten
  <1> QED
    BY <1>3, <1>4

LEMMA TimeStep ==
  ASSUME MailInv, NEW m \in Mails, Delivery!LeaseEnds(m) \/ Delivery!Due(m) PROVE MailInv'
  <1> USE MailConstants
  <1>5. CASE Delivery!LeaseEnds(m)
    <2> DEFINE r == [row[m] EXCEPT !.leased = FALSE]
    <2>0. r \in Delivery!Row
      BY RowUpdates, Booleans, TypedMails, Zenon
    <2>1. r \in Delivery!Row /\ r.attempts = row[m].attempts /\ r.token = row[m].token
          /\ r.ended = row[m].ended
      BY <2>0, TypedMails DEF Delivery!Row
    <2>2. row' = [row EXCEPT ![m] = r] /\ UNCHANGED <<status, received, died, call>>
      BY <1>5 DEF Delivery!LeaseEnds
    <2> HIDE DEF r
    <2>3. r.ended # "no" => r.token = 0
      BY <2>1 DEF MailInv, Delivery!TypeOK
    <2>4. Delivery!StatusTellsTheRow' /\ status' \in [Mails -> {"queued", "sent", "failed"}]
      BY <2>1, <2>2, TypedMails DEF MailInv, Delivery!StatusTellsTheRow, Delivery!TypeOK
    <2> QED
      BY <2>1, <2>2, <2>3, <2>4, RowWritten
  <1>6. CASE Delivery!Due(m)
    <2> DEFINE r == [row[m] EXCEPT !.due = TRUE]
    <2>0. r \in Delivery!Row
      BY RowUpdates, Booleans, TypedMails, Zenon
    <2>1. r \in Delivery!Row /\ r.attempts = row[m].attempts /\ r.token = row[m].token
          /\ r.ended = row[m].ended
      BY <2>0, TypedMails DEF Delivery!Row
    <2>2. row' = [row EXCEPT ![m] = r] /\ UNCHANGED <<status, received, died, call>>
      BY <1>6 DEF Delivery!Due
    <2> HIDE DEF r
    <2>3. r.ended # "no" => r.token = 0
      BY <2>1 DEF MailInv, Delivery!TypeOK
    <2>4. Delivery!StatusTellsTheRow' /\ status' \in [Mails -> {"queued", "sent", "failed"}]
      BY <2>1, <2>2, TypedMails DEF MailInv, Delivery!StatusTellsTheRow, Delivery!TypeOK
    <2> QED
      BY <2>1, <2>2, <2>3, <2>4, RowWritten
  <1> QED
    BY <1>5, <1>6

\* What does not touch the mails.
LEMMA MailStutter == ASSUME MailInv, UNCHANGED mailVars PROVE MailInv'
  <1>1. Delivery!TypeOK' /\ Delivery!StatusTellsTheRow'
    BY DEF MailInv, mailVars, Delivery!TypeOK, Delivery!StatusTellsTheRow
  <1>2. \A s \in Senders : CallInv(s)'
    BY DEF MailInv, mailVars, CallInv
  <1>3. \A m \in Mails : AttemptsCounted(m)'
    <2>1. \A m \in Mails : Sending(m)' = Sending(m)
      BY DEF mailVars, Sending
    <2> QED
      BY <2>1 DEF MailInv, mailVars, AttemptsCounted
  <1> QED
    BY <1>1, <1>2, <1>3 DEF MailInv

LEMMA MailStep == ASSUME MailInv, [Delivery!Next]_mailVars PROVE MailInv'
  <1>1. ASSUME NEW s \in Senders, Delivery!Work(s) \/ Delivery!Die(s) PROVE MailInv'
    BY <1>1, BuryStep, ClaimMailStep, SendStep, GiveBackStep, FinishMailStep, OtherCallSteps
    DEF Delivery!Work
  <1>2. ASSUME NEW m \in Mails, Delivery!LeaseEnds(m) \/ Delivery!Due(m) PROVE MailInv'
    BY <1>2, TimeStep
  <1> QED
    BY <1>1, <1>2, MailStutter DEF Delivery!Next

-----------------------------------------------------------------------------
(* Each action of Notifications keeps NoteInv.                             *)

LEMMA NoteConstants ==
  /\ Nobody \notin Members /\ MaxEvents \in Nat /\ MaxMishaps \in Nat
  /\ Conversations \cap (Escalations \cup Tools) = {} /\ Escalations \cap Tools = {}
  BY OutboxAssumption DEF Notification!NotificationAssumption

LEMMA NoteInit == Notification!Init => NoteInv
  <1> SUFFICES ASSUME Notification!Init PROVE NoteInv
    OBVIOUS
  <1>1. Notification!TypeOK
    <2>1. stage \in [Notification!Subjects -> Stages]
      BY DEF Notification!Init, Stages
    <2>2. inbox \in [Members -> [Notification!Subjects -> Notification!States]]
      BY DEF Notification!Init, Notification!States
    <2> QED
      BY <2>1, <2>2 DEF Notification!Init, Notification!TypeOK, Notification!NoDrain, Stages
  <1>2. \A w \in Workers : WorkerInv(w)
    BY DEF Notification!Init, Notification!Idle, WorkerInv
  <1>3. Notification!ResolutionClears
    BY DEF Notification!Init, Notification!ResolutionClears
  <1> QED
    BY <1>1, <1>2, <1>3 DEF NoteInv, Notification!Init, Notification!NoDrain

\* Whoever took a subject did so for good.
StoryKept ==
  \A s \in Escalations \cup Tools : handlers[s] \subseteq handlers'[s]

LEMMA SettledStays ==
  ASSUME StoryKept, NEW r, SettledBy(r)
  PROVE  r.type = "resolved" =>
           /\ r.subject \in Escalations \cup Tools
           /\ r.by \in handlers'[r.subject]
  BY DEF StoryKept, SettledBy

\* Steps that change neither an inbox nor what was applied to it.
LEMMA InboxKept ==
  ASSUME NoteInv, StoryKept, UNCHANGED <<inbox, cleared, late>>,
         eligible' \subseteq Members, clock' \in Nat,
         stage' \in [Notification!Subjects -> Stages],
         handlers' \in [Notification!Subjects -> SUBSET Members],
         drain' \in Drains, drain'.step = "read" => drain'.of \in Escalations,
         \A r \in queue' \ queue : r \in Notification!Row /\ SettledBy(r)',
         worker' = [w \in Workers |-> worker'[w]],
         \A w \in Workers : worker'[w] = worker[w] \/ WorkerInv(w)'
  PROVE  NoteInv'
  <1>1. \A r \in queue : r \in Notification!Row /\ SettledBy(r)
    BY DEF NoteInv, Notification!TypeOK
  <1>2. \A r \in queue' : r \in Notification!Row /\ SettledBy(r)'
    BY <1>1, SettledStays DEF SettledBy
  <1>3. ASSUME NEW w \in Workers PROVE WorkerInv(w)'
    <2>1. CASE WorkerInv(w)'
      BY <2>1
    <2>2. CASE worker'[w] = worker[w]
      <3>1. WorkerInv(w)
        BY DEF NoteInv
      <3>2. worker[w].step # "idle" => SettledBy(worker[w].row)'
        BY <2>2, <3>1, SettledStays DEF WorkerInv, SettledBy
      <3> QED
        BY <2>2, <3>1, <3>2 DEF WorkerInv, SettledBy
    <2> QED
      BY <2>1, <2>2
  <1>4. Notification!TypeOK'
    <2>1. \A w \in Workers : \/ worker'[w] = Notification!Idle
                             \/ /\ worker'[w].step \in {"claimed", "fan out", "delete"}
                                /\ worker'[w].row \in Notification!Row
      BY <1>3 DEF WorkerInv
    <2> QED
      BY <1>2, <2>1 DEF NoteInv, Notification!TypeOK, Stages, Drains
  <1>5. Notification!ResolutionClears'
    <2> SUFFICES ASSUME NEW m \in Members, NEW s \in Notification!Subjects
                 PROVE  /\ inbox[m][s] = "unread" /\ s \in cleared =>
                             m \in handlers'[s] \/ <<m, s>> \in late
                        /\ inbox[m][s] = "resolved" => handlers'[s] \ {m} # {}
      BY DEF Notification!ResolutionClears
    <2>1. s \in cleared => handlers[s] \subseteq handlers'[s]
      BY DEF NoteInv, StoryKept
    <2>2. inbox[m][s] = "resolved" => s \in cleared
      BY DEF NoteInv
    <2> QED
      BY <2>1, <2>2 DEF NoteInv, Notification!ResolutionClears
  <1>6. \A m \in Members, s \in Notification!Subjects : inbox'[m][s] = "resolved" => s \in cleared'
    BY DEF NoteInv
  <1>7. cleared' \subseteq Escalations \cup Tools
    BY DEF NoteInv
  <1> QED
    BY <1>2, <1>3, <1>4, <1>5, <1>6, <1>7 DEF NoteInv

\* What a producer may assume of the types.
LEMMA TypedStory ==
  ASSUME NoteInv
  PROVE  /\ stage \in [Notification!Subjects -> Stages]
         /\ handlers \in [Notification!Subjects -> SUBSET Members]
         /\ eligible \subseteq Members /\ clock \in Nat /\ drain.at \in Nat
         /\ drain \in Drains /\ (drain.step = "read" => drain.of \in Escalations)
  BY DEF NoteInv, Notification!TypeOK, Stages, Drains

\* A producer's transaction: rows in the queue, and perhaps a drain that goes on.
LEMMA Told ==
  ASSUME NoteInv, StoryKept, NEW rows \in SUBSET Notification!Row,
         queue' = queue \cup rows, clock' \in {clock, clock + 1},
         UNCHANGED <<eligible, worker, inbox, cleared, late>>,
         drain' = drain \/ drain' = Notification!NoDrain,
         stage' \in [Notification!Subjects -> Stages],
         handlers' \in [Notification!Subjects -> SUBSET Members],
         \A r \in rows : SettledBy(r)'
  PROVE  NoteInv'
  <1>1. clock' \in Nat /\ eligible' \subseteq Members
    <2>1. clock \in Nat
      BY DEF NoteInv
    <2>2. eligible' = eligible /\ eligible \subseteq Members
      BY DEF NoteInv, Notification!TypeOK
    <2> QED
      BY <2>1, <2>2
  <1>2. \A r \in queue' \ queue : r \in Notification!Row /\ SettledBy(r)'
    OBVIOUS
  <1>3. worker' = [w \in Workers |-> worker'[w]] /\ worker' = worker
    BY DEF NoteInv
  <1>4. drain' \in Drains /\ (drain'.step = "read" => drain'.of \in Escalations)
    BY TypedStory DEF Drains, Notification!NoDrain
  <1> QED
    BY <1>1, <1>2, <1>3, <1>4, InboxKept

\* The rows that are emitted.
LEMMA Rows ==
  ASSUME NoteInv, NEW s \in Notification!Subjects, NEW m \in Members,
         NEW a \in Members \cup {Nobody}, NEW at \in Nat
  PROVE  /\ Notification!Ask(s, a) \in Notification!Row
         /\ Notification!Ask(s, a).type = "requested"
         /\ Notification!Tell(s, m, a, at) \in Notification!Row
         /\ Notification!Tell(s, m, a, at).type = "requested"
         /\ Notification!Resolved(s, m, at) \in Notification!Row
         /\ Notification!Resolved(s, m, at).subject = s /\ Notification!Resolved(s, m, at).by = m
  BY DEF NoteInv, Notification!Ask, Notification!Tell, Notification!Resolved, Notification!Row

LEMMA QueueEscalationStep ==
  ASSUME NoteInv, NEW e \in Escalations, NEW a \in Members \cup {Nobody},
         Notification!QueueEscalation(e, a)
  PROVE  NoteInv'
  <1> DEFINE r == Notification!Ask(e, a)
  <1>1. e \in Notification!Subjects
    BY DEF Notification!Subjects
  <1>2. r \in Notification!Row /\ r.type = "requested"
    BY <1>1 DEF NoteInv, Notification!Ask, Notification!Row
  <1>3. /\ stage' = [stage EXCEPT ![e] = "open"] /\ handlers' = handlers /\ drain' = drain
        /\ queue' = queue \cup {r} /\ clock' = clock + 1
        /\ UNCHANGED <<eligible, worker, inbox, cleared, late>>
    BY DEF Notification!QueueEscalation, Notification!Emit
  <1>4. stage' \in [Notification!Subjects -> Stages]
    BY <1>3, TypedStory DEF Stages
  <1>5. StoryKept
    BY <1>3 DEF StoryKept
  <1> HIDE DEF r
  <1>6. {r} \in SUBSET Notification!Row /\ \A x \in {r} : SettledBy(x)'
    BY <1>2 DEF SettledBy
  <1>7. handlers' \in [Notification!Subjects -> SUBSET Members]
    BY <1>3, TypedStory
  <1> QED
    BY <1>3, <1>4, <1>5, <1>6, <1>7, Told

\* An assignment: both rows name who is assigned.
LEMMA TakenStep ==
  ASSUME NoteInv, NEW e \in Escalations, NEW m \in Members, NEW a \in Members \cup {Nobody},
         NEW at \in Nat, Notification!Taken(e, m, a, at), clock' \in {clock, clock + 1},
         UNCHANGED <<eligible, worker, inbox, cleared, late>>,
         drain' = drain \/ drain' = Notification!NoDrain
  PROVE  NoteInv'
  <1> DEFINE q == Notification!Tell(e, m, a, at)
             r == Notification!Resolved(e, m, at)
  <1>1. e \in Notification!Subjects
    BY DEF Notification!Subjects
  <1>2. /\ q \in Notification!Row /\ q.type = "requested"
        /\ r \in Notification!Row /\ r.subject = e /\ r.by = m
    BY <1>1, Rows
  <1>3. /\ stage' = [stage EXCEPT ![e] = "handled"]
        /\ handlers' = [handlers EXCEPT ![e] = handlers[e] \cup {m}]
        /\ queue' = queue \cup {q, r}
    BY DEF Notification!Taken
  <1> HIDE DEF q, r
  <1>4. /\ stage' \in [Notification!Subjects -> Stages]
        /\ handlers' \in [Notification!Subjects -> SUBSET Members]
    BY <1>1, <1>3, TypedStory DEF Stages
  <1>5. StoryKept
    BY <1>1, <1>3, TypedStory DEF StoryKept, Notification!Subjects
  <1>6. m \in handlers'[e]
    BY <1>1, <1>3, TypedStory
  <1>7. \A x \in {q, r} : SettledBy(x)'
    BY <1>2, <1>6 DEF SettledBy
  <1>8. {q, r} \in SUBSET Notification!Row
    BY <1>2
  <1> QED
    BY <1>3, <1>4, <1>5, <1>7, <1>8, Told

LEMMA RouteEscalationStep ==
  ASSUME NoteInv, NEW e \in Escalations, NEW m \in Members, NEW a \in Members \cup {Nobody},
         Notification!RouteEscalation(e, m, a)
  PROVE  NoteInv'
  <1>1. PICK b \in Members \cup {Nobody} : Notification!Taken(e, m, b, clock)
    BY DEF Notification!RouteEscalation
  <1>2. clock' = clock + 1 /\ UNCHANGED <<eligible, worker, inbox, cleared, late, drain>>
    BY DEF Notification!RouteEscalation
  <1> QED
    BY <1>1, <1>2, TypedStory, TakenStep

LEMMA ClaimEscalationStep ==
  ASSUME NoteInv, NEW e \in Escalations, NEW m \in Members, Notification!ClaimEscalation(e, m)
  PROVE  NoteInv'
  <1>1. /\ Notification!Taken(e, m, m, clock)
        /\ clock' = clock + 1 /\ UNCHANGED <<eligible, worker, inbox, cleared, late, drain>>
    BY DEF Notification!ClaimEscalation
  <1> QED
    BY <1>1, TypedStory, TakenStep

\* A drain assigns what it read, whoever took it meanwhile.
LEMMA DrainEscalationStep ==
  ASSUME NoteInv, NEW m \in Members, NEW a \in Members \cup {Nobody},
         Notification!DrainEscalation(m, a)
  PROVE  NoteInv'
  <1>1. PICK e : e = drain.of
    OBVIOUS
  <1>2. PICK at : at = drain.at
    OBVIOUS
  <1>3. e \in Escalations /\ at \in Nat
    BY <1>1, <1>2, TypedStory DEF Notification!DrainEscalation
  <1>4. /\ Notification!Taken(e, m, a, at) /\ clock' = clock
        /\ UNCHANGED <<eligible, worker, inbox, cleared, late>> /\ drain' = Notification!NoDrain
    BY <1>1, <1>2 DEF Notification!DrainEscalation
  <1> QED
    BY <1>3, <1>4, TakenStep

\* The steps of a drain that assign nothing.
LEMMA DrainStep ==
  ASSUME NoteInv,
         \/ Notification!BeginDrain \/ Notification!EndDrain
         \/ \E e \in Escalations : Notification!ReadQueued(e)
  PROVE  NoteInv'
  <1>1. UNCHANGED <<eligible, stage, handlers, queue, worker, inbox, cleared, late>>
    BY DEF Notification!BeginDrain, Notification!EndDrain, Notification!ReadQueued
  <1>2. clock' \in Nat
    <2>1. clock' = clock \/ clock' = clock + 1
      BY DEF Notification!BeginDrain, Notification!EndDrain, Notification!ReadQueued
    <2> QED
      BY <2>1, TypedStory
  <1>3. drain' \in Drains /\ (drain'.step = "read" => drain'.of \in Escalations)
    <2>1. CASE Notification!BeginDrain
      BY <2>1, TypedStory DEF Notification!BeginDrain, Notification!NoDrain, Drains
    <2>2. CASE Notification!EndDrain
      BY <2>2 DEF Notification!EndDrain, Notification!NoDrain, Drains
    <2>3. CASE \E e \in Escalations : Notification!ReadQueued(e)
      BY <2>3, TypedStory DEF Notification!ReadQueued, Drains
    <2> QED
      BY <2>1, <2>2, <2>3
  <1>4. worker' = [w \in Workers |-> worker'[w]] /\ StoryKept
    BY <1>1 DEF NoteInv, StoryKept
  <1> QED
    BY <1>1, <1>2, <1>3, <1>4, TypedStory, InboxKept

LEMMA AwaitApprovalStep ==
  ASSUME NoteInv, NEW t \in Tools, Notification!AwaitApproval(t) PROVE NoteInv'
  <1>1. t \in Notification!Subjects
    BY DEF Notification!Subjects
  <1>2. /\ stage' = [stage EXCEPT ![t] = "awaiting"]
        /\ UNCHANGED <<handlers, drain, queue, worker, inbox, cleared, late, clock, eligible>>
    BY DEF Notification!AwaitApproval
  <1>3. stage' \in [Notification!Subjects -> Stages]
    BY <1>2, TypedStory DEF Stages
  <1>4. StoryKept
    BY <1>2 DEF StoryKept
  <1>5. clock' \in Nat /\ worker' = [w \in Workers |-> worker'[w]]
    BY <1>2 DEF NoteInv
  <1> QED
    BY <1>2, <1>3, <1>4, <1>5, TypedStory, InboxKept

LEMMA AskForApprovalStep ==
  ASSUME NoteInv, NEW t \in Tools, Notification!AskForApproval(t) PROVE NoteInv'
  <1> DEFINE r == Notification!Ask(t, Nobody)
  <1>1. t \in Notification!Subjects
    BY DEF Notification!Subjects
  <1>2. r \in Notification!Row /\ r.type = "requested"
    BY <1>1 DEF NoteInv, Notification!Ask, Notification!Row
  <1>3. /\ stage' = [stage EXCEPT ![t] = IF stage[t] = "awaiting" THEN "open" ELSE "handled"]
        /\ handlers' = handlers /\ drain' = drain
        /\ queue' = queue \cup {r} /\ clock' = clock + 1
        /\ UNCHANGED <<eligible, worker, inbox, cleared, late>>
    BY <1>1, TypedStory DEF Notification!AskForApproval, Notification!Emit
  <1>4. stage' \in [Notification!Subjects -> Stages]
    BY <1>3, TypedStory DEF Stages
  <1>5. StoryKept
    BY <1>3 DEF StoryKept
  <1> HIDE DEF r
  <1>6. {r} \in SUBSET Notification!Row /\ \A x \in {r} : SettledBy(x)'
    BY <1>2 DEF SettledBy
  <1>7. handlers' \in [Notification!Subjects -> SUBSET Members]
    BY <1>3, TypedStory
  <1> QED
    BY <1>3, <1>4, <1>5, <1>6, <1>7, Told

LEMMA DecideStep ==
  ASSUME NoteInv, NEW t \in Tools, NEW m \in Members, Notification!Decide(t, m) PROVE NoteInv'
  <1> DEFINE r == Notification!Resolved(t, m, clock)
  <1>1. t \in Notification!Subjects
    BY DEF Notification!Subjects
  <1>2. r \in Notification!Row /\ r.subject = t /\ r.by = m
    BY <1>1, Rows, TypedStory
  <1>3. /\ stage' = [stage EXCEPT ![t] =
                       IF stage[t] = "awaiting" THEN "decided early" ELSE "handled"]
        /\ handlers' = [handlers EXCEPT ![t] = handlers[t] \cup {m}] /\ drain' = drain
        /\ queue' = queue \cup {r} /\ clock' = clock + 1
        /\ UNCHANGED <<eligible, worker, inbox, cleared, late>>
    BY <1>1, TypedStory DEF Notification!Decide, Notification!Emit
  <1> HIDE DEF r
  <1>4. /\ stage' \in [Notification!Subjects -> Stages]
        /\ handlers' \in [Notification!Subjects -> SUBSET Members]
    BY <1>1, <1>3, TypedStory DEF Stages
  <1>5. StoryKept
    BY <1>1, <1>3, TypedStory DEF StoryKept, Notification!Subjects
  <1>6. m \in handlers'[t]
    BY <1>1, <1>3, TypedStory
  <1>7. {r} \in SUBSET Notification!Row /\ \A x \in {r} : SettledBy(x)'
    BY <1>2, <1>6 DEF SettledBy
  <1> QED
    BY <1>3, <1>4, <1>5, <1>7, Told

\* An assignment is no escalation and no request: nothing ever resolves it.
LEMMA AssignStep ==
  ASSUME NoteInv, NEW c \in Conversations, NEW m \in Members, NEW a \in Members \cup {Nobody},
         Notification!Assign(c, m, a)
  PROVE  NoteInv'
  <1> DEFINE r == Notification!Tell(c, m, a, clock)
  <1>1. c \in Notification!Subjects
    BY DEF Notification!Subjects
  <1>2. r \in Notification!Row /\ r.type = "requested"
    BY <1>1, TypedStory DEF Notification!Tell, Notification!Row
  <1>3. PICK rows \in {{}, {r}} :
          /\ stage' = stage /\ handlers' = [handlers EXCEPT ![c] = {m}] /\ drain' = drain
          /\ queue' = queue \cup rows /\ clock' = clock + 1
          /\ UNCHANGED <<eligible, worker, inbox, cleared, late>>
    BY DEF Notification!Assign, Notification!Emit
  <1> HIDE DEF r
  <1>4. /\ stage' \in [Notification!Subjects -> Stages]
        /\ handlers' \in [Notification!Subjects -> SUBSET Members]
    BY <1>1, <1>3, TypedStory
  <1>5. StoryKept
    BY <1>1, <1>3, TypedStory, NoteConstants DEF StoryKept, Notification!Subjects
  <1>6. rows \in SUBSET Notification!Row /\ \A x \in rows : SettledBy(x)'
    BY <1>2, <1>3 DEF SettledBy
  <1> QED
    BY <1>3, <1>4, <1>5, <1>6, Told

LEMMA DisableStep ==
  ASSUME NoteInv, NEW m \in Members, Notification!Disable(m) PROVE NoteInv'
  <1>1. UNCHANGED <<stage, handlers, drain, queue, worker, inbox, cleared, late, clock>>
    BY DEF Notification!Disable
  <1>2. eligible' \subseteq Members
    BY TypedStory DEF Notification!Disable
  <1>3. clock' \in Nat /\ worker' = [w \in Workers |-> worker'[w]] /\ StoryKept
    BY <1>1 DEF NoteInv, StoryKept
  <1> QED
    BY <1>1, <1>2, <1>3, TypedStory, InboxKept

\* A worker's step that tells no inbox: it takes a row, gives it back or lets go of it.
LEMMA WorkerStep ==
  ASSUME NoteInv, NEW w \in Workers,
         \/ Notification!Claim(w) \/ Notification!ResolveRecipients(w)
         \/ Notification!Delete(w) \/ Notification!Fail(w) \/ Notification!Die(w)
  PROVE  NoteInv'
  <1>1. UNCHANGED <<eligible, stage, handlers, drain, clock, inbox, cleared, late>>
    BY DEF Notification!Claim, Notification!ResolveRecipients, Notification!Delete,
           Notification!Fail, Notification!Die, Notification!story
  <1>2. clock' \in Nat /\ StoryKept
    BY <1>1 DEF NoteInv, StoryKept
  <1>3. /\ WorkerInv(w) /\ Notification!Idle.step = "idle"
        /\ worker[w] # Notification!Idle =>
             worker[w].row \in Notification!Row /\ SettledBy(worker[w].row)
    BY DEF NoteInv, WorkerInv, Notification!Idle
  <1>4. \A r \in queue : r \in Notification!Row /\ SettledBy(r)
    BY DEF NoteInv, Notification!TypeOK
  <1>5. \A r \in queue' \ queue : r = worker[w].row /\ worker[w] # Notification!Idle
    BY DEF Notification!Claim, Notification!ResolveRecipients, Notification!Delete,
           Notification!Fail, Notification!Die
  <1>6. \A r \in queue' \ queue : r \in Notification!Row /\ SettledBy(r)'
    BY <1>1, <1>3, <1>5 DEF SettledBy
  <1>7. PICK x : /\ worker' = [worker EXCEPT ![w] = x]
                 /\ \/ x = Notification!Idle
                    \/ \E r \in queue : x = [step |-> "claimed", row |-> r]
                    \/ /\ worker[w].step = "claimed"
                       /\ x = [step |-> "fan out", row |-> worker[w].row,
                               to |-> Notification!Recipients(worker[w].row)]
    BY DEF Notification!Claim, Notification!ResolveRecipients, Notification!Delete,
           Notification!Fail, Notification!Die
  <1>8. worker' = [v \in Workers |-> IF v = w THEN x ELSE worker[v]]
    BY <1>7 DEF NoteInv
  <1>9. /\ x.step \in {"idle", "claimed", "fan out"}
        /\ x.step = "idle" => x = Notification!Idle
        /\ x.step # "idle" => x.row \in Notification!Row /\ SettledBy(x.row)
    <2>1. CASE x = Notification!Idle
      BY <2>1, <1>3
    <2>2. CASE \E r \in queue : x = [step |-> "claimed", row |-> r]
      BY <2>2, <1>4
    <2>3. CASE /\ worker[w].step = "claimed"
               /\ x = [step |-> "fan out", row |-> worker[w].row,
                       to |-> Notification!Recipients(worker[w].row)]
      BY <2>3, <1>3
    <2> QED
      BY <1>7, <2>1, <2>2, <2>3
  <1>10. WorkerInv(w)'
    BY <1>1, <1>8, <1>9 DEF WorkerInv, SettledBy
  <1>11. \A v \in Workers : worker'[v] = worker[v] \/ WorkerInv(v)'
    <2>1. \A v \in Workers : v # w => worker'[v] = worker[v]
      BY <1>8
    <2> QED
      BY <2>1, <1>10
  <1>12. worker' = [v \in Workers |-> worker'[v]]
    BY <1>8
  <1> QED
    BY <1>1, <1>2, <1>6, <1>11, <1>12, TypedStory, InboxKept

\* The steps that write inboxes: the worker goes on to delete its row.
LEMMA InboxWritten ==
  ASSUME NoteInv, NEW w \in Workers, worker[w].step \in {"claimed", "fan out"},
         worker' = [worker EXCEPT ![w] = [step |-> "delete", row |-> worker[w].row]],
         UNCHANGED <<eligible, stage, handlers, drain, queue, clock>>,
         inbox' \in [Members -> [Notification!Subjects -> Notification!States]],
         late' \subseteq Members \X cleared', cleared' \subseteq Escalations \cup Tools,
         \A m \in Members, s \in Notification!Subjects :
           inbox'[m][s] = "resolved" => s \in cleared',
         Notification!ResolutionClears'
  PROVE  NoteInv'
  <1>1. WorkerInv(w) /\ worker[w].row \in Notification!Row /\ SettledBy(worker[w].row)
    BY DEF NoteInv, WorkerInv
  <1> DEFINE x == [step |-> "delete", row |-> worker[w].row]
  <1>2. x.step = "delete" /\ x.row \in Notification!Row /\ SettledBy(x.row)
    BY <1>1
  <1> HIDE DEF x
  <1>3. worker' = [v \in Workers |-> IF v = w THEN x ELSE worker[v]]
    BY DEF NoteInv, x
  <1>4. ASSUME NEW v \in Workers PROVE WorkerInv(v)'
    <2>1. CASE v = w
      BY <1>2, <1>3, <2>1 DEF WorkerInv, SettledBy
    <2>2. CASE v # w
      <3>1. worker'[v] = worker[v] /\ WorkerInv(v)
        BY <1>3, <2>2 DEF NoteInv
      <3> QED
        BY <3>1 DEF WorkerInv, SettledBy
    <2> QED
      BY <2>1, <2>2
  <1>5. \A v \in Workers : \/ worker'[v] = Notification!Idle
                           \/ /\ worker'[v].step \in {"claimed", "fan out", "delete"}
                              /\ worker'[v].row \in Notification!Row
    BY <1>4 DEF WorkerInv
  <1>6. Notification!TypeOK'
    BY <1>5 DEF NoteInv, Notification!TypeOK, Notification!Subjects
  <1>7. worker' = [v \in Workers |-> worker'[v]]
    BY <1>3
  <1>8. \A r \in queue' : SettledBy(r)'
    BY DEF NoteInv, SettledBy
  <1>9. clock' \in Nat
    BY DEF NoteInv
  <1> QED
    BY <1>4, <1>6, <1>7, <1>8, <1>9 DEF NoteInv

LEMMA TypedInbox ==
  ASSUME NoteInv
  PROVE  /\ inbox \in [Members -> [Notification!Subjects -> Notification!States]]
         /\ late \subseteq Members \X cleared /\ cleared \subseteq Escalations \cup Tools
         /\ \A m \in Members, s \in Notification!Subjects :
              inbox[m][s] \in {"none", "unread", "read", "resolved"}
         /\ \A m \in Members, s \in Notification!Subjects : inbox[m][s] = "resolved" => s \in cleared
  BY DEF NoteInv, Notification!TypeOK, Notification!States

\* A request that is fanned out after a resolution was applied is late.
LEMMA FanOutStep ==
  ASSUME NoteInv, NEW w \in Workers, Notification!FanOut(w) PROVE NoteInv'
  <1>0. worker[w].step = "fan out" /\ worker[w].row \in Notification!Row
    BY DEF Notification!FanOut, NoteInv, WorkerInv
  <1>s. PICK s \in Notification!Subjects : s = worker[w].row.subject
    BY <1>0 DEF Notification!Row
  <1> DEFINE to == worker[w].to
  <1>1. /\ inbox' = [m \in Members |->
             IF m \in to THEN [inbox[m] EXCEPT ![s] = Notification!Inserted(m, s)] ELSE inbox[m]]
        /\ late' = IF s \in cleared
                     THEN late \cup {<<m, s>> : m \in {n \in Members : n \in to /\ inbox[n][s] = "none"}}
                     ELSE late
        /\ worker' = [worker EXCEPT ![w] = [step |-> "delete", row |-> worker[w].row]]
        /\ UNCHANGED <<eligible, stage, handlers, drain, queue, clock, cleared>>
    BY <1>s DEF Notification!FanOut, Notification!story
  <1>2. \A m \in Members : Notification!Inserted(m, s) \in Notification!States
    BY TypedInbox DEF Notification!Inserted, Notification!States
  <1>3. inbox' \in [Members -> [Notification!Subjects -> Notification!States]]
    BY <1>1, <1>2, TypedInbox
  <1>4. ASSUME NEW m \in Members, NEW u \in Notification!Subjects
        PROVE  /\ inbox'[m][u] # inbox[m][u] => u = s /\ inbox'[m][u] = "unread"
               /\ inbox'[m][u] = "resolved" => inbox[m][u] = "resolved"
    BY <1>1, TypedInbox DEF Notification!Inserted
  <1>5. late' \subseteq Members \X cleared' /\ cleared' = cleared
    BY <1>1, TypedInbox
  <1>h. handlers' = handlers /\ late \subseteq late'
    BY <1>1
  <1>6. Notification!ResolutionClears'
    <2> SUFFICES ASSUME NEW m \in Members, NEW u \in Notification!Subjects
                 PROVE  /\ inbox'[m][u] = "unread" /\ u \in cleared' =>
                             m \in handlers'[u] \/ <<m, u>> \in late'
                        /\ inbox'[m][u] = "resolved" => handlers'[u] \ {m} # {}
      BY DEF Notification!ResolutionClears
    <2>0. /\ inbox[m][u] = "unread" /\ u \in cleared => m \in handlers[u] \/ <<m, u>> \in late
          /\ inbox[m][u] = "resolved" => handlers[u] \ {m} # {}
      BY DEF NoteInv, Notification!ResolutionClears
    <2>1. inbox'[m][u] = "resolved" => handlers'[u] \ {m} # {}
      BY <1>4, <1>h, <2>0
    <2>2. CASE inbox'[m][u] = inbox[m][u]
      BY <1>5, <1>h, <2>0, <2>1, <2>2
    <2>3. CASE inbox'[m][u] # inbox[m][u]
      <3>1. u = s /\ m \in to /\ inbox[m][s] = "none"
        BY <1>1, <1>4, <2>3, TypedInbox DEF Notification!Inserted
      <3>2. s \in cleared' => <<m, s>> \in late'
        BY <1>1, <1>5, <3>1
      <3> QED
        BY <2>1, <3>1, <3>2
    <2> QED
      BY <2>2, <2>3
  <1>7. \A m \in Members, u \in Notification!Subjects :
          inbox'[m][u] = "resolved" => u \in cleared'
    BY <1>4, <1>5, TypedInbox
  <1>8. cleared' \subseteq Escalations \cup Tools
    BY <1>5, TypedInbox
  <1> QED
    BY <1>0, <1>1, <1>3, <1>5, <1>6, <1>7, <1>8, InboxWritten

\* A resolution takes the subject from everybody but the one who handled it.
LEMMA ResolveStep ==
  ASSUME NoteInv, NEW w \in Workers, Notification!Resolve(w) PROVE NoteInv'
  <1>0. /\ worker[w].step = "claimed" /\ worker[w].row.type = "resolved"
        /\ worker[w].row \in Notification!Row /\ SettledBy(worker[w].row)
    BY DEF Notification!Resolve, NoteInv, WorkerInv
  <1>s. PICK s \in Notification!Subjects : s = worker[w].row.subject
    BY <1>0 DEF Notification!Row
  <1>b. PICK by : by = worker[w].row.by
    OBVIOUS
  <1>1. /\ inbox' = [m \in Members |->
             IF inbox[m][s] = "unread" /\ m # by
             THEN [inbox[m] EXCEPT ![s] = "resolved"] ELSE inbox[m]]
        /\ cleared' = cleared \cup {s}
        /\ worker' = [worker EXCEPT ![w] = [step |-> "delete", row |-> worker[w].row]]
        /\ UNCHANGED <<eligible, stage, handlers, drain, queue, clock, late>>
    BY <1>0, <1>s, <1>b DEF Notification!Resolve, Notification!story, Notification!Resolves
  <1>2. s \in Escalations \cup Tools /\ by \in handlers[s]
    BY <1>0, <1>s, <1>b DEF SettledBy
  <1>3. inbox' \in [Members -> [Notification!Subjects -> Notification!States]]
    BY <1>1, TypedInbox DEF Notification!States
  <1>4. ASSUME NEW m \in Members, NEW u \in Notification!Subjects
        PROVE  /\ u # s => inbox'[m][u] = inbox[m][u]
               /\ u = s => inbox'[m][u] = IF inbox[m][u] = "unread" /\ m # by
                                          THEN "resolved" ELSE inbox[m][u]
    BY <1>1, TypedInbox
  <1>5. Notification!ResolutionClears'
    <2> SUFFICES ASSUME NEW m \in Members, NEW u \in Notification!Subjects
                 PROVE  /\ inbox'[m][u] = "unread" /\ u \in cleared' =>
                             m \in handlers'[u] \/ <<m, u>> \in late'
                        /\ inbox'[m][u] = "resolved" => handlers'[u] \ {m} # {}
      BY DEF Notification!ResolutionClears
    <2>0. /\ inbox[m][u] = "unread" /\ u \in cleared => m \in handlers[u] \/ <<m, u>> \in late
          /\ inbox[m][u] = "resolved" => handlers[u] \ {m} # {}
      BY DEF NoteInv, Notification!ResolutionClears
    <2>h. cleared' = cleared \cup {s} /\ handlers' = handlers /\ late' = late
      BY <1>1
    <2>1. CASE u = s
      BY <1>2, <1>4, <2>0, <2>1, <2>h
    <2>2. CASE u # s
      BY <1>4, <2>0, <2>2, <2>h
    <2> QED
      BY <2>1, <2>2
  <1>6. \A m \in Members, u \in Notification!Subjects :
          inbox'[m][u] = "resolved" => u \in cleared'
    BY <1>1, <1>4, TypedInbox
  <1>7. /\ late' \subseteq Members \X cleared'
        /\ cleared' \subseteq Escalations \cup Tools
    BY <1>1, <1>2, TypedInbox
  <1> QED
    BY <1>0, <1>1, <1>3, <1>5, <1>6, <1>7, InboxWritten

\* A member reads: nothing becomes unread or resolved by it.
LEMMA ReadStep ==
  ASSUME NoteInv, NEW m \in Members,
         Notification!MarkAllRead(m)
           \/ \E s \in Notification!Subjects : Notification!MarkRead(m, s)
  PROVE  NoteInv'
  <1>1. UNCHANGED <<eligible, stage, handlers, drain, clock, queue, worker, cleared, late>>
    BY DEF Notification!MarkAllRead, Notification!MarkRead, Notification!story
  <1>g. PICK g \in [Notification!Subjects -> Notification!States] :
          /\ inbox' = [inbox EXCEPT ![m] = g]
          /\ \A u \in Notification!Subjects : g[u] \in {"read", inbox[m][u]}
    <2>1. "read" \in Notification!States
      BY DEF Notification!States
    <2>2. CASE Notification!MarkAllRead(m)
      <3> DEFINE h == [s \in Notification!Subjects |->
                         IF inbox[m][s] = "unread" THEN "read" ELSE inbox[m][s]]
      <3>1. h \in [Notification!Subjects -> Notification!States]
        BY <2>1, TypedInbox
      <3>2. \A u \in Notification!Subjects : h[u] \in {"read", inbox[m][u]}
        OBVIOUS
      <3>3. inbox' = [inbox EXCEPT ![m] = h]
        BY <2>2 DEF Notification!MarkAllRead
      <3> HIDE DEF h
      <3> QED
        BY <3>1, <3>2, <3>3
    <2>3. CASE \E s \in Notification!Subjects : Notification!MarkRead(m, s)
      <3> PICK s \in Notification!Subjects : Notification!MarkRead(m, s)
        BY <2>3
      <3> DEFINE h == [inbox[m] EXCEPT ![s] = "read"]
      <3>1. h \in [Notification!Subjects -> Notification!States]
        BY <2>1, TypedInbox
      <3>2. \A u \in Notification!Subjects : h[u] \in {"read", inbox[m][u]}
        BY TypedInbox
      <3>3. inbox' = [inbox EXCEPT ![m] = h]
        BY DEF Notification!MarkRead
      <3> HIDE DEF h
      <3> QED
        BY <3>1, <3>2, <3>3
    <2> QED
      BY <2>2, <2>3
  <1>2. inbox' \in [Members -> [Notification!Subjects -> Notification!States]]
    BY <1>g, TypedInbox
  <1>3. ASSUME NEW n \in Members, NEW u \in Notification!Subjects
        PROVE  inbox'[n][u] \in {"read", inbox[n][u]}
    <2>1. CASE n = m
      BY <1>g, <2>1, TypedInbox
    <2>2. CASE n # m
      BY <1>g, <2>2, TypedInbox
    <2> QED
      BY <2>1, <2>2
  <1>4. Notification!TypeOK'
    BY <1>1, <1>2 DEF NoteInv, Notification!TypeOK
  <1>5. \A w \in Workers : WorkerInv(w)'
    BY <1>1 DEF NoteInv, WorkerInv, SettledBy
  <1>6. Notification!ResolutionClears'
    BY <1>1, <1>3 DEF NoteInv, Notification!ResolutionClears
  <1>7. /\ \A r \in queue' : SettledBy(r)'
        /\ clock' \in Nat /\ worker' = [w \in Workers |-> worker'[w]]
        /\ cleared' \subseteq Escalations \cup Tools
    BY <1>1 DEF NoteInv, SettledBy
  <1>8. \A n \in Members, u \in Notification!Subjects :
          inbox'[n][u] = "resolved" => u \in cleared'
    <2>1. \A n \in Members, u \in Notification!Subjects :
            inbox'[n][u] = "resolved" => inbox[n][u] = "resolved"
      BY <1>3
    <2> QED
      BY <1>1, <2>1 DEF NoteInv
  <1> QED
    BY <1>4, <1>5, <1>6, <1>7, <1>8 DEF NoteInv

\* What does not touch the notifications.
LEMMA NoteStutter == ASSUME NoteInv, UNCHANGED noteVars PROVE NoteInv'
  <1>1. UNCHANGED <<eligible, stage, handlers, drain, queue, clock, worker, inbox, cleared, late>>
    BY DEF noteVars
  <1>2. StoryKept /\ clock' \in Nat /\ worker' = [w \in Workers |-> worker'[w]]
    BY <1>1 DEF StoryKept, NoteInv
  <1> QED
    BY <1>1, <1>2, TypedStory, InboxKept

LEMMA NoteStep == ASSUME NoteInv, [Notification!Next]_noteVars PROVE NoteInv'
  <1>1. CASE Notification!Produce
    BY <1>1, QueueEscalationStep, RouteEscalationStep, ClaimEscalationStep, DrainStep,
       DrainEscalationStep, AwaitApprovalStep, AskForApprovalStep, DecideStep, AssignStep,
       DisableStep DEF Notification!Produce
  <1>2. ASSUME NEW w \in Workers,
               Notification!Work(w) \/ Notification!Fail(w) \/ Notification!Die(w)
        PROVE  NoteInv'
    BY <1>2, WorkerStep, FanOutStep, ResolveStep DEF Notification!Work
  <1> QED
    BY <1>1, <1>2, ReadStep, NoteStutter DEF Notification!Next

\* What was read or resolved is never unread again.
LEMMA NothingUnreadAgain ==
  ASSUME NoteInv, [Notification!Next]_noteVars,
         NEW m \in Members, NEW s \in Notification!Subjects, inbox[m][s] \in {"read", "resolved"}
  PROVE  inbox'[m][s] \in {"read", inbox[m][s]}
  <1>1. ASSUME NEW w \in Workers, Notification!FanOut(w)
        PROVE  inbox'[m][s] \in {"read", inbox[m][s]}
    <2>1. CASE s = worker[w].row.subject
      BY <1>1, <2>1, TypedInbox DEF Notification!FanOut, Notification!Inserted
    <2>2. CASE s # worker[w].row.subject
      BY <1>1, <2>2, TypedInbox DEF Notification!FanOut
    <2> QED
      BY <2>1, <2>2
  <1>2. ASSUME NEW w \in Workers, Notification!Resolve(w)
        PROVE  inbox'[m][s] \in {"read", inbox[m][s]}
    <2>1. CASE s = worker[w].row.subject
      BY <1>2, <2>1, TypedInbox DEF Notification!Resolve, Notification!Resolves
    <2>2. CASE s # worker[w].row.subject
      BY <1>2, <2>2, TypedInbox DEF Notification!Resolve
    <2> QED
      BY <2>1, <2>2
  <1>3. ASSUME NEW n \in Members, Notification!MarkAllRead(n)
        PROVE  inbox'[m][s] \in {"read", inbox[m][s]}
    BY <1>3, TypedInbox DEF Notification!MarkAllRead
  <1>4. ASSUME NEW n \in Members, NEW u \in Notification!Subjects, Notification!MarkRead(n, u)
        PROVE  inbox'[m][s] \in {"read", inbox[m][s]}
    BY <1>4, TypedInbox DEF Notification!MarkRead
  <1>5. ASSUME Notification!Produce PROVE UNCHANGED inbox
    BY <1>5 DEF Notification!Produce, Notification!QueueEscalation,
       Notification!RouteEscalation, Notification!ClaimEscalation, Notification!BeginDrain,
       Notification!ReadQueued, Notification!DrainEscalation, Notification!EndDrain,
       Notification!Taken, Notification!AwaitApproval, Notification!AskForApproval,
       Notification!Decide, Notification!Assign, Notification!Disable, Notification!Emit
  <1>6. ASSUME NEW w \in Workers,
               \/ Notification!Claim(w) \/ Notification!ResolveRecipients(w)
               \/ Notification!Delete(w) \/ Notification!Fail(w) \/ Notification!Die(w)
        PROVE  UNCHANGED inbox
    BY <1>6 DEF Notification!Claim, Notification!ResolveRecipients, Notification!Delete,
       Notification!Fail, Notification!Die
  <1>7. CASE UNCHANGED noteVars
    BY <1>7 DEF noteVars
  <1> QED
    BY <1>1, <1>2, <1>3, <1>4, <1>5, <1>6, <1>7 DEF Notification!Next, Notification!Work

-----------------------------------------------------------------------------
(* The composition.                                                        *)

OutboxInv == MailInv /\ NoteInv

LEMMA OutboxInit == ASSUME Init PROVE OutboxInv
  BY MailInit, NoteInit DEF Init, OutboxInv

\* A step is one of the mails, one of the notifications, or none of either.
LEMMA StepOfEither ==
  ASSUME [Next]_vars PROVE [Delivery!Next]_mailVars /\ [Notification!Next]_noteVars
  BY DEF Next, vars, OfMails, OfNotifications, mailVars, noteVars

LEMMA OutboxStep == ASSUME OutboxInv, [Next]_vars PROVE OutboxInv'
  BY StepOfEither, MailStep, NoteStep DEF OutboxInv

\* Both invariants are inductive.
THEOREM OutboxInvariance == FairSpec => []OutboxInv
  <1> QED
    BY OutboxInit, OutboxStep, PTL DEF FairSpec

\* The types of both consumers; among them that a mail is passed on no more often than
\* attempts were counted (claim_invitation_email raises attempts before anything is sent).
THEOREM TypeCorrect == FairSpec => []TypeOK
  <1>1. OutboxInv => TypeOK
    BY DEF OutboxInv, MailInv, NoteInv, TypeOK
  <1> QED
    BY OutboxInvariance, <1>1, PTL

\* The status staff see agrees with the row, whichever calls outlive their lease or die: who
\* writes an end still holds the claim, so that nobody ended the row before.
THEOREM StatusTrue == FairSpec => []StatusTellsTheRow
  <1>1. OutboxInv => StatusTellsTheRow
    BY DEF OutboxInv, MailInv, StatusTellsTheRow
  <1> QED
    BY OutboxInvariance, <1>1, PTL

\* A resolution clears the subject for all but those who took it and those first told of it
\* later, nobody loses his own unless somebody else took the subject too, and nothing becomes
\* unread again, for any number of workers that handle rows twice, late and out of order.
THEOREM InboxesSettle == FairSpec => InboxSettles
  <1>1. OutboxInv /\ [Next]_vars => Notification!ResolutionClears'
    BY OutboxStep DEF OutboxInv, NoteInv
  <1>2. OutboxInv /\ [Next]_vars =>
          \A m \in Members, s \in Notification!Subjects : inbox[m][s] \in {"read", "resolved"} =>
            inbox'[m][s] \in {"read", inbox[m][s]}
    BY StepOfEither, NothingUnreadAgain DEF OutboxInv
  <1>3. OutboxInv /\ [Next]_vars =>
          [ /\ Notification!ResolutionClears'
            /\ \A m \in Members, s \in Notification!Subjects : inbox[m][s] \in {"read", "resolved"} =>
                 inbox'[m][s] \in {"read", inbox[m][s]} ]_(Notification!vars)
    BY <1>1, <1>2
  <1> QED
    BY OutboxInvariance, <1>3, PTL DEF FairSpec, InboxSettles, Notification!InboxSettles

=============================================================================
