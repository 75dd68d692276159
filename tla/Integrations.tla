---------------------------- MODULE Integrations ----------------------------
(***************************************************************************)
(* A tenant's connection to one entry of the catalog (integrations/src):   *)
(* staff connect it, change it, rotate its secrets and disconnect it, each *)
(* request looking at the connection first and committing later; outside   *)
(* systems post signed deliveries to its address.                          *)
(*                                                                         *)
(* All its secret fields are one, numbered by the commit that entered it;  *)
(* so is its token, the secret part of its address.  A server that is      *)
(* given another master key cannot open what was entered before.           *)
(***************************************************************************)
EXTENDS Naturals, FiniteSets

CONSTANTS
  Requests,    \* requests of staff that run at once
  Deliveries,  \* posts to the address
  MaxChanges   \* bound: commits of requests

ASSUME ChangesAssumption == MaxChanges \in Nat

VARIABLES
  conn,      \* integration_connections with its integration_secrets
  changes,   \* commits so far: the clock
  request,
  delivery

connVars == <<conn, changes, request, delivery>>

Time == 0..MaxChanges
Conn == [state : {"never", "on", "off"}, token : Time, secret : Time, offAt : Time, key : Time]
Request == {"idle", "connect", "configure", "rotate", "disconnect"}
Delivery == [step : {"idle", "verify", "record", "accepted", "rejected"}, token : Time,
             signed : Time, at : Time, logged : BOOLEAN]

Init ==
  /\ conn = [state |-> "never", token |-> 0, secret |-> 0, offAt |-> 0, key |-> 0]
  /\ changes = 0
  /\ request = [r \in Requests |-> "idle"]
  /\ delivery = [d \in Deliveries |->
       [step |-> "idle", token |-> 0, signed |-> 0, at |-> 0, logged |-> FALSE]]

-----------------------------------------------------------------------------
(* Staff.                                                                  *)

\* What a request may go on to do with the connection it found.
Allowed(op) == IF conn.state = "on" THEN op # "connect" ELSE op = "connect"

Begin(r) ==
  /\ request[r] = "idle"
  /\ changes < MaxChanges
  /\ \E op \in Request \ {"idle"} :
       Allowed(op) /\ request' = [request EXCEPT ![r] = op]
  /\ UNCHANGED <<conn, changes, delivery>>

\* Refused by the schema, or a statement failed: nothing is committed.
GiveUp(r) ==
  /\ request[r] # "idle"
  /\ request' = [request EXCEPT ![r] = "idle"]
  /\ UNCHANGED <<conn, changes, delivery>>

Commit(r, new) ==
  /\ changes < MaxChanges
  /\ conn' = new
  /\ changes' = changes + 1
  /\ request' = [request EXCEPT ![r] = "idle"]
  /\ UNCHANGED delivery

\* connect_integration: the one row of tenant and entry is made or revived, with
\* another address, and its secrets replaced.
Connect(r) ==
  /\ request[r] = "connect"
  /\ Commit(r, [conn EXCEPT !.state = "on", !.token = changes + 1, !.secret = changes + 1,
                             !.offAt = 0])

\* update_integration_config.
Configure(r) == request[r] = "configure" /\ Commit(r, conn)

\* The same, with secrets: nobody looks whether the connection is still on.
Rotate(r) == request[r] = "rotate" /\ Commit(r, [conn EXCEPT !.secret = changes + 1])

\* disconnect_integration.
Disconnect(r) ==
  /\ request[r] = "disconnect"
  /\ Commit(r, [conn EXCEPT !.state = "off", !.secret = 0, !.offAt = changes + 1])

\* The servers are restarted with another master key.
Rekey ==
  /\ conn.key # changes
  /\ conn' = [conn EXCEPT !.key = changes]
  /\ UNCHANGED <<changes, request, delivery>>

\* There is a secret, and it opens.
Opens == conn.secret > conn.key

-----------------------------------------------------------------------------
(* receive_webhook.                                                        *)

Advance(d, new) ==
  /\ delivery' = [delivery EXCEPT ![d] = new]
  /\ UNCHANGED <<conn, changes, request>>

\* Signed with a secret its sender was given at some time, posted to an address he was.
\* What comes for an inactive connection or too often is logged once a minute.
Receive(d) ==
  /\ delivery[d].step = "idle"
  /\ \E token, signed \in 1..changes, log, limited \in BOOLEAN :
       LET arrived == [step |-> "verify", token |-> token, signed |-> signed,
                       at |-> changes, logged |-> FALSE]
       IN IF token = conn.token /\ conn.state = "on" /\ ~limited
            THEN Advance(d, arrived)
            ELSE /\ token # conn.token => ~log
                 /\ Advance(d, [arrived EXCEPT !.step = "rejected", !.logged = log])

Signed(d) == Opens /\ delivery[d].signed = conn.secret

Verify(d) ==
  /\ delivery[d].step = "verify"
  /\ \E json \in BOOLEAN :
       Advance(d, IF Signed(d) /\ json
                    THEN [delivery[d] EXCEPT !.step = "record"]
                    ELSE [delivery[d] EXCEPT !.step = "rejected", !.logged = TRUE])

\* The delivery and its event, or neither.
Record(d) ==
  /\ delivery[d].step = "record"
  /\ \/ Advance(d, [delivery[d] EXCEPT !.step = "accepted", !.logged = TRUE])
     \/ Advance(d, [delivery[d] EXCEPT !.step = "rejected"])

\* retention::sweep_expired after ninety days.
Sweep(d) ==
  /\ delivery[d].step \in {"accepted", "rejected"}
  /\ Advance(d, [step |-> "idle", token |-> 0, signed |-> 0, at |-> 0, logged |-> FALSE])

Staff ==
  \/ \E r \in Requests :
       Begin(r) \/ GiveUp(r) \/ Connect(r) \/ Configure(r) \/ Rotate(r) \/ Disconnect(r)
  \/ Rekey

Outside == \E d \in Deliveries : Receive(d) \/ Verify(d) \/ Record(d) \/ Sweep(d)

-----------------------------------------------------------------------------
\* Types.
ConnTypeOK ==
  /\ conn \in Conn /\ changes \in Time
  /\ request \in [Requests -> Request]
  /\ delivery \in [Deliveries -> Delivery]

\* The connection is on, or was since the given time.
OnSince(at) == conn.state = "on" \/ conn.offAt > at

=============================================================================
