------------------------------- MODULE AiCalls -------------------------------
(***************************************************************************)
(* The calls of a tenant to AI providers (ai/src: service.rs,              *)
(* resolution.rs, usage.rs and the configuration handlers of routes.rs).   *)
(*                                                                         *)
(* A call resolves the configuration and then, one by one, the keys of the *)
(* providers it names, while staff change either.  It tries the primary    *)
(* and the fallbacks in turn, each up to Tries times.  A stream forwards   *)
(* what the provider sends as it comes, so it may only start again while   *)
(* no text has left.  What a call did goes to the usage ledger.            *)
(*                                                                         *)
(* Providers are external: what they send is any sequence of the events    *)
(* of ai_providers::StreamEvent.                                           *)
(***************************************************************************)
EXTENDS Naturals, Sequences, FiniteSets

CONSTANTS
  Providers,
  Nobody,        \* no provider
  Tries,         \* 3 in the code
  MaxSent,       \* bound: events of one call that reach the consumer
  MaxChanges     \* bound: changes of the configuration

Scopes == {"tenant", "platform"}

\* What the constants are; the instance assumes it.
CallsAssumption == Nobody \notin Providers /\ {Tries, MaxSent} \subseteq Nat \ {0} /\ MaxChanges \in Nat

VARIABLES
  config,   \* ai_configurations: the live row of each scope
  keys,     \* ai_credentials: whose live keys each scope has
  edits,    \* how many changes there were
  call,     \* the task of one call
  sent,     \* what its consumer received
  gone,     \* the consumer has dropped the stream
  records   \* ai_usage_records of the call

configVars == <<config, keys, edits>>
callVars == <<call, sent, gone, records>>

NoConfig == [primary |-> Nobody, fallback |-> Nobody]
NoCall == [step |-> "idle", mode |-> "none", config |-> NoConfig, attempts |-> <<>>,
           at |-> 1, try |-> 1, told |-> FALSE]

Init ==
  /\ config = [s \in Scopes |-> NoConfig]
  /\ keys = [s \in Scopes |-> {}]
  /\ edits = 0
  /\ call = NoCall /\ sent = <<>> /\ gone = FALSE /\ records = <<>>

-----------------------------------------------------------------------------
(* The configuration.                                                      *)

\* A bound besides MaxChanges: none after the call has read what it needs.
Edit ==
  /\ edits < MaxChanges /\ call.step \in {"idle", "primary", "fallback"}
  /\ edits' = edits + 1
  /\ UNCHANGED callVars

\* ConfigPayload: a fallback differs from the primary.
ConfigPayload ==
  {c \in [primary : Providers, fallback : Providers \cup {Nobody}] : c.fallback # c.primary}

\* Both scopes' rows are inserted or overwritten; only the tenant's is ever deleted.
PutTenantConfig ==
  /\ Edit
  /\ \E c \in ConfigPayload : config' = [config EXCEPT !["tenant"] = c]
  /\ UNCHANGED keys

PutPlatformConfig ==
  /\ Edit
  /\ \E c \in ConfigPayload : config' = [config EXCEPT !["platform"] = c]
  /\ UNCHANGED keys

DeleteTenantConfig ==
  /\ Edit
  /\ config["tenant"] # NoConfig
  /\ config' = [config EXCEPT !["tenant"] = NoConfig]
  /\ UNCHANGED keys

SetKeys(s, ks) ==
  /\ Edit
  /\ ks # keys[s]
  /\ keys' = [keys EXCEPT ![s] = ks]
  /\ UNCHANGED config

PutTenantCredential(p) == SetKeys("tenant", keys["tenant"] \cup {p})
DeleteTenantCredential(p) == SetKeys("tenant", keys["tenant"] \ {p})
PutPlatformCredential(p) == SetKeys("platform", keys["platform"] \cup {p})
DeletePlatformCredential(p) == SetKeys("platform", keys["platform"] \ {p})

Configure ==
  \/ PutTenantConfig \/ PutPlatformConfig \/ DeleteTenantConfig
  \/ \E p \in Providers :
       \/ PutTenantCredential(p) \/ DeleteTenantCredential(p)
       \/ PutPlatformCredential(p) \/ DeletePlatformCredential(p)

-----------------------------------------------------------------------------
(* Resolving.                                                              *)

\* resolve_config: the tenant's row before the platform's.
Resolved == IF config["tenant"] # NoConfig THEN config["tenant"] ELSE config["platform"]

\* resolve_credential: either scope's.
HasKey(p) == \E s \in Scopes : p \in keys[s]

End == call' = [call EXCEPT !.step = "over"]

\* A call that finds no configuration fails with NotConfigured.
Begin(mode, c) ==
  /\ call.step = "idle"
  /\ Resolved # NoConfig
  /\ call' = [NoCall EXCEPT !.step = "primary", !.mode = mode, !.config = c]
  /\ UNCHANGED <<configVars, sent, gone, records>>

BeginComplete == Begin("complete", Resolved)
BeginStream == Begin("stream", Resolved)

\* An agent's own provider, without the configuration's fallback.
Override(p) == [primary |-> p, fallback |-> Nobody]
BeginCompleteWithOverride(p) == Begin("complete_with_override", Override(p))
BeginStreamWithOverride(p) == Begin("stream_with_override", Override(p))

\* An attempt for every provider that has a key when it is looked up.
Look(step, p, next) ==
  /\ call.step = step
  /\ call' = [call EXCEPT !.step = next, !.attempts = IF HasKey(p) THEN Append(@, p) ELSE @]
  /\ UNCHANGED <<configVars, sent, gone, records>>

FindPrimary == Look("primary", call.config.primary, "fallback")
FindFallback == Look("fallback", call.config.fallback, "ready")

Streams == call.mode \in {"stream", "stream_with_override"}
Overridden == call.mode \in {"complete_with_override", "stream_with_override"}

Start ==
  /\ call.step = "ready"
  /\ call' = [call EXCEPT !.step =
       IF call.attempts = <<>> THEN "over" ELSE IF Streams THEN "open" ELSE "complete"]
  /\ UNCHANGED <<configVars, sent, gone, records>>

-----------------------------------------------------------------------------
(* Calling.                                                                *)

LastTry == call.try = Tries
LastAttempt == call.at = Len(call.attempts)
Again(c) == [c EXCEPT !.try = @ + 1]
NextAttempt(c) == [c EXCEPT !.at = @ + 1, !.try = 1]

\* usage::insert, whose errors are only logged.
Record(status, provider) ==
  \/ UNCHANGED records
  \/ records' = Append(records, [status |-> status, provider |-> provider])

Here == call.attempts[call.at]

\* run_attempts_traced: only what is worth a retry is tried again, and elsewhere.
Complete ==
  /\ call.step = "complete"
  /\ \/ Record("success", Here) /\ End
     \/ Record("failure", Here) /\ End
     \/ /\ ~(LastTry /\ LastAttempt)
        /\ call' = IF LastTry THEN NextAttempt(call) ELSE Again(call)
        /\ UNCHANGED records
  /\ UNCHANGED <<configVars, sent, gone>>

\* An event for the consumer, unless he is gone.
Send(kind) ==
  IF gone THEN UNCHANGED sent
          ELSE sent' = Append(sent, [kind |-> kind, at |-> call.at, try |-> call.try])

\* The last attempt failed, or the last stream ended early.  The record of it names no
\* provider, and the ledger takes none without.
GiveUp == Send("error") /\ End /\ UNCHANGED records

\* provider.stream: it answers,
Open ==
  /\ call.step = "open"
  /\ call' = [call EXCEPT !.step = "stream"]
  /\ UNCHANGED <<configVars, sent, gone, records>>

\* or fails: it is tried again if that is worth it, and then elsewhere.
OpenFails ==
  /\ call.step = "open" /\ ~Overridden
  /\ \/ ~LastTry /\ call' = Again(call) /\ UNCHANGED <<sent, records>>
     \/ ~LastAttempt /\ call' = NextAttempt(call) /\ UNCHANGED <<sent, records>>
     \/ LastAttempt /\ GiveUp
  /\ UNCHANGED <<configVars, gone>>

Fails == Record("failure", Here) /\ Send("error") /\ End

\* stream_with_override tries once.
OverriddenFails ==
  /\ call.step = "open" /\ Overridden
  /\ Fails
  /\ UNCHANGED <<configVars, gone>>

\* StreamEvent::ToolCall; nothing is recorded of a consumer who is gone.
ToolCall ==
  /\ call.step = "stream" /\ Len(sent) < MaxSent
  /\ Send("tool")
  /\ IF gone THEN End ELSE UNCHANGED call
  /\ UNCHANGED <<configVars, gone, records>>

\* StreamEvent::Delta.
Delta ==
  /\ call.step = "stream" /\ Len(sent) < MaxSent
  /\ Send("delta")
  /\ IF gone THEN Record("failure", Here) /\ End
             ELSE call' = [call EXCEPT !.told = TRUE] /\ UNCHANGED records
  /\ UNCHANGED <<configVars, gone>>

\* StreamEvent::Done, whether or not somebody hears it.
Finish ==
  /\ call.step = "stream"
  /\ Record("success", Here)
  /\ Send("done") /\ End
  /\ UNCHANGED <<configVars, gone>>

\* Mutant: what is worth a retry is tried again whatever has left.
BreakAnyway ==
  /\ call.step = "stream"
  /\ \/ /\ ~Overridden /\ ~LastTry
        /\ call' = [Again(call) EXCEPT !.step = "open"]
        /\ UNCHANGED <<sent, records>>
     \/ Fails
  /\ UNCHANGED <<configVars, gone>>

\* The stream breaks.  It is opened again if the error is worth it, no text has left and it
\* was not the last try; there is no other attempt.
Break ==
  /\ call.step = "stream"
  /\ \/ /\ ~Overridden /\ ~call.told /\ ~LastTry
        /\ call' = [Again(call) EXCEPT !.step = "open"]
        /\ UNCHANGED <<sent, records>>
     \/ Fails
  /\ UNCHANGED <<configVars, gone>>

\* The stream of a call with an override ends without Done.
OverriddenEndsEarly ==
  /\ call.step = "stream" /\ Overridden
  /\ Fails
  /\ UNCHANGED <<configVars, gone>>

\* Any other: after a text, the call is over; before one it is tried again, at once.
EndEarly ==
  /\ call.step = "stream" /\ ~Overridden
  /\ CASE call.told -> End /\ UNCHANGED <<sent, records>>
       [] ~call.told /\ ~(LastTry /\ LastAttempt) ->
            /\ call' = [(IF LastTry THEN NextAttempt(call) ELSE Again(call)) EXCEPT !.step = "open"]
            /\ UNCHANGED <<sent, records>>
       [] OTHER -> GiveUp
  /\ UNCHANGED <<configVars, gone>>

\* The consumer drops the receiver.
Leave ==
  /\ call.step \in {"open", "stream"} /\ ~gone
  /\ gone' = TRUE
  /\ UNCHANGED <<configVars, call, sent, records>>

Next ==
  \/ Configure
  \/ BeginComplete \/ BeginStream
  \/ \E p \in Providers : BeginCompleteWithOverride(p) \/ BeginStreamWithOverride(p)
  \/ FindPrimary \/ FindFallback \/ Start
  \/ Complete
  \/ Open \/ OpenFails \/ OverriddenFails
  \/ ToolCall \/ Delta \/ Finish \/ Break \/ EndEarly \/ OverriddenEndsEarly \/ Leave

-----------------------------------------------------------------------------
\* Types.
TypeOK ==
  /\ \A s \in Scopes : keys[s] \subseteq Providers /\ config[s].primary \in Providers \cup {Nobody}
  /\ call.try \in 1..Tries
  /\ call.step \notin {"idle", "over"} => call.at <= Len(call.attempts) + 1
  /\ \A i \in DOMAIN call.attempts : call.attempts[i] \in {call.config.primary, call.config.fallback}

Ends(e) == e.kind \in {"done", "error"}

\* Whichever attempts, retries and configuration changes a stream went through, its
\* consumer reads one text: the deltas are of one try of one attempt, what ends the stream
\* is its last event, and it ends with Done only on the try the text is of.
\* The ledger has at most one record of the call, of the attempt it ended with, and it says
\* what the consumer heard: no success where he was told an error, no failure where Done.
StreamIsCoherent ==
  /\ \A i, j \in DOMAIN sent :
       /\ sent[i].kind = "delta" /\ sent[j].kind \in {"delta", "done"} =>
            sent[i].at = sent[j].at /\ sent[i].try = sent[j].try
       /\ Ends(sent[i]) => i = Len(sent) /\ call.step = "over"
  /\ Len(records) <= 1
  /\ \A i \in DOMAIN records :
       /\ records[i].provider = Here
       /\ \A j \in DOMAIN sent :
            Ends(sent[j]) => (records[i].status = "success") = (sent[j].kind = "done")

=============================================================================
