------------------------------ MODULE MCSettings ------------------------------
(***************************************************************************)
(* Small instances of what staff set up for the AI and of its use: the     *)
(* knowledge base with its indexers, the agent's prompt, configuration and *)
(* avatar, and the calls to the providers.  A behaviour is one of these;   *)
(* the rest of the state stays as it begins.                               *)
(***************************************************************************)
EXTENDS Naturals, Sequences, FiniteSets

CONSTANTS
  Articles, Documents, Texts, Bare, NoText, Editors, Indexers, MaxRetries, MaxEvents, MaxStops,
  Writers, Contents, Free, MaxVersions,
  Providers, Nobody, Tries, MaxSent, MaxChanges

VARIABLES
  part,
  alone, item, file, index, chunks, events, asked, request, worker, lost,
  versions, agent, live, uploads, rowBy, liveBy, writer,
  config, keys, edits, call, sent, gone, records

Base == INSTANCE Knowledge
Agent == INSTANCE AgentSettings
Calls == INSTANCE AiCalls

ASSUME SettingsAssumption ==
  Base!KnowledgeAssumption /\ Agent!SettingsAssumption /\ Calls!CallsAssumption

baseVars == <<alone, item, file, index, chunks, events, asked, request, worker, lost>>
promptVars == <<versions>>
agentVars == <<agent, live, uploads, rowBy, liveBy>>
callVars == <<config, keys, edits, call, sent, gone, records>>
vars == <<part, baseVars, promptVars, agentVars, writer, callVars>>

Init ==
  /\ part \in {"articles", "documents", "prompt", "agent", "calls"}
  /\ Base!Init /\ Agent!Init /\ Calls!Init

\* Authored and uploaded items by themselves.
OfKnowledge ==
  /\ part \in {"articles", "documents"}
  /\ part = "articles" => \A d \in Documents : ~file'[d]
  /\ part = "documents" => \A a \in Articles : item'[a].status = "none"
  /\ UNCHANGED <<part, promptVars, agentVars, writer, callVars>>
OfPrompt == part = "prompt" /\ UNCHANGED <<part, baseVars, callVars>>
OfAgent == part = "agent" /\ UNCHANGED <<part, baseVars, callVars>>
OfCalls == part = "calls" /\ UNCHANGED <<part, baseVars, promptVars, agentVars, writer>>

Next ==
  \/ Base!Next /\ OfKnowledge
  \/ OfPrompt /\ Agent!PromptNext
  \/ OfAgent /\ Agent!AgentNext
  \/ OfCalls /\ Calls!Next

\* Indexers go on, and delays end.
Fairness ==
  /\ \A x \in Indexers : WF_vars(x \in Base!Running /\ Base!Work(x) /\ OfKnowledge)
  /\ WF_vars((\E e \in events : Base!BecomeDue(e)) /\ OfKnowledge)

Spec == Init /\ [][Next]_vars /\ Fairness

\* The types of all three.
TypeOK == Base!TypeOK /\ Agent!TypeOK /\ Calls!TypeOK

\* Knowledge: the index state tells the truth about an item's chunks, and a lone indexer
\* leaves the current text of what is published to retrieval
\* (specs/020-embeddings-rag/spec.md:83).
IndexTellsTruth == Base!IndexedIsTrue /\ Base!Converged

\* Knowledge: every request for an index run ends, unless its indexer stopped.
EveryRequestEnds == Base!EveryRequestEnds

\* AgentSettings: no editor undoes what he was not shown, and the avatar shown is there.
NothingOverwritten == Agent!NothingOverwritten

\* AiCalls: a consumer reads one text, and the ledger says what he heard.
StreamIsCoherent == Calls!StreamIsCoherent

=============================================================================
