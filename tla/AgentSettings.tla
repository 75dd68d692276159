---------------------------- MODULE AgentSettings ----------------------------
(***************************************************************************)
(* What staff configure of a tenant's AI agent (ai/src: prompt_store.rs,   *)
(* prompt_routes.rs, agent_config.rs, agent_routes.rs): the versions of    *)
(* its system prompt, its configuration and its avatar.                    *)
(*                                                                         *)
(* An editor saves over the version he was shown.  The prompt's row is     *)
(* locked while a version is added; where there is no row yet, two may     *)
(* try to insert it.  The configuration and the avatar share a version and *)
(* are saved by transactions that take two locks in opposite orders: that  *)
(* of the configuration's row and that of the uploaded avatar.             *)
(***************************************************************************)
EXTENDS Naturals, Sequences

CONSTANTS
  Writers,      \* requests handled at once
  Contents,     \* prompt texts
  Free,         \* no transaction
  MaxVersions   \* bound: prompt versions, and versions of the configuration

\* What the constants are; the instance assumes it.
SettingsAssumption == Free \notin Writers /\ MaxVersions \in Nat \ {0}

VARIABLES
  versions,  \* agent_prompt_versions; the active one is the last
  agent,     \* agent_configurations; version 0: no row
  live,      \* the avatar upload that is not deleted, 0 without
  uploads,   \* how many there were
  rowBy,     \* the transaction that holds the configuration's row
  liveBy,    \* the transaction that has deleted the live upload, uncommitted
  writer

promptVars == <<versions>>
agentVars == <<agent, live, uploads, rowBy, liveBy>>

Absent == [step |-> "idle", base |-> 0, text |-> "none", from |-> 0, kind |-> "none",
           saw |-> 0, inserted |-> FALSE]

Init ==
  /\ versions = <<>>
  /\ agent = [version |-> 0, kind |-> "none", base |-> 0]
  /\ live = 0 /\ uploads = 0
  /\ rowBy = Free /\ liveBy = Free
  /\ writer = [w \in Writers |-> Absent]

Active == Len(versions)
Done(w) == writer' = [writer EXCEPT ![w] = Absent]
Goes(w, step) == writer' = [writer EXCEPT ![w].step = step]

-----------------------------------------------------------------------------
(* The prompt.                                                             *)

\* put_prompt and restore_prompt_version: the editor was shown the active version; the
\* version to restore is read before the transaction.
EditPrompt(w) ==
  /\ writer[w] = Absent
  /\ \/ \E t \in Contents :
          writer' = [writer EXCEPT ![w] = [Absent EXCEPT !.step = "save", !.base = Active, !.text = t]]
     \/ \E v \in 1..Active :
          writer' = [writer EXCEPT ![w] =
            [Absent EXCEPT !.step = "save", !.base = Active, !.text = versions[v].text, !.from = v]]
  /\ UNCHANGED <<promptVars, agentVars>>

\* A new version, numbered after what the editor was shown.
AddVersion(w) ==
  versions' = Append(versions,
    [base |-> writer[w].base, text |-> writer[w].text, from |-> writer[w].from])

\* Mutant: the version is added to whatever is active.
SaveOverAny(w) ==
  /\ writer[w].step = "save" /\ Active # 0 /\ Active < MaxVersions
  /\ versions[Active].text # writer[w].text
  /\ AddVersion(w) /\ Done(w)
  /\ UNCHANGED agentVars

\* save_version_in_tx under the prompt's row lock, held to the commit.
SaveOver(w) ==
  /\ writer[w].step = "save" /\ Active # 0 /\ Active < MaxVersions
  /\ writer[w].base = Active
  /\ versions[Active].text # writer[w].text
  /\ AddVersion(w) /\ Done(w)
  /\ UNCHANGED agentVars

\* The same text is no new version; another base is a conflict.
NothingSaved(w) ==
  /\ writer[w].step = "save"
  /\ \/ Active # 0 /\ (writer[w].base # Active \/ versions[Active].text = writer[w].text)
     \/ Active = 0 /\ writer[w].base # 0
  /\ Done(w)
  /\ UNCHANGED <<promptVars, agentVars>>

\* No prompt was found: it is inserted, unless another was meanwhile.
FindNoPrompt(w) ==
  /\ writer[w].step = "save" /\ Active = 0 /\ writer[w].base = 0
  /\ Goes(w, "insert")
  /\ UNCHANGED <<promptVars, agentVars>>

InsertPrompt(w) ==
  /\ writer[w].step = "insert"
  /\ IF Active = 0 THEN AddVersion(w) ELSE UNCHANGED versions
  /\ Done(w)
  /\ UNCHANGED agentVars

-----------------------------------------------------------------------------
(* The configuration and the avatar.                                       *)

\* put_agent_config: a preset avatar, or the uploaded one.
EditConfig(w) ==
  /\ writer[w] = Absent
  /\ \E k \in {"preset", "upload"} :
       writer' = [writer EXCEPT ![w] =
         [Absent EXCEPT !.step = "config", !.base = agent.version, !.kind = k]]
  /\ UNCHANGED <<promptVars, agentVars>>

\* Without a row: create_in_tx.  The unique index refuses a second one.
CreateConfig(w) ==
  /\ writer[w].step = "config"
  /\ agent.version = 0 /\ writer[w].base = 0 /\ writer[w].kind = "preset"
  /\ agent' = [version |-> 1, kind |-> "preset", base |-> 0]
  /\ Done(w)
  /\ UNCHANGED <<promptVars, live, uploads, rowBy, liveBy>>

\* load_live_in_tx locks the row; the version is the one that was shown, and an upload
\* is only kept where there is one.
Acceptable(w) ==
  /\ writer[w].base = agent.version
  /\ writer[w].kind = "upload" => live # 0

LockConfig(w) ==
  /\ writer[w].step = "config" /\ agent.version # 0 /\ rowBy = Free
  /\ agent.version < MaxVersions
  /\ Acceptable(w)
  /\ rowBy' = w
  /\ Goes(w, "update")
  /\ UNCHANGED <<promptVars, agent, live, uploads, liveBy>>

RefuseConfig(w) ==
  /\ writer[w].step = "config"
  /\ IF agent.version = 0 THEN writer[w].kind = "upload" \/ writer[w].base # 0
                          ELSE rowBy = Free /\ ~Acceptable(w)
  /\ Done(w)
  /\ UNCHANGED <<promptVars, agentVars>>

\* A preset retires the upload, and waits for who else is deleting it; then update_in_tx
\* and the commit.
CommitConfig(w) ==
  /\ writer[w].step = "update"
  /\ writer[w].kind = "preset" /\ live # 0 => liveBy = Free
  /\ live' = IF writer[w].kind = "preset" THEN 0 ELSE live
  /\ agent' = [version |-> agent.version + 1, kind |-> writer[w].kind, base |-> writer[w].base]
  /\ rowBy' = Free
  /\ Done(w)
  /\ UNCHANGED <<promptVars, uploads, liveBy>>

\* put_agent_avatar: its first statement sees the live upload of now.
EditAvatar(w) ==
  /\ writer[w] = Absent
  /\ agent.version # 0
  /\ writer' = [writer EXCEPT ![w] = [Absent EXCEPT !.step = "retire", !.saw = live]]
  /\ UNCHANGED <<promptVars, agentVars>>

\* It deletes the upload it saw, once nobody else is; not one that came instead.
Retire(w) ==
  /\ writer[w].step = "retire"
  /\ IF writer[w].saw # 0 /\ writer[w].saw = live
       THEN liveBy = Free /\ liveBy' = w
       ELSE UNCHANGED liveBy
  /\ Goes(w, "insert avatar")
  /\ UNCHANGED <<promptVars, agent, live, uploads, rowBy>>

\* The unique index on the live upload: wait for who is inserting one or deleting it, then
\* fail if there is one.
Inserting(w) == \E v \in Writers \ {w} : writer[v].inserted

InsertAvatar(w) ==
  /\ writer[w].step = "insert avatar" /\ ~Inserting(w)
  /\ live = 0 \/ liveBy = w
  /\ writer' = [writer EXCEPT ![w].step = "bump", ![w].inserted = TRUE]
  /\ UNCHANGED <<promptVars, agentVars>>

RefuseAvatar(w) ==
  /\ writer[w].step = "insert avatar" /\ ~Inserting(w)
  /\ live # 0 /\ liveBy = Free
  /\ Done(w)
  /\ UNCHANGED <<promptVars, agentVars>>

\* The row's version goes up, whatever it was; then the commit.
CommitAvatar(w) ==
  /\ writer[w].step = "bump" /\ rowBy = Free
  /\ agent.version < MaxVersions
  /\ agent' = [version |-> agent.version + 1, kind |-> "upload", base |-> agent.version]
  /\ uploads' = uploads + 1 /\ live' = uploads + 1
  /\ liveBy' = IF liveBy = w THEN Free ELSE liveBy
  /\ Done(w)
  /\ UNCHANGED <<promptVars, rowBy>>

\* PostgreSQL aborts one of two transactions that wait for each other: a configuration that
\* holds the row and wants the upload, an avatar that holds the upload and wants the row.
BreakDeadlock(c, a) ==
  /\ writer[c].step = "update" /\ writer[c].kind = "preset" /\ live # 0
  /\ liveBy = a /\ writer[a].step = "bump"
  /\ \/ rowBy' = Free /\ Done(c) /\ UNCHANGED liveBy
     \/ liveBy' = Free /\ Done(a) /\ UNCHANGED rowBy
  /\ UNCHANGED <<promptVars, agent, live, uploads>>

PromptNext ==
  \E w \in Writers :
    EditPrompt(w) \/ SaveOver(w) \/ NothingSaved(w) \/ FindNoPrompt(w) \/ InsertPrompt(w)

AgentNext ==
  \/ \E w \in Writers :
       \/ EditConfig(w) \/ CreateConfig(w) \/ LockConfig(w) \/ RefuseConfig(w) \/ CommitConfig(w)
       \/ EditAvatar(w) \/ Retire(w) \/ InsertAvatar(w) \/ RefuseAvatar(w) \/ CommitAvatar(w)
  \/ \E c, a \in Writers : BreakDeadlock(c, a)

-----------------------------------------------------------------------------
\* Types; a lock has a transaction that goes on to free it.
TypeOK ==
  /\ agent.version \in 0..MaxVersions /\ agent.kind \in {"none", "preset", "upload"}
  /\ live \in 0..uploads
  /\ rowBy # Free => writer[rowBy].step = "update"
  /\ liveBy # Free => live # 0 /\ writer[liveBy].step \in {"insert avatar", "bump"}

\* No editor undoes what he was not shown: every prompt version was written by somebody who
\* had seen the one before it, and differs from it, a restored one repeats the version it
\* names; the configuration was saved over the one its author had seen.  And the
\* configuration shows an uploaded avatar exactly while there is one, whatever commits
\* between the statements of the two routes.
NothingOverwritten ==
  /\ \A n \in DOMAIN versions :
       /\ versions[n].base = n - 1
       /\ n > 1 => versions[n].text # versions[n - 1].text
       /\ versions[n].from # 0 => versions[n].text = versions[versions[n].from].text
  /\ agent.version # 0 => agent.base = agent.version - 1
  /\ agent.kind = "upload" <=> live # 0

=============================================================================
