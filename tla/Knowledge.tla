----------------------------- MODULE Knowledge -----------------------------
(***************************************************************************)
(* The knowledge base and the worker that indexes it                       *)
(* (knowledge/src: routes.rs, store.rs, upload.rs, indexer.rs,             *)
(* index_state.rs, retrieval.rs).                                          *)
(*                                                                         *)
(* Staff write, publish and archive items.  What is published asks for an  *)
(* index run by an outbox row of the same transaction.  Indexers, one per  *)
(* server, claim a row, read the item, have its chunks embedded outside    *)
(* any transaction, and put them in the place of the old ones.  Nothing    *)
(* but the unique (item, ordinal) of a chunk holds two runs of one item    *)
(* apart, and a claim is never taken back.                                 *)
(*                                                                         *)
(* The source text of an item is one value: Bare where nothing can be      *)
(* indexed, a body or a file without text.  A request that has begun to    *)
(* change a status acts on what it read.                                   *)
(***************************************************************************)
EXTENDS Naturals, FiniteSets

CONSTANTS
  Articles, Documents, \* items: authored ones, uploaded ones
  Texts, Bare,         \* source texts, and the one that cannot be indexed
  NoText,
  Editors,             \* status changes and uploads handled at once
  Indexers,
  MaxRetries,          \* 5 in the code
  MaxEvents,           \* bound: index requests
  MaxStops             \* bound: indexers that died, or returned an error

Items == Articles \cup Documents
NoItem == "none"

\* What the constants are; the instance assumes it.
KnowledgeAssumption ==
  /\ Bare \in Texts /\ NoText \notin Texts
  /\ Articles \cap Documents = {} /\ NoItem \notin Items
  /\ Indexers # {}
  /\ MaxRetries \in Nat \ {0} /\ MaxEvents \in Nat /\ MaxStops \in Nat

VARIABLES
  alone,    \* one indexer runs, not all of them
  item,     \* knowledge_items
  file,     \* documents in object storage
  index,    \* knowledge_index_state
  chunks,   \* the text whose chunks an item has
  events,   \* rows of outbox_events
  asked,    \* how many there were
  request,  \* what a handler read
  worker,
  lost      \* ghost: rows whose worker stopped

base == <<alone, item, file, request>>
indexVars == <<index, chunks, events, asked>>

Unasked == [step |-> "idle", item |-> NoItem, from |-> "none", to |-> "none"]
Resting == [step |-> "idle", event |-> 0, item |-> NoItem, text |-> NoText, tries |-> 0, clash |-> FALSE]
NoIndex == [status |-> "none", of |-> NoText, counted |-> FALSE, attempts |-> 0]

Init ==
  /\ alone \in BOOLEAN
  /\ item = [i \in Items |-> [status |-> "none", text |-> NoText]]
  /\ file = [d \in Documents |-> FALSE]
  /\ index = [i \in Items |-> NoIndex]
  /\ chunks = [i \in Items |-> NoText]
  /\ events = {} /\ asked = 0
  /\ request = [r \in Editors |-> Unasked]
  /\ worker = [x \in Indexers |-> Resting]
  /\ lost = {}

Published(i) == item[i].status = "published"

-----------------------------------------------------------------------------
\* enqueue_index_requested_in_tx
Enqueue(i) ==
  /\ asked < MaxEvents
  /\ asked' = asked + 1
  /\ events' = events \cup {[n |-> asked + 1, item |-> i, claimed |-> FALSE, waits |-> FALSE]}
  /\ index' = [index EXCEPT ![i].status = "pending", ![i].attempts = 0]
  /\ UNCHANGED chunks

\* A mutant: the index state is forgotten.
ClearChunksOnly(i) ==
  /\ chunks' = [chunks EXCEPT ![i] = NoText]
  /\ UNCHANGED <<index, events, asked>>

\* clear_index_data_in_tx
Clear(i) ==
  /\ chunks' = [chunks EXCEPT ![i] = NoText]
  /\ index' = [index EXCEPT ![i] = [NoIndex EXCEPT !.status = "not_indexed"]]
  /\ UNCHANGED <<events, asked>>

\* create_item: an article, a draft, with a body or without.
CreateItem(i) ==
  /\ i \in Articles /\ item[i].status = "none"
  /\ \E t \in Texts : item' = [item EXCEPT ![i] = [status |-> "draft", text |-> t]]
  /\ UNCHANGED <<alone, file, request, indexVars, worker, lost>>

\* update_item, under the item's row lock.  A document keeps its file's text.
UpdateItem(i) ==
  /\ item[i].status # "none"
  /\ \E t \in IF i \in Documents THEN {item[i].text} ELSE Texts \ {item[i].text} :
       item' = [item EXCEPT ![i].text = t]
  /\ IF Published(i) THEN Enqueue(i) ELSE UNCHANGED indexVars
  /\ UNCHANGED <<alone, file, request, worker, lost>>

\* reindex_item, under the item's row lock.
Reindex(i) ==
  /\ Published(i)
  /\ index[i].status \notin {"pending", "indexing"}
  /\ Enqueue(i)
  /\ UNCHANGED <<base, worker, lost>>

-----------------------------------------------------------------------------
\* check_transition, where it changes something.
Allowed(i, to) ==
  \/ item[i].status = "draft" /\ to = "published" /\ (i \in Documents \/ item[i].text # Bare)
  \/ item[i].status = "published" /\ to = "archived"
  \/ item[i].status = "archived" /\ to = "draft"

\* set_item_status reads the item outside its transaction.
AskStatus(r, i) ==
  /\ request[r] = Unasked
  /\ \E to \in {"draft", "published", "archived"} :
       /\ Allowed(i, to)
       /\ request' = [request EXCEPT ![r] =
            [step |-> "set", item |-> i, from |-> item[i].status, to |-> to]]
  /\ UNCHANGED <<alone, item, file, indexVars, worker, lost>>

\* A mutant: publishing asks for no index run.
SetStatusOnly(r) ==
  /\ request[r].step = "set"
  /\ item' = [item EXCEPT ![request[r].item].status = request[r].to]
  /\ IF request[r].from = "published" THEN Clear(request[r].item) ELSE UNCHANGED indexVars
  /\ request' = [request EXCEPT ![r] = Unasked]
  /\ UNCHANGED <<alone, file, worker, lost>>

SetStatus(r) ==
  LET i == request[r].item to == request[r].to IN
  /\ request[r].step = "set"
  /\ item' = [item EXCEPT ![i].status = to]
  /\ CASE to = "published" -> Enqueue(i)
       [] to # "published" /\ request[r].from = "published" -> Clear(i)
       [] OTHER -> UNCHANGED indexVars
  /\ request' = [request EXCEPT ![r] = Unasked]
  /\ UNCHANGED <<alone, file, worker, lost>>

\* A mutant: an error of the storage goes unnoticed.
PutNothing(r, d) ==
  /\ request[r] = Unasked
  /\ item[d].status = "none" /\ ~file[d]
  /\ \E to \in {"draft", "published"} :
       request' = [request EXCEPT ![r] = [step |-> "persist", item |-> d, from |-> "none", to |-> to]]
  /\ UNCHANGED <<alone, item, file, indexVars, worker, lost>>

\* upload_document: put_then_persist stores the file first ...
PutFile(r, d) ==
  /\ request[r] = Unasked
  /\ item[d].status = "none" /\ ~file[d]
  /\ file' = [file EXCEPT ![d] = TRUE]
  /\ \E to \in {"draft", "published"} :
       request' = [request EXCEPT ![r] = [step |-> "persist", item |-> d, from |-> "none", to |-> to]]
  /\ UNCHANGED <<alone, item, indexVars, worker, lost>>

\* ... then the item,
Persist(r) ==
  LET d == request[r].item IN
  /\ request[r].step = "persist"
  /\ \E t \in Texts : item' = [item EXCEPT ![d] = [status |-> request[r].to, text |-> t]]
  /\ IF request[r].to = "published" THEN Enqueue(d) ELSE UNCHANGED indexVars
  /\ request' = [request EXCEPT ![r] = Unasked]
  /\ UNCHANGED <<alone, file, worker, lost>>

\* ... and deletes the file if that failed, whether or not the deletion succeeds.
PersistFails(r) ==
  LET d == request[r].item IN
  /\ request[r].step = "persist"
  /\ \E left \in BOOLEAN : file' = [file EXCEPT ![d] = left]
  /\ request' = [request EXCEPT ![r] = Unasked]
  /\ UNCHANGED <<alone, item, indexVars, worker, lost>>

Staff ==
  \/ \E i \in Items : CreateItem(i) \/ UpdateItem(i) \/ Reindex(i)
  \/ \E r \in Editors, i \in Items : AskStatus(r, i)
  \/ \E r \in Editors : SetStatus(r) \/ Persist(r) \/ PersistFails(r)
  \/ \E r \in Editors, d \in Documents : PutFile(r, d)

-----------------------------------------------------------------------------
\* process_one_event claims the oldest row that is due.
Due == {e \in events : ~e.claimed /\ ~e.waits}

Claim(x) ==
  /\ worker[x].step = "idle"
  /\ \E e \in Due :
       /\ \A f \in Due : e.n <= f.n
       /\ events' = (events \ {e}) \cup {[e EXCEPT !.claimed = TRUE]}
       /\ worker' = [worker EXCEPT ![x] =
            [Resting EXCEPT !.step = "read", !.event = e.n, !.item = e.item]]
  /\ UNCHANGED <<base, index, chunks, asked, lost>>

Goes(x, step) == worker' = [worker EXCEPT ![x].step = step]

\* get_item, and a file's text, which never changes.
Read(x) ==
  /\ worker[x].step = "read"
  /\ worker' = [worker EXCEPT ![x].step = "mark", ![x].text = item[worker[x].item].text]
  /\ UNCHANGED <<base, indexVars, lost>>

Mark(x) ==
  /\ worker[x].step = "mark"
  /\ index' = [index EXCEPT ![worker[x].item].status = "indexing"]
  /\ Goes(x, "extract")
  /\ UNCHANGED <<base, chunks, events, asked, lost>>

\* No text: set_not_indexable, which keeps the chunks there are.
Extract(x) ==
  LET i == worker[x].item IN
  /\ worker[x].step = "extract"
  /\ IF worker[x].text = Bare
       THEN /\ index' = [index EXCEPT ![i].status = "not_indexable", ![i].counted = FALSE]
            /\ Goes(x, "delete")
       ELSE UNCHANGED index /\ Goes(x, "compare")
  /\ UNCHANGED <<base, chunks, events, asked, lost>>

\* The early skip: Mark has set the status, so only another indexer can have set it back.
Compare(x) ==
  LET i == worker[x].item IN
  /\ worker[x].step = "compare"
  /\ Goes(x, IF index[i].status = "indexed" /\ index[i].of = worker[x].text THEN "delete" ELSE "embed")
  /\ UNCHANGED <<base, indexVars, lost>>

\* The embedder answers; its transient errors count.
Embed(x) ==
  LET i == worker[x].item IN
  /\ worker[x].step = "embed"
  /\ \/ worker' = [worker EXCEPT ![x].step = "replace", ![x].clash = FALSE] /\ UNCHANGED index
     \/ /\ index' = [index EXCEPT ![i].attempts = @ + 1]
        /\ worker' = [worker EXCEPT ![x].step = "retry", ![x].tries = index[i].attempts + 1]
     \/ index' = [index EXCEPT ![i].status = "failed"] /\ Goes(x, "delete")
  /\ UNCHANGED <<base, chunks, events, asked, lost>>

Row(x) == CHOOSE e \in events : e.n = worker[x].event
Rest(x) == worker' = [worker EXCEPT ![x] = Resting]

\* A mutant: the row is left claimed.
RetryClaimed(x) ==
  /\ worker[x].step = "retry"
  /\ Rest(x)
  /\ UNCHANGED <<base, indexVars, lost>>

\* After a transient error: give the row back with a delay, or give up.
Retry(x) ==
  /\ worker[x].step = "retry"
  /\ IF worker[x].tries >= MaxRetries
       THEN /\ index' = [index EXCEPT ![worker[x].item].status = "failed"]
            /\ Goes(x, "delete") /\ UNCHANGED events
       ELSE /\ events' = (events \ {Row(x)}) \cup {[Row(x) EXCEPT !.claimed = FALSE, !.waits = TRUE]}
            /\ Rest(x) /\ UNCHANGED index
  /\ UNCHANGED <<base, chunks, asked, lost>>

\* The transaction that replaces the chunks.  Whoever deleted the old ones before another
\* run committed its own meets them at the unique index: it rolls back, and returns an
\* error that leaves its row claimed.
Replace(x) ==
  LET i == worker[x].item IN
  /\ worker[x].step = "replace"
  /\ IF worker[x].clash
       THEN /\ lost' = lost \cup {worker[x].event}
            /\ Rest(x) /\ UNCHANGED <<index, chunks, events>>
       ELSE /\ chunks' = [chunks EXCEPT ![i] = worker[x].text]
            /\ index' = [index EXCEPT ![i] =
                 [status |-> "indexed", of |-> worker[x].text, counted |-> TRUE, attempts |-> 0]]
            /\ events' = events \ {Row(x)}
            /\ worker' = [y \in Indexers |->
                 CASE y = x -> Resting
                   [] y # x /\ worker[y].step = "replace" /\ worker[y].item = i ->
                        [worker[y] EXCEPT !.clash = TRUE]
                   [] OTHER -> worker[y]]
            /\ UNCHANGED lost
  /\ UNCHANGED <<base, asked>>

\* The row of a run that ended otherwise.
Delete(x) ==
  /\ worker[x].step = "delete"
  /\ events' = events \ {Row(x)}
  /\ Rest(x)
  /\ UNCHANGED <<base, index, chunks, asked, lost>>

\* The process dies, or a statement or the storage fails: nobody frees the row.
Stop(x) ==
  /\ worker[x].step # "idle"
  /\ Cardinality(lost) < MaxStops
  /\ lost' = lost \cup {worker[x].event}
  /\ Rest(x)
  /\ UNCHANGED <<base, indexVars>>

Work(x) ==
  \/ Claim(x) \/ Read(x) \/ Mark(x) \/ Extract(x) \/ Compare(x)
  \/ Embed(x) \/ Retry(x) \/ Replace(x) \/ Delete(x)

First == CHOOSE x \in Indexers : TRUE
Running == IF alone THEN {First} ELSE Indexers

\* The delay of a row that was given back is over.
BecomeDue(e) ==
  /\ e.waits
  /\ events' = (events \ {e}) \cup {[e EXCEPT !.waits = FALSE]}
  /\ UNCHANGED <<base, index, chunks, asked, worker, lost>>

Next ==
  \/ Staff
  \/ \E x \in Running : Work(x) \/ Stop(x)
  \/ \E e \in events : BecomeDue(e)

-----------------------------------------------------------------------------
\* Types; a document has its file.
TypeOK ==
  /\ \A i \in Items : item[i].text \in Texts \cup {NoText} /\ (item[i].text = NoText <=> item[i].status = "none")
  /\ \A d \in Documents : item[d].status # "none" => file[d]
  /\ \A i \in Items : index[i].attempts \in 0..(MaxRetries + MaxEvents)
  /\ \A x \in Indexers : worker[x].step \notin {"idle", "read"} => worker[x].text \in Texts
  /\ events \subseteq [n : 1..asked, item : Items, claimed : BOOLEAN, waits : BOOLEAN]

\* retrieval.rs: chunks of published items, whatever their index state says.
Retrieved(i) == IF Published(i) THEN chunks[i] ELSE NoText

\* The index state tells the truth, although two runs of an item, an archiving and an edit
\* write it between one another's statements: an item that says indexed has the chunks of
\* the text it names; one that says not indexed, or never asked, names none.
IndexedIsTrue ==
  \A i \in Items :
    /\ index[i].status = "indexed" => chunks[i] = index[i].of /\ index[i].counted /\ chunks[i] # Bare
    /\ index[i].status \in {"none", "not_indexed"} => index[i].of = NoText /\ ~index[i].counted

\* With one indexer, whatever edits, publications and archivings came while it worked:
\* once no row of a published item is left and none was lost, retrieval has the current
\* text, or the item says that it failed or cannot be indexed (spec 020, line 83).
Converged ==
  alone =>
    \A i \in Items :
      (Published(i) /\ \A e \in events : e.item # i)
        => \/ index[i].status = "indexed" /\ Retrieved(i) = item[i].text
           \/ index[i].status = "not_indexable" /\ item[i].text = Bare
           \/ index[i].status = "failed"

\* A request for an index run ends, through every retry and edit, unless the indexer that
\* had it stopped.
EveryRequestEnds ==
  \A n \in 1..MaxEvents :
    (\E e \in events : e.n = n) ~> (n \in lost \/ \A e \in events : e.n # n)

=============================================================================
