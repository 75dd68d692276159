------------------------------- MODULE Paging -------------------------------
(***************************************************************************)
(* Reading a long list page by page while it changes                       *)
(* (conversations/src/queries.rs): the messages of one conversation,       *)
(* newest first, and the inbox of open conversations, latest activity      *)
(* first.  A page is one statement; the cursor it returns is the key of    *)
(* its last row, and the next page holds the rows below it.                *)
(*                                                                         *)
(* Both keys begin with a time that is the start of the writing            *)
(* transaction, whereas rows appear in the order of the commits.  The key  *)
(* of a message never changes; the key of a conversation does with every   *)
(* message, and may go back to an older transaction's.                     *)
(*                                                                         *)
(* Filters other than the status, what is joined to a row, and the other   *)
(* statements that bump a conversation as a message does are left out.     *)
(***************************************************************************)
EXTENDS Naturals, FiniteSets, Sequences, Functions

CONSTANTS
  Talks,       \* how many conversations, numbered from 1 in the order of their ids
  MaxWrites,   \* bound: messages, with the first of each conversation; numbered as
               \* their transactions begin
  PageLimit,   \* rows of a page
  MaxClock,    \* bound
  MaxPatches   \* bound: changes of a status by staff

\* What the constants are; the instance assumes it.
PagingAssumption ==
  /\ {Talks, PageLimit} \subseteq Nat \ {0}
  /\ {MaxWrites, MaxClock, MaxPatches} \subseteq Nat /\ Talks <= MaxWrites

VARIABLES
  now,       \* the clock
  write,     \* the transactions begun: conversation, start, number of the message and step
  activity,  \* last_activity_at of each conversation
  ended,     \* the conversations that are resolved
  patches,   \* how many changes of it, of the bound
  walk       \* somebody who pages through a list; settled: the rows he cannot miss

pagingVars == <<now, write, activity, ended, patches, walk>>

Ids == 1 .. Talks
Top == <<>>
Inbox == 0

\* Every conversation begins with a message.
Init ==
  /\ now = 0
  /\ write = [c \in Ids |-> [talk |-> c, at |-> 0, seq |-> c, step |-> "there"]]
  /\ activity = [c \in Ids |-> 0]
  /\ ended = {} /\ patches = 0
  /\ walk = [list |-> Inbox, cursor |-> Top, seen |-> <<>>, settled |-> {}, step |-> "idle"]

-----------------------------------------------------------------------------
(***************************************************************************)
(* Writers                                                                 *)
(***************************************************************************)

\* A request's transaction begins, and with it the now() of all its statements.
BeginWrite ==
  /\ Len(write) < MaxWrites
  /\ \E c \in Ids, t \in {now, now + 1} :
       /\ t <= MaxClock
       /\ now' = t
       /\ write' = Append(write, [talk |-> c, at |-> t, seq |-> 0, step |-> "begun"])
  /\ UNCHANGED <<activity, ended, patches, walk>>

\* The message takes its number as it is inserted; nobody else sees it yet.
InsertMessage(w) ==
  /\ write[w].step = "begun"
  /\ write' = [write EXCEPT ![w].seq = 1 + Cardinality({v \in DOMAIN write : write[v].seq > 0}),
                            ![w].step = "inserted"]
  /\ UNCHANGED <<now, activity, ended, patches, walk>>

\* What a walk through the inbox may miss: the conversations that change under it.
Unsettle(c) ==
  walk' = IF walk.list = Inbox THEN [walk EXCEPT !.settled = {k \in @ : k[2] # c}] ELSE walk

\* The conversation's row is updated, and locked until the commit: its activity becomes
\* the start of this transaction, and a message other than a note reopens it.
Bump(w, kind) ==
  LET c == write[w].talk
  IN  /\ write[w].step = "inserted"
      /\ write' = [write EXCEPT ![w].step = "there"]
      /\ activity' = [activity EXCEPT ![c] = write[w].at]
      /\ ended' = IF kind = "note" THEN ended ELSE ended \ {c}
      /\ Unsettle(c)
      /\ UNCHANGED <<now, patches>>

\* Staff resolve or reopen a conversation, which leaves its activity alone.
SetStatus(c) ==
  /\ patches < MaxPatches
  /\ patches' = patches + 1
  /\ ended' = IF c \in ended THEN ended \ {c} ELSE ended \cup {c}
  /\ Unsettle(c)
  /\ UNCHANGED <<now, write, activity>>

-----------------------------------------------------------------------------
(***************************************************************************)
(* A reader                                                                *)
(***************************************************************************)

\* The rows of a list, each by its key.
Timeline(c) ==
  {<<m.at, m.seq>> : m \in {n \in Range(write) : n.talk = c /\ n.step = "there"}}
OpenTalks == {<<activity[c], c>> : c \in Ids \ ended}
RowsOf(list) == IF list = Inbox THEN OpenTalks ELSE Timeline(list)

BelowByTime(k, l) == k[1] < l[1]                            \* mutant
\* The comparison of rows, (time, number) < (time, number).
Below(k, l) == k[1] < l[1] \/ (k[1] = l[1] /\ k[2] < l[2])

\* What the statement returns: the first of the rows below the cursor in descending order,
\* one more than a page to tell whether there are more.
RowsBelow(list, cursor) == {k \in RowsOf(list) : cursor = Top \/ Below(k, cursor)}

Fetched(list, cursor) ==
  {rows \in UNION {[1..n -> RowsBelow(list, cursor)] : n \in 0..PageLimit + 1} :
     /\ \A i, j \in DOMAIN rows : i < j => rows[i] # rows[j] /\ ~Below(rows[i], rows[j])
     /\ \A k \in RowsBelow(list, cursor) \ Range(rows) :
          Len(rows) = PageLimit + 1 /\ ~Below(rows[PageLimit + 1], k)}

\* The cursor of the next page: the last row of this one.
CursorAfter(rows) == rows[PageLimit]

Open(list) ==
  /\ walk.step = "idle"
  /\ walk' = [list |-> list, cursor |-> Top, seen |-> <<>>, settled |-> RowsOf(list), step |-> "more"]
  /\ UNCHANGED <<now, write, activity, ended, patches>>

NextPage ==
  /\ walk.step = "more"
  /\ \E rows \in Fetched(walk.list, walk.cursor) :
       LET more == Len(rows) > PageLimit
       IN  walk' = [walk EXCEPT
             !.seen = @ \o (IF more THEN SubSeq(rows, 1, PageLimit) ELSE rows),
             !.cursor = IF more THEN CursorAfter(rows) ELSE @,
             !.step = IF more THEN "more" ELSE "done"]
  /\ UNCHANGED <<now, write, activity, ended, patches>>

Next ==
  \/ BeginWrite
  \/ \E w \in DOMAIN write : InsertMessage(w) \/ \E kind \in {"customer", "note"} : Bump(w, kind)
  \/ \E c \in Ids : SetStatus(c)
  \/ \E list \in Ids \cup {Inbox} : Open(list)
  \/ NextPage

-----------------------------------------------------------------------------
(***************************************************************************)
(* Properties                                                              *)
(***************************************************************************)

TypeOK ==
  /\ now \in 0 .. MaxClock /\ patches \in 0 .. MaxPatches
  /\ write \in Seq([talk : Ids, at : 0 .. MaxClock, seq : 0 .. MaxWrites,
                    step : {"begun", "inserted", "there"}])
  /\ activity \in [Ids -> 0 .. MaxClock] /\ ended \subseteq Ids
  /\ walk.step \in {"idle", "more", "done"} /\ walk.list \in Ids \cup {Inbox}

\* The part of the list that the pages have covered.
Passed(k) == walk.step = "done" \/ (walk.cursor # Top /\ ~Below(k, walk.cursor))

\* Whatever is written meanwhile and commits late, no row is shown twice, and of the part
\* that the pages have covered every one was shown that was there when the walk began:
\* a message in any case, a conversation unless it changed since.
PagesAreWhole ==
  /\ \A i, j \in DOMAIN walk.seen : i < j => Below(walk.seen[j], walk.seen[i])
  /\ \A k \in walk.settled : Passed(k) => k \in Range(walk.seen)

=============================================================================
