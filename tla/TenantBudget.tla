---------------------------- MODULE TenantBudget ----------------------------
(***************************************************************************)
(* The budget of one tenant and scope (BudgetResolver of                   *)
(* shared/cache/src/limiter.rs, with fetch_override of                     *)
(* server/src/rate_limit.rs).                                              *)
(*                                                                         *)
(* An override is a row that somebody edits outside the program.  What a   *)
(* request reads of it is cached for Ttl seconds, by whoever writes last:  *)
(* the lock is not held while the row is read, and a failed read counts as *)
(* no override.                                                            *)
(***************************************************************************)
EXTENDS Integers

CONSTANTS
  Overrides,     \* max_requests of an override
  MaxOverride,   \* config.rate_limit_max_override
  Preset,        \* the default of the scope
  Ttl,           \* seconds
  Askers,        \* requests in flight
  MaxSeconds,    \* bound
  MaxEdits,      \* bound: edits of the row
  MaxReading     \* bound: seconds a request takes

NoOverride == 0

\* What the constants are; the instance assumes it.
BudgetAssumption ==
  /\ Overrides \subseteq Nat \ {NoOverride}
  /\ {MaxOverride, Preset, Ttl, MaxSeconds, MaxEdits, MaxReading} \subseteq Nat

VARIABLES
  row,      \* the override, or none; one that makes no sense counts as none
  second,
  edits,
  cache,    \* what the row read as, and when that expires
  asker,    \* the step of each request, when it began, what it read, then its budget
  placed    \* when each value was last what a read of the row gave

budgetVars == <<row, second, edits, cache, asker, placed>>

Values == Overrides \cup {NoOverride}
Asking == [step |-> "ask", since |-> 0, value |-> NoOverride]

Init ==
  /\ row = NoOverride /\ second = 0 /\ edits = 0
  /\ cache = [value |-> NoOverride, until |-> 0]
  /\ asker = [a \in Askers |-> Asking]
  /\ placed = [v \in Values |-> IF v = NoOverride THEN 0 ELSE -1]

OrPreset(value) == IF value = NoOverride THEN Preset ELSE value
Capped(value) == IF value > MaxOverride THEN MaxOverride ELSE value

\* Mutant: an entry that does not expire.
IsEver(entry) == entry.until > 0

IsFresh(entry) == entry.until > second

\* A fresh entry answers; the cap is not applied again.
Hit(a) ==
  /\ asker[a].step = "ask" /\ IsFresh(cache)
  /\ asker' = [asker EXCEPT ![a] =
                 [step |-> "done", since |-> second, value |-> OrPreset(cache.value)]]
  /\ UNCHANGED <<row, second, edits, cache, placed>>

Miss(a) ==
  /\ asker[a].step = "ask" /\ ~IsFresh(cache)
  /\ asker' = [asker EXCEPT ![a] = [@ EXCEPT !.step = "read", !.since = second]]
  /\ UNCHANGED <<row, second, edits, cache, placed>>

\* fetch_override.
Fetch(a, fails) ==
  /\ asker[a].step = "read"
  /\ asker' = [asker EXCEPT ![a].step = "keep", ![a].value = IF fails THEN NoOverride ELSE row]
  /\ placed' = IF fails THEN [placed EXCEPT ![NoOverride] = second] ELSE placed
  /\ UNCHANGED <<row, second, edits, cache>>

\* The row as it was read is kept, and answers with its cap.
Keep(a) ==
  /\ asker[a].step = "keep"
  /\ cache' = [value |-> asker[a].value, until |-> second + Ttl]
  /\ asker' = [asker EXCEPT ![a] = [step |-> "done", since |-> second,
                 value |-> IF @.value = NoOverride THEN Preset ELSE Capped(@.value)]]
  /\ UNCHANGED <<row, second, edits, placed>>

-----------------------------------------------------------------------------
(* The environment: the next request, the row's editor and the clock.      *)

Again(a) ==
  /\ asker[a].step = "done"
  /\ asker' = [asker EXCEPT ![a] = Asking]
  /\ UNCHANGED <<row, second, edits, cache, placed>>

EditRow(value) ==
  /\ edits < MaxEdits /\ edits' = edits + 1
  /\ row' = value
  /\ placed' = [placed EXCEPT ![value] = second]
  /\ UNCHANGED <<second, cache, asker>>

\* Requests that are answered have left before a second passes.
Second ==
  /\ second < MaxSeconds
  /\ \A a \in Askers : asker[a].step \in {"read", "keep"} => second - asker[a].since < MaxReading
  /\ second' = second + 1
  /\ placed' = [placed EXCEPT ![row] = second + 1]
  /\ asker' = [a \in Askers |-> IF asker[a].step = "done" THEN Asking ELSE asker[a]]
  /\ UNCHANGED <<row, edits, cache>>

Next ==
  \/ \E a \in Askers : Hit(a) \/ Miss(a) \/ Keep(a) \/ Again(a) \/ \E fails \in BOOLEAN : Fetch(a, fails)
  \/ \E value \in Values : EditRow(value)
  \/ Second

TypeOK ==
  /\ row \in Values /\ cache.value \in Values /\ cache.until \in Nat
  /\ \A a \in Askers :
       /\ asker[a].step \in {"ask", "read", "keep", "done"} /\ asker[a].since \in 0..second
       /\ asker[a].value \in Values \cup {Preset, MaxOverride}

\* A budget is never older than the cache allows: although requests read the row side by side
\* and keep it in any order, it was what the row said within Ttl seconds and the time of a
\* request, or what a failed read left.
BudgetIsRecent ==
  \A a \in Askers : asker[a].step = "done" =>
    \E v \in Values :
      /\ asker[a].value \in {OrPreset(v), Capped(OrPreset(v))}
      /\ placed[v] >= second - Ttl - MaxReading

=============================================================================
