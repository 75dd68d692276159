------------------------------ MODULE RateLimit ------------------------------
(***************************************************************************)
(* The rate limiter for one scope and identifier (shared/cache/limiter.rs, *)
(* with the store of shared/kernel/rate_limit.rs it falls back on, and the *)
(* limit of logins in server/rate_limit.rs).                               *)
(*                                                                         *)
(* Requests are counted in Redis, by windows of the clock; a check weighs  *)
(* the count of the previous window by what of it the last Window seconds  *)
(* still hold.  A check reads the clock, counts itself and reads the       *)
(* previous count in three steps, among those of other checks, and Redis   *)
(* may be out of reach at any of them.                                     *)
(*                                                                         *)
(* Who is identified how, the retry time a refusal names and the budgets   *)
(* of tenants (BudgetResolver) are left out.                               *)
(***************************************************************************)
EXTENDS Integers, FiniteSets

CONSTANTS
  Window,      \* seconds: Budget::window
  Budget,      \* Budget::max_requests
  Checks,      \* checks in flight
  MaxTime,     \* bound: seconds
  MaxCount,    \* bound: requests of a window, and of the in-memory store
  MaxOutages   \* bound: how often Redis goes out of reach

\* What the constants are; the instance assumes it.
LimitAssumption ==
  /\ {Window, Budget, MaxTime, MaxCount} \subseteq Nat \ {0} /\ MaxOutages \in Nat
  /\ IsFiniteSet(Checks)

VARIABLES
  clock,      \* the seconds that went by, of the second window of the epoch onwards
  key,        \* Redis: the count of each window, and when it expires
  reachable,  \* Redis can be reached
  outages,
  check,      \* the step of each check
  local,      \* the bucket of the in-memory store
  guarded,    \* a login whose limit is closed when Redis is out of reach
  granted,    \* the requests let through by Redis's counts, by second, those of a second numbered
  straddled   \* a check lasted into another window than the one it began in, or into an outage

limVars == <<clock, key, reachable, outages, check, local, guarded, granted, straddled>>

Seconds == 0..MaxTime
WindowOf(s) == s \div Window
Windows == {WindowOf(s) : s \in Seconds}
NoKey == [count |-> 0, until |-> 0]
Idle == [step |-> "idle", at |-> 0, count |-> 0]

Init ==
  /\ clock = 0
  /\ key = [w \in Windows |-> NoKey]
  /\ reachable = TRUE /\ outages = 0
  /\ check = [c \in Checks |-> Idle]
  /\ local = [count |-> 0, since |-> 0]
  /\ guarded \in BOOLEAN
  /\ granted = {}
  /\ straddled = FALSE

-----------------------------------------------------------------------------

\* What GET finds: nothing of a window that has expired or was never counted.
Count(w) == IF w \in Windows /\ clock < key[w].until THEN key[w].count ELSE 0

\* Mutant: a window by itself.
Unweighted(count, previous, elapsed) == count * Window

\* sliding_window_count, times Window.
Weighted(count, previous, elapsed) == count * Window + previous * (Window - elapsed)

\* The clock is read, once.
Begin(c) ==
  /\ check[c] = Idle
  /\ Count(WindowOf(clock)) < MaxCount /\ local.count < MaxCount
  /\ check' = [check EXCEPT ![c] = [Idle EXCEPT !.step = "counting", !.at = clock]]
  /\ UNCHANGED <<clock, key, reachable, outages, local, guarded, granted, straddled>>

\* INCR and EXPIRE of the window's key, in one transaction: refused requests count too, and the
\* key outlives the next window.
Increment(c) ==
  /\ check[c].step = "counting" /\ reachable
  /\ LET w == WindowOf(check[c].at)
         n == Count(w) + 1
     IN /\ key' = [key EXCEPT ![w] = [count |-> n, until |-> clock + 2 * Window]]
        /\ check' = [check EXCEPT ![c].step = "weighing", ![c].count = n]
  /\ UNCHANGED <<clock, reachable, outages, local, guarded, granted, straddled>>

\* How many requests of these seconds were let through.
GrantedIn(seconds) == Cardinality({g \in granted : g.at \in seconds})

\* GET of the previous window's key and the decision.  An error counts as none.
Weigh(c) ==
  /\ check[c].step = "weighing"
  /\ LET at == check[c].at
         previous == IF reachable THEN Count(WindowOf(at) - 1) ELSE 0
     IN granted' = IF Weighted(check[c].count, previous, at % Window) <= Budget * Window
                     THEN granted \cup {[at |-> at, number |-> GrantedIn({at}) + 1]} ELSE granted
  /\ check' = [check EXCEPT ![c] = Idle]
  /\ UNCHANGED <<clock, key, reachable, outages, local, guarded, straddled>>

\* InMemoryRateLimitStore::check: a bucket whose window is over begins again.
Counted(bucket) ==
  IF clock - bucket.since >= Window THEN [count |-> 1, since |-> clock] ELSE [bucket EXCEPT !.count = @ + 1]

\* degrade: logins are refused, the rest is counted in this process.
Degrade(c) ==
  /\ check[c].step = "counting" /\ ~reachable
  /\ check' = [check EXCEPT ![c] = Idle]
  /\ local' = IF guarded THEN local ELSE Counted(local)
  /\ UNCHANGED <<clock, key, reachable, outages, guarded, granted, straddled>>

-----------------------------------------------------------------------------
(* The environment.                                                        *)

InFlight == {c \in Checks : check[c] # Idle}

\* A bound besides MaxTime: a check is over before a window's length has passed.
Tick ==
  /\ clock < MaxTime /\ \A c \in InFlight : clock + 1 - check[c].at < Window
  /\ clock' = clock + 1
  /\ straddled' = (straddled \/ \E c \in InFlight : WindowOf(check[c].at) # WindowOf(clock + 1))
  /\ UNCHANGED <<key, reachable, outages, check, local, guarded, granted>>

GoOut ==
  /\ reachable /\ outages < MaxOutages
  /\ reachable' = FALSE /\ outages' = outages + 1
  /\ straddled' = (straddled \/ InFlight # {})
  /\ UNCHANGED <<clock, key, check, local, guarded, granted>>

ComeBack ==
  /\ ~reachable
  /\ reachable' = TRUE
  /\ straddled' = (straddled \/ InFlight # {})
  /\ UNCHANGED <<clock, key, outages, check, local, guarded, granted>>

Next ==
  \/ Tick \/ GoOut \/ ComeBack
  \/ \E c \in Checks : Begin(c) \/ Increment(c) \/ Weigh(c) \/ Degrade(c)

TypeOK ==
  /\ clock \in Seconds
  /\ key \in [Windows -> [count : Nat, until : Nat]]
  /\ \A c \in Checks : check[c].step \in {"idle", "counting", "weighing"} /\ check[c].at \in Seconds
  /\ outages \in 0..MaxOutages
  /\ granted \subseteq [at : Seconds, number : Nat]

\* However checks interleave, no window lets more than its budget through; and the Window
\* seconds around the boundary of two do not add up to both their budgets, unless a check
\* lasted across the boundary or into an outage ("a burst cannot reset at a boundary",
\* limiter.rs:330).
GrantsAreBounded ==
  /\ \A w \in Windows : GrantedIn({s \in Seconds : WindowOf(s) = w}) <= Budget
  /\ ~straddled => \A s \in 0..(MaxTime - Window + 1) : GrantedIn(s..(s + Window - 1)) < 2 * Budget

=============================================================================
