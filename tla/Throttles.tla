----------------------------- MODULE Throttles ------------------------------
(***************************************************************************)
(* Limiters and who holds them: the global ConcurrencyLimiter that the     *)
(* listeners test and increment in two steps (inbound/spawn.rs), the       *)
(* tables of limiters of the sessions and of the queue, whose entries are  *)
(* locked while they are used (core/throttle.rs, queue/throttle.rs), the   *)
(* InFlight guards that sessions and delivery attempts collect, and the    *)
(* cleanup that removes idle entries (core/worker.rs).                     *)
(*                                                                         *)
(* A table entry has a concurrency and a rate limit.  The tokens of a key  *)
(* are counted in units of 1 / Interval of a request, so that they are     *)
(* integers; the code has floats.  Which key a request has is a choice.    *)
(***************************************************************************)
EXTENDS Integers, FiniteSets, FiniteSetsExt

CONSTANTS
  Listeners, Sessions,
  Attempts,        \* scopes of delivery attempts that own a vector of guards:
                   \* the message, one of its domains, one of its hosts
  SessionKeys,     \* keys of SessionCore::throttle
  QueueKeys,       \* keys of QueueCore::throttle
  MaxConcurrent,   \* max_concurrent of the global limiter
  KeyConcurrent,   \* Throttle::concurrency
  Requests,        \* Rate::requests
  Second,          \* clock ticks in a second
  Period,          \* Rate::period, in seconds
  MaxGuards,       \* bound on the guards of a holder, per key
  MaxTime,         \* bound on the clock
  None

Keys == SessionKeys \cup QueueKeys
Holders == Sessions \cup Attempts

ASSUME ThrottleAssumption ==
  /\ None \notin Sessions /\ IsFiniteSet(Listeners)
  /\ Sessions \cap Attempts = {} /\ SessionKeys \cap QueueKeys = {}
  /\ MaxConcurrent \in Nat \ {0} /\ KeyConcurrent \in Nat \ {0}
  /\ Requests \in Nat \ {0} /\ Second \in Nat \ {0} /\ Period \in Nat \ {0}
  /\ MaxGuards \in Nat /\ MaxTime \in Nat

VARIABLES
  now,
  at,          \* the session a listener is busy with, or None
  stage,       \* where a session or an attempt is
  concurrent,  \* the count of the global limiter
  table,       \* both tables: no limiter or one for each key
  guards,      \* the InFlights of a holder, per key; a session's global one is in stage
  shadow,      \* the table as it would be without cleanup
  promised     \* retry_at of a refusal after which no request was allowed

observed == <<shadow, promised>>
vars == <<now, at, stage, concurrent, table, guards, observed>>

-----------------------------------------------------------------------------
(* RateLimiter                                                             *)

\* max_interval: Session::is_allowed gives RateLimiter::new the minimum of the
\* period and one second, QueueCore::is_allowed the period.
max_interval(k) == IF k \in SessionKeys THEN Min({Period, 1}) ELSE Period

Interval(k) == max_interval(k) * Second

Full(k) == Requests * Interval(k)

NewLimiter(k) == [concurrent |-> 0, last |-> now, tokens |-> Full(k)]

\* The tokens since the last request that was allowed, up to the maximum.
Accrued(k, lim) == Min({Full(k), lim.tokens + (now - lim.last) * Requests})

RateAllows(k, lim) == Accrued(k, lim) >= Interval(k)

\* A refused request keeps the tokens it found, and the time they count from.
AfterRate(k, lim) ==
  IF RateAllows(k, lim)
  THEN [lim EXCEPT !.last = now, !.tokens = Accrued(k, lim) - Interval(k)]
  ELSE [lim EXCEPT !.tokens = Accrued(k, lim)]

\* Fault: the operands of the subtraction are swapped.
RetrySwapped(k, lim) ==
  now + Max({0, ((now - lim.last) \div Second) - max_interval(k)}) * Second

\* Whole seconds that have passed are taken off the interval.
retry_at(k, lim) ==
  now + Max({0, max_interval(k) - ((now - lim.last) \div Second)}) * Second

-----------------------------------------------------------------------------

Init ==
  /\ now = 0
  /\ at = [l \in Listeners |-> None]
  /\ stage = [h \in Holders |-> "none"]
  /\ concurrent = 0
  /\ table = [k \in Keys |-> {}]
  /\ guards = [h \in Holders |-> [k \in Keys |-> 0]]
  /\ shadow = [k \in Keys |-> {}]
  /\ promised = [k \in Keys |-> {}]

\* accept, and the load of ConcurrencyLimiter::is_allowed.
Accept(l, s) ==
  /\ at[l] = None /\ stage[s] = "none"
  /\ concurrent < MaxConcurrent
  /\ at' = [at EXCEPT ![l] = s]
  /\ stage' = [stage EXCEPT ![s] = "admitted"]
  /\ UNCHANGED <<now, concurrent, table, guards, observed>>

\* Its fetch_add.
Enter(s) ==
  /\ stage[s] = "admitted"
  /\ stage' = [stage EXCEPT ![s] = "entered"]
  /\ concurrent' = concurrent + 1
  /\ UNCHANGED <<now, at, table, guards, observed>>

\* What one call of is_allowed does to a limiter: nothing if too many requests
\* are in flight, else the guard is taken before the rate is looked at.
Used(k, lim) == [AfterRate(k, lim) EXCEPT !.concurrent = @ + 1]

\* Fault: one more than the limit.
BusyLate(lim) == lim.concurrent > KeyConcurrent

Busy(lim) == lim.concurrent >= KeyConcurrent

\* The entry's limiter, or the one the call inserts.
Entry(k, lims) == IF lims = {} THEN NewLimiter(k) ELSE CHOOSE lim \in lims : TRUE

\* is_allowed with the key k: the holder is refused, by the concurrency limit
\* without a guard or by the rate limit with one, and is then in the given
\* stage, or goes on.
IsAllowed(h, k, refused) ==
  LET lim == Entry(k, table[k])
      granted == RateAllows(k, lim) IN
  \/ /\ Busy(lim)
     /\ stage' = [stage EXCEPT ![h] = refused]
     /\ UNCHANGED <<table, guards, observed>>
  \/ /\ ~Busy(lim)
     /\ table' = [table EXCEPT ![k] = {Used(k, lim)}]
     /\ guards' = [guards EXCEPT ![h][k] = @ + 1]
     /\ stage' = [stage EXCEPT ![h] = IF granted THEN "open" ELSE refused]
     /\ shadow' = [shadow EXCEPT ![k] = {Used(k, Entry(k, @))}]
     /\ promised' = [promised EXCEPT ![k] = IF granted THEN {} ELSE {retry_at(k, Used(k, lim))}]

\* The throttle of a connection.  A refused session is dropped by its listener.
Connect(l, k) ==
  /\ at[l] # None /\ stage[at[l]] = "entered"
  /\ IsAllowed(at[l], k, "dropping")
  /\ at' = [at EXCEPT ![l] = IF stage'[at[l]] = "open" THEN None ELSE @]
  /\ UNCHANGED <<now, concurrent>>

\* The throttle of a MAIL or RCPT command: a refused session goes on.
Mail(s, k) ==
  /\ stage[s] = "open" /\ guards[s][k] < MaxGuards
  /\ IsAllowed(s, k, "open")
  /\ UNCHANGED <<now, at, concurrent>>

\* The throttles of a message, domain or host in a delivery attempt.  The first
\* refusal ends the scope, which drops the guards it has.
Attempt(a, k) ==
  /\ stage[a] \in {"none", "open"} /\ guards[a][k] < MaxGuards
  /\ IsAllowed(a, k, "released")
  /\ UNCHANGED <<now, at, concurrent>>

EndAttempt(a) ==
  /\ stage[a] = "open"
  /\ stage' = [stage EXCEPT ![a] = "released"]
  /\ UNCHANGED <<now, at, concurrent, table, guards, observed>>

End(s) ==
  /\ stage[s] = "open"
  /\ stage' = [stage EXCEPT ![s] = "dropping"]
  /\ UNCHANGED <<now, at, concurrent, table, guards, observed>>

\* The session's in_flight vector is dropped, the global guard first.
ReleaseGlobal(s) ==
  /\ stage[s] = "dropping"
  /\ stage' = [stage EXCEPT ![s] = "released"]
  /\ concurrent' = concurrent - 1
  /\ UNCHANGED <<now, at, table, guards, observed>>

\* InFlight::drop.
Released(lims) == {[lim EXCEPT !.concurrent = @ - 1] : lim \in lims}

\* Fault: only the first guard for a key is dropped.
ReleaseOnce(h, k) ==
  /\ stage[h] = "released" /\ guards[h][k] > 0
  /\ guards' = [guards EXCEPT ![h][k] = 0]
  /\ table' = [table EXCEPT ![k] = Released(@)]
  /\ shadow' = [shadow EXCEPT ![k] = Released(@)]
  /\ UNCHANGED <<now, at, stage, concurrent, promised>>

ReleaseKey(h, k) ==
  /\ stage[h] = "released" /\ guards[h][k] > 0
  /\ guards' = [guards EXCEPT ![h][k] = @ - 1]
  /\ table' = [table EXCEPT ![k] = Released(@)]
  /\ shadow' = [shadow EXCEPT ![k] = Released(@)]
  /\ UNCHANGED <<now, at, stage, concurrent, promised>>

Gone(h) ==
  /\ stage[h] = "released" /\ \A k \in Keys : guards[h][k] = 0
  /\ stage' = [stage EXCEPT ![h] = "none"]
  /\ at' = [l \in Listeners |-> IF at[l] = h THEN None ELSE at[l]]
  /\ UNCHANGED <<now, concurrent, table, guards, observed>>

\* Fault: a limiter that nobody holds is removed while its interval lasts.
KeptInFlight(k, lim) == lim.concurrent > 0

\* Core::cleanup, one entry.
Kept(k, lim) == lim.concurrent > 0 \/ now - lim.last < Interval(k)

Cleanup(k) ==
  /\ \E lim \in table[k] : ~Kept(k, lim)
  /\ table' = [table EXCEPT ![k] = {}]
  /\ UNCHANGED <<now, at, stage, concurrent, guards, observed>>

Tick ==
  /\ now < MaxTime
  /\ now' = now + 1
  /\ UNCHANGED <<at, stage, concurrent, table, guards, observed>>

Next ==
  \/ \E l \in Listeners, s \in Sessions : Accept(l, s)
  \/ \E l \in Listeners, k \in SessionKeys : Connect(l, k)
  \/ \E s \in Sessions : Enter(s) \/ End(s) \/ ReleaseGlobal(s)
  \/ \E s \in Sessions, k \in SessionKeys : Mail(s, k)
  \/ \E a \in Attempts, k \in QueueKeys : Attempt(a, k)
  \/ \E a \in Attempts : EndAttempt(a)
  \/ \E h \in Holders, k \in Keys : ReleaseKey(h, k)
  \/ \E h \in Holders : Gone(h)
  \/ \E k \in Keys : Cleanup(k)
  \/ Tick

Spec == Init /\ [][Next]_vars

-----------------------------------------------------------------------------
(* Properties                                                              *)

Holding == {s \in Sessions : stage[s] \in {"entered", "open", "dropping"}}

\* The guards of a key that exist, numbered for each holder.
Held(k) == UNION {{h} \X (1..guards[h][k]) : h \in Holders}

\* The counters are the guards that exist, whichever way a session or an attempt
\* is refused or ends, and whatever cleanup removes (InFlight::drop).
GuardsExact ==
  /\ concurrent = Cardinality(Holding)
  /\ \A k \in Keys : /\ table[k] = {} => Held(k) = {}
                     /\ \A lim \in table[k] : lim.concurrent = Cardinality(Held(k))

\* Listeners that load the count at the same time may each let a session in, one
\* more than the limit for each listener but the first; the limit of a key, used
\* under the lock of its entry, is exact.
Bounded ==
  /\ concurrent <= MaxConcurrent + Cardinality(Listeners) - 1
  /\ \A k \in Keys : \A lim \in table[k] : lim.concurrent <= KeyConcurrent

Admits(k, lims) == \A lim \in lims : ~Busy(lim) /\ RateAllows(k, lim)

\* Removing an idle limiter is invisible: the next request gets the answer that
\* the limiter would have given had it stayed (Core::cleanup).
CleanupInvisible == \A k \in Keys : Admits(k, table[k]) <=> Admits(k, shadow[k])

\* A request repeated at the time retry_at gave the queue, or later, is not
\* refused by the rate limit unless another one was allowed before it.
RetrySuffices ==
  \A k \in QueueKeys : \A t \in promised[k] :
     now >= t => \A lim \in table[k] : RateAllows(k, lim)
=============================================================================
