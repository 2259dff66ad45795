---------------------------- MODULE LimitsProofs ----------------------------
(***************************************************************************)
(* The limiters and the queue quotas, for any number of listeners,         *)
(* sessions, attempts and keys, every rate and every clock.                *)
(***************************************************************************)
EXTENDS Throttles, Quotas, FiniteSetTheorems, TLAPS

-----------------------------------------------------------------------------
(* The rate limiter                                                        *)

Limiter == [concurrent : Nat, last : Nat, tokens : Nat]

\* The smaller of two numbers.
LEMMA MinOfTwo ==
  ASSUME NEW a \in Int, NEW b \in Int
  PROVE  Min({a, b}) = IF a <= b THEN a ELSE b
<1> DEFINE m == IF a <= b THEN a ELSE b
<1>1. m \in {a, b} /\ \A y \in {a, b} : m <= y  OBVIOUS
<1>2. \A x \in {a, b} : (\A y \in {a, b} : x <= y) => x = m  OBVIOUS
<1> QED BY <1>1, <1>2 DEF Min

\* The larger of two numbers.
LEMMA MaxOfTwo ==
  ASSUME NEW a \in Int, NEW b \in Int
  PROVE  Max({a, b}) = IF a <= b THEN b ELSE a
<1> DEFINE m == IF a <= b THEN b ELSE a
<1>1. m \in {a, b} /\ \A y \in {a, b} : m >= y  OBVIOUS
<1>2. \A x \in {a, b} : (\A y \in {a, b} : x >= y) => x = m  OBVIOUS
<1> QED BY <1>1, <1>2 DEF Max

\* Products of naturals.
LEMMA ProductGrows ==
  ASSUME NEW a \in Nat, NEW b \in Nat, NEW c \in Nat, a <= b
  PROVE  a * c <= b * c /\ a * c \in Nat /\ b * c \in Nat /\ a * c = c * a
OBVIOUS

\* An interval takes time, and a full limiter has tokens for a request.
LEMMA IntervalType ==
  ASSUME ThrottleAssumption, NEW k \in Keys
  PROVE  /\ max_interval(k) \in Nat \ {0}
         /\ Interval(k) \in Nat \ {0} /\ Interval(k) = max_interval(k) * Second
         /\ Full(k) \in Nat /\ Full(k) = Requests * Interval(k) /\ Interval(k) <= Full(k)
<1>1. max_interval(k) \in Nat \ {0}
  <2>1. Period \in Nat \ {0}  BY DEF ThrottleAssumption
  <2> QED BY <2>1, MinOfTwo DEF max_interval
<1>2. Second \in Nat \ {0} /\ Requests \in Nat \ {0}  BY DEF ThrottleAssumption
<1>3. \A a, b \in Nat \ {0} : a * b \in Nat \ {0} /\ b <= a * b  OBVIOUS
<1>4. Interval(k) \in Nat \ {0}  BY <1>1, <1>2, <1>3 DEF Interval
<1> QED BY <1>1, <1>2, <1>3, <1>4 DEF Interval, Full

\* The tokens are a natural number, no more than the maximum, and the maximum once
\* an interval has passed.
LEMMA AccruedType ==
  ASSUME ThrottleAssumption, NEW k \in Keys, now \in Nat, NEW lim \in Limiter, lim.last <= now
  PROVE  /\ Accrued(k, lim) \in Nat
         /\ now - lim.last >= Interval(k) => Accrued(k, lim) = Full(k) /\ RateAllows(k, lim)
<1>1. /\ Interval(k) \in Nat \ {0} /\ Full(k) \in Nat /\ Full(k) = Requests * Interval(k)
      /\ Interval(k) <= Full(k) /\ Requests \in Nat
  BY IntervalType DEF ThrottleAssumption
<1>2. now - lim.last \in Nat /\ lim.tokens \in Nat  BY DEF Limiter
<1>3. (now - lim.last) * Requests \in Nat  BY <1>1, <1>2
<1>4. Accrued(k, lim) = IF Full(k) <= lim.tokens + (now - lim.last) * Requests THEN Full(k)
                        ELSE lim.tokens + (now - lim.last) * Requests
  BY <1>1, <1>2, <1>3, MinOfTwo DEF Accrued
<1>5. now - lim.last >= Interval(k) => Full(k) <= (now - lim.last) * Requests
  BY <1>1, <1>2, ProductGrows
<1> QED BY <1>1, <1>2, <1>3, <1>4, <1>5 DEF RateAllows

\* A limiter that nobody has used yet lets a request pass.
LEMMA NewLimiterType ==
  ASSUME ThrottleAssumption, NEW k \in Keys, now \in Nat
  PROVE  /\ NewLimiter(k) \in Limiter /\ NewLimiter(k).concurrent = 0
         /\ NewLimiter(k).last = now /\ Accrued(k, NewLimiter(k)) = Full(k)
         /\ RateAllows(k, NewLimiter(k))
<1>1. /\ Interval(k) \in Nat /\ Full(k) \in Nat /\ Interval(k) <= Full(k) /\ Requests \in Nat
  BY IntervalType DEF ThrottleAssumption
<1>2. /\ NewLimiter(k) \in Limiter /\ NewLimiter(k).concurrent = 0 /\ NewLimiter(k).last = now
      /\ NewLimiter(k).tokens = Full(k)
  BY <1>1 DEF NewLimiter, Limiter
<1>3. Accrued(k, NewLimiter(k)) = Full(k)
  <2>1. (now - now) * Requests = 0  BY <1>1
  <2>2. Full(k) + (now - now) * Requests = Full(k)  BY <1>1, <2>1
  <2>3. Min({Full(k), Full(k)}) = Full(k)  BY <1>1, MinOfTwo
  <2> QED BY <1>2, <2>2, <2>3 DEF Accrued
<1> QED BY <1>1, <1>2, <1>3 DEF RateAllows

\* What a request leaves of a limiter.
LEMMA UsedType ==
  ASSUME ThrottleAssumption, NEW k \in Keys, now \in Nat, NEW lim \in Limiter, lim.last <= now
  PROVE  /\ Used(k, lim) \in Limiter /\ Used(k, lim).concurrent = lim.concurrent + 1
         /\ Used(k, lim).last = IF RateAllows(k, lim) THEN now ELSE lim.last
         /\ Used(k, lim).tokens = IF RateAllows(k, lim) THEN Accrued(k, lim) - Interval(k)
                                  ELSE Accrued(k, lim)
<1>1. Accrued(k, lim) \in Nat /\ Interval(k) \in Nat  BY AccruedType, IntervalType
<1>2. RateAllows(k, lim) => Accrued(k, lim) - Interval(k) \in Nat  BY <1>1 DEF RateAllows
<1>3. /\ AfterRate(k, lim) \in Limiter /\ AfterRate(k, lim).concurrent = lim.concurrent
      /\ AfterRate(k, lim).last = IF RateAllows(k, lim) THEN now ELSE lim.last
      /\ AfterRate(k, lim).tokens = IF RateAllows(k, lim) THEN Accrued(k, lim) - Interval(k)
                                    ELSE Accrued(k, lim)
  <2>1. CASE RateAllows(k, lim)  BY <1>2, <2>1 DEF AfterRate, Limiter
  <2>2. CASE ~RateAllows(k, lim)  BY <1>1, <2>2 DEF AfterRate, Limiter
  <2> QED BY <2>1, <2>2
<1>4. ASSUME NEW l \in Limiter
      PROVE  LET u == [l EXCEPT !.concurrent = @ + 1]
             IN  /\ u \in Limiter /\ u.concurrent = l.concurrent + 1
                 /\ u.last = l.last /\ u.tokens = l.tokens
  BY DEF Limiter
<1> QED BY <1>3, <1>4 DEF Used

\* retry_at takes whole seconds off, so it never comes too early.
LEMMA RetryTime ==
  ASSUME ThrottleAssumption, NEW k \in Keys, now \in Nat, NEW lim \in Limiter, lim.last <= now
  PROVE  retry_at(k, lim) \in Nat /\ retry_at(k, lim) >= lim.last + Interval(k)
<1> DEFINE passed == now - lim.last
           q == passed \div Second
           rest == max_interval(k) - q
<1>1. /\ passed \in Nat /\ Second \in Nat \ {0} /\ max_interval(k) \in Nat
      /\ Interval(k) = max_interval(k) * Second /\ lim.last \in Nat
  BY IntervalType DEF ThrottleAssumption, Limiter
<1>2. q \in Nat /\ q * Second <= passed
  <2> HIDE DEF passed
  <2> QED BY <1>1
<1>3. Max({0, rest}) = IF 0 <= rest THEN rest ELSE 0
  <2>1. rest \in Int  BY <1>1, <1>2
  <2> HIDE DEF rest
  <2> QED BY <2>1, MaxOfTwo
<1>4. retry_at(k, lim) = now + Max({0, rest}) * Second  BY DEF retry_at
<1>5. CASE 0 <= rest
  <2>1. retry_at(k, lim) = now + rest * Second  BY <1>3, <1>4, <1>5
  <2>2. rest * Second = max_interval(k) * Second - q * Second /\ rest * Second \in Nat
    <3> HIDE DEF q
    <3> QED BY <1>1, <1>2, <1>5
  <2> HIDE DEF q, rest
  <2> QED BY <1>1, <1>2, <2>1, <2>2
<1>6. CASE rest < 0
  <2>1. retry_at(k, lim) = now
    <3>1. Max({0, rest}) = 0  BY <1>1, <1>2, <1>3, <1>6
    <3> QED BY <1>1, <1>4, <3>1
  <2>2. max_interval(k) * Second <= q * Second
    <3> HIDE DEF q
    <3> QED BY <1>1, <1>2, <1>6, ProductGrows
  <2> HIDE DEF q, rest
  <2> QED BY <1>1, <1>2, <2>1, <2>2
<1>7. rest \in Int  BY <1>1, <1>2
<1> HIDE DEF rest
<1> QED BY <1>5, <1>6, <1>7

-----------------------------------------------------------------------------
(* The inductive invariant of the throttles                                *)

Stages == {"none", "admitted", "entered", "open", "dropping", "released"}

ThrottleType ==
  /\ now \in Nat /\ at \in [Listeners -> Sessions \cup {None}]
  /\ stage \in [Holders -> Stages] /\ guards \in [Holders -> [Keys -> Nat]]
  /\ table \in [Keys -> SUBSET Limiter] /\ shadow \in [Keys -> SUBSET Limiter]
  /\ promised \in [Keys -> SUBSET Nat]
  /\ \A k \in Keys : /\ \A lim, other \in table[k] : lim = other
                     /\ \A lim, other \in shadow[k] : lim = other
                     /\ \A lim \in table[k] \cup shadow[k] : lim.last <= now

\* The listeners whose session has passed the test and not yet counted itself.
Passing == {l \in Listeners : at[l] # None /\ stage[at[l]] = "admitted"}

\* A session that is let in keeps its listener busy until it is open or gone, so
\* there is one such session for each listener at most.
GateInv ==
  /\ \A l \in Listeners :
       at[l] # None => stage[at[l]] \in {"admitted", "entered", "dropping", "released"}
  /\ \A l, m \in Listeners : at[l] # None /\ at[l] = at[m] => l = m
  /\ \A s \in Sessions : stage[s] = "admitted" => \E l \in Listeners : at[l] = s
  /\ IsFiniteSet(Holding) /\ concurrent = Cardinality(Holding)
  /\ concurrent + Cardinality(Passing) <= MaxConcurrent + Cardinality(Listeners) - 1

\* The guards of a key, given how many each holder has.
Numbered(gs, k) == {g \in Holders \X (Nat \ {0}) : g[2] <= gs[g[1]][k]}

\* A limiter counts its guards; it is missing only where it would be idle and full;
\* and a retry comes after its interval.
KeyInv(k) ==
  /\ IsFiniteSet(Held(k))
  /\ table[k] = {} => Held(k) = {}
  /\ \A lim \in table[k] : lim.concurrent = Cardinality(Held(k)) /\ lim.concurrent <= KeyConcurrent
  /\ \/ shadow[k] = table[k]
     \/ /\ table[k] = {}
        /\ \A lim \in shadow[k] : lim.concurrent = 0 /\ now - lim.last >= Interval(k)
  /\ \A t \in promised[k] : \A lim \in table[k] : t >= lim.last + Interval(k)

ThrottleInv == ThrottleType /\ GateInv /\ \A k \in Keys : KeyInv(k)

-----------------------------------------------------------------------------
(* The tables                                                              *)

\* The guards that exist, as a subset of all there could be.
LEMMA HeldIsNumbered ==
  ASSUME NEW gs \in [Holders -> [Keys -> Nat]], NEW k \in Keys
  PROVE  UNION {{h} \X (1..gs[h][k]) : h \in Holders} = Numbered(gs, k)
<1> DEFINE held == UNION {{h} \X (1..gs[h][k]) : h \in Holders}
<1>1. \A h \in Holders : gs[h][k] \in Nat  OBVIOUS
<1>2. ASSUME NEW g \in held  PROVE g \in Numbered(gs, k)
  <2>1. PICK h \in Holders : g \in {h} \X (1..gs[h][k])  OBVIOUS
  <2> QED BY <1>1, <2>1 DEF Numbered
<1>3. ASSUME NEW g \in Numbered(gs, k)  PROVE g \in held
  <2>1. g \in Holders \X (Nat \ {0}) /\ g[2] <= gs[g[1]][k]  BY DEF Numbered
  <2>2. g \in {g[1]} \X (1..gs[g[1]][k])  BY <1>1, <2>1
  <2> QED BY <2>1, <2>2
<1> QED BY <1>2, <1>3

\* The limiter a request finds, or inserts.
LEMMA EntryType ==
  ASSUME ThrottleAssumption, ThrottleType, NEW k \in Keys, NEW lims \in {table[k], shadow[k]}
  PROVE  /\ Entry(k, lims) \in Limiter /\ Entry(k, lims).last <= now
         /\ lims = {} => Entry(k, lims) = NewLimiter(k)
         /\ lims # {} => lims = {Entry(k, lims)}
<1>1. now \in Nat  BY DEF ThrottleType
<1>2. CASE lims = {}
  BY <1>1, <1>2, NewLimiterType DEF Entry
<1>3. CASE lims # {}
  <2>1. lims \in SUBSET Limiter /\ \A a, b \in lims : a = b  BY DEF ThrottleType
  <2>2. PICK lim \in lims : TRUE  BY <1>3
  <2>3. lims = {lim}  BY <2>1, <2>2
  <2>4. Entry(k, lims) = lim  BY <2>3 DEF Entry
  <2>5. lim \in Limiter /\ lim.last <= now  BY <2>1, <2>2 DEF ThrottleType
  <2> QED BY <1>3, <2>3, <2>4, <2>5
<1> QED BY <1>2, <1>3

\* A step that leaves the tables alone, while time may pass.
LEMMA IdleKeys ==
  ASSUME ThrottleAssumption, ThrottleType, \A k \in Keys : KeyInv(k),
         UNCHANGED <<table, guards, shadow, promised>>, now' \in Nat, now <= now'
  PROVE  /\ \A k \in Keys : KeyInv(k)'
         /\ \A k \in Keys : \A lim \in table'[k] \cup shadow'[k] : lim.last <= now'
<1> SUFFICES ASSUME NEW k \in Keys
             PROVE  KeyInv(k)' /\ \A lim \in table'[k] \cup shadow'[k] : lim.last <= now'
  OBVIOUS
<1>1. now \in Nat /\ \A lim \in table[k] \cup shadow[k] : lim \in Limiter /\ lim.last <= now
  BY DEF ThrottleType
<1>2. \A lim \in table'[k] \cup shadow'[k] : lim.last <= now'
  BY <1>1 DEF Limiter
<1>3. Interval(k)' = Interval(k) /\ Interval(k) \in Nat /\ Held(k)' = Held(k)
  BY IntervalType DEF Interval, max_interval, Held
<1>4. \A lim \in shadow[k] : now - lim.last >= Interval(k) => now' - lim.last >= Interval(k)
  BY <1>1, <1>3 DEF Limiter
<1>5. KeyInv(k)  OBVIOUS
<1>6. IsFiniteSet(Held(k)') /\ (table'[k] = {} => Held(k)' = {})
        /\ \A lim \in table'[k] : lim.concurrent = Cardinality(Held(k)') /\ lim.concurrent <= KeyConcurrent
  BY <1>3, <1>5 DEF KeyInv
<1>7. \/ shadow'[k] = table'[k]
      \/ /\ table'[k] = {}
         /\ \A lim \in shadow'[k] : lim.concurrent = 0 /\ now' - lim.last >= Interval(k)'
  BY <1>3, <1>4, <1>5 DEF KeyInv
<1>8. \A t \in promised'[k] : \A lim \in table'[k] : t >= lim.last + Interval(k)'
  BY <1>3, <1>5 DEF KeyInv
<1> QED BY <1>2, <1>6, <1>7, <1>8 DEF KeyInv

\* A request that takes a guard.
UseOf(h, k) ==
  LET lim == Entry(k, table[k])
  IN /\ ~Busy(lim)
     /\ table' = [table EXCEPT ![k] = {Used(k, lim)}]
     /\ guards' = [guards EXCEPT ![h][k] = @ + 1]
     /\ shadow' = [shadow EXCEPT ![k] = {Used(k, Entry(k, @))}]
     /\ promised' = [promised EXCEPT ![k] = IF RateAllows(k, lim) THEN {}
                                            ELSE {retry_at(k, Used(k, lim))}]
     /\ now' = now

\* A request of a key that is granted keeps the invariant of every key.
LEMMA UseKeeps ==
  ASSUME ThrottleAssumption, ThrottleType, \A k \in Keys : KeyInv(k),
         NEW h \in Holders, NEW k \in Keys, UseOf(h, k)
  PROVE  /\ \A j \in Keys : KeyInv(j)'
         /\ table' \in [Keys -> SUBSET Limiter] /\ shadow' \in [Keys -> SUBSET Limiter]
         /\ guards' \in [Holders -> [Keys -> Nat]] /\ promised' \in [Keys -> SUBSET Nat]
         /\ \A j \in Keys : /\ \A lim, other \in table'[j] : lim = other
                            /\ \A lim, other \in shadow'[j] : lim = other
                            /\ \A lim \in table'[j] \cup shadow'[j] : lim.last <= now'
<1> DEFINE lim == Entry(k, table[k])
           sh == Entry(k, shadow[k])
           used == Used(k, lim)
<1>1. /\ lim \in Limiter /\ lim.last <= now /\ now \in Nat /\ KeyConcurrent \in Nat \ {0}
      /\ table[k] = {} => lim = NewLimiter(k)
      /\ table[k] # {} => table[k] = {lim}
      /\ sh \in Limiter /\ sh.last <= now
      /\ shadow[k] = {} => sh = NewLimiter(k)
      /\ shadow[k] # {} => shadow[k] = {sh}
  BY EntryType DEF ThrottleType, ThrottleAssumption
<1>2. /\ used \in Limiter /\ used.concurrent = lim.concurrent + 1
      /\ used.last = (IF RateAllows(k, lim) THEN now ELSE lim.last)
      /\ used.tokens = (IF RateAllows(k, lim) THEN Accrued(k, lim) - Interval(k) ELSE Accrued(k, lim))
      /\ used.last <= now
  BY <1>1, UsedType DEF Limiter
<1>3. Used(k, sh) = used
  <2>1. CASE shadow[k] = table[k]  BY <2>1
  <2>2. CASE table[k] = {} /\ shadow[k] # {}
                /\ \A l \in shadow[k] : l.concurrent = 0 /\ now - l.last >= Interval(k)
    <3>1. sh.concurrent = 0 /\ Accrued(k, sh) = Full(k) /\ RateAllows(k, sh)
      BY <1>1, <2>2, AccruedType
    <3>2. lim.concurrent = 0 /\ Accrued(k, lim) = Full(k) /\ RateAllows(k, lim)
      BY <1>1, <2>2, NewLimiterType
    <3>3. /\ Used(k, sh) \in Limiter /\ Used(k, sh).concurrent = used.concurrent
          /\ Used(k, sh).last = used.last /\ Used(k, sh).tokens = used.tokens
      BY <1>1, <1>2, <3>1, <3>2, UsedType
    <3> HIDE DEF used, sh
    <3> QED BY <1>2, <3>3 DEF Limiter
  <2> QED BY <2>1, <2>2 DEF KeyInv
<1> HIDE DEF lim, sh
<1>4. /\ table' = [table EXCEPT ![k] = {used}] /\ shadow' = [shadow EXCEPT ![k] = {used}]
      /\ guards' = [guards EXCEPT ![h][k] = @ + 1] /\ now' = now
      /\ lim.concurrent < KeyConcurrent
      /\ promised' = [promised EXCEPT ![k] = IF RateAllows(k, lim) THEN {} ELSE {retry_at(k, used)}]
  BY <1>1, <1>3 DEF UseOf, Busy, lim, sh, Limiter
<1> HIDE DEF used
<1>5. retry_at(k, used) \in Nat /\ retry_at(k, used) >= used.last + Interval(k)
  BY <1>1, <1>2, RetryTime
<1>6. /\ table' \in [Keys -> SUBSET Limiter] /\ shadow' \in [Keys -> SUBSET Limiter]
      /\ guards' \in [Holders -> [Keys -> Nat]] /\ promised' \in [Keys -> SUBSET Nat]
      /\ table'[k] = {used} /\ shadow'[k] = {used}
      /\ \A j \in Keys \ {k} : /\ table'[j] = table[j] /\ shadow'[j] = shadow[j]
                               /\ promised'[j] = promised[j]
  BY <1>2, <1>4, <1>5 DEF ThrottleType
<1>7. \A j \in Keys : /\ \A l, other \in table'[j] : l = other
                      /\ \A l, other \in shadow'[j] : l = other
                      /\ \A l \in table'[j] \cup shadow'[j] : l.last <= now'
  BY <1>2, <1>4, <1>6 DEF ThrottleType
<1>8. \A j \in Keys : Interval(j)' = Interval(j)  BY DEF Interval, max_interval
<1>9. ASSUME NEW j \in Keys \ {k}  PROVE KeyInv(j)'
  <2>1. Held(j)' = Held(j)
    <3>1. \A g \in Holders : guards'[g][j] = guards[g][j]  BY <1>4 DEF ThrottleType
    <3> QED BY <3>1 DEF Held
  <2>2. KeyInv(j)  OBVIOUS
  <2> QED BY <1>4, <1>6, <1>8, <2>1, <2>2 DEF KeyInv
<1>10. KeyInv(k)'
  <2> DEFINE g == <<h, guards[h][k] + 1>>
  <2>1. guards[h][k] \in Nat /\ guards'[h][k] = guards[h][k] + 1
          /\ \A o \in Holders \ {h} : guards'[o][k] = guards[o][k]
    BY <1>4 DEF ThrottleType
  <2>2. Held(k)' = Held(k) \cup {g} /\ g \notin Held(k)
    <3>0. Held(k) = Numbered(guards, k) /\ Held(k)' = Numbered(guards', k)
      BY <1>6, HeldIsNumbered DEF Held, ThrottleType
    <3>1. g \in Held(k)' /\ g \notin Held(k)  BY <3>0, <2>1 DEF Numbered
    <3>2. ASSUME NEW x \in Held(k)  PROVE x \in Held(k)'
      <4>1. x \in Holders \X (Nat \ {0}) /\ x[2] <= guards[x[1]][k]  BY <3>0 DEF Numbered
      <4>2. CASE x[1] = h  BY <3>0, <2>1, <4>1, <4>2 DEF Numbered
      <4>3. CASE x[1] # h  BY <3>0, <2>1, <4>1, <4>3 DEF Numbered
      <4> QED BY <3>0, <4>2, <4>3
    <3>3. ASSUME NEW x \in Held(k)', x # g  PROVE x \in Held(k)
      <4>1. x \in Holders \X (Nat \ {0}) /\ x[2] <= guards'[x[1]][k]  BY <3>0 DEF Numbered
      <4>2. CASE x[1] = h
        <5>1. x[2] # guards[h][k] + 1  BY <3>0, <3>3, <4>1, <4>2
        <5>2. x[2] <= guards[h][k]  BY <3>0, <2>1, <4>1, <4>2, <5>1
        <5> QED BY <3>0, <4>1, <4>2, <5>2 DEF Numbered
      <4>3. CASE x[1] # h  BY <3>0, <2>1, <4>1, <4>3 DEF Numbered
      <4> QED BY <3>0, <4>2, <4>3
    <3> QED BY <3>0, <3>1, <3>2, <3>3
  <2>3. IsFiniteSet(Held(k)') /\ Cardinality(Held(k)') = Cardinality(Held(k)) + 1
    <3>1. IsFiniteSet(Held(k))  BY DEF KeyInv
    <3> HIDE DEF g
    <3> QED BY <2>2, <3>1, FS_AddElement
  <2>4. lim.concurrent = Cardinality(Held(k))
    <3>1. CASE table[k] = {}
      <4>1. Held(k) = {}  BY <3>1 DEF KeyInv
      <4> QED BY <1>1, <3>1, <4>1, NewLimiterType, FS_EmptySet
    <3>2. CASE table[k] # {}
      BY <1>1, <3>2 DEF KeyInv
    <3> QED BY <3>1, <3>2
  <2>5. used.concurrent = Cardinality(Held(k)') /\ used.concurrent <= KeyConcurrent
    BY <1>1, <1>2, <1>4, <2>3, <2>4 DEF Limiter
  <2>6. \A t \in promised'[k] : t >= used.last + Interval(k)
    BY <1>4, <1>5 DEF ThrottleType
  <2> QED BY <1>6, <1>8, <2>3, <2>5, <2>6 DEF KeyInv
<1> QED BY <1>6, <1>7, <1>9, <1>10

\* InFlight::drop, in the table as it is and as it would be.
ReleaseOf(h, k) ==
  /\ guards[h][k] > 0
  /\ guards' = [guards EXCEPT ![h][k] = @ - 1]
  /\ table' = [table EXCEPT ![k] = Released(@)]
  /\ shadow' = [shadow EXCEPT ![k] = Released(@)]
  /\ UNCHANGED <<now, promised>>

\* The drop of a guard keeps the invariant of every key.
LEMMA ReleaseKeeps ==
  ASSUME ThrottleAssumption, ThrottleType, \A k \in Keys : KeyInv(k),
         NEW h \in Holders, NEW k \in Keys, ReleaseOf(h, k)
  PROVE  /\ \A j \in Keys : KeyInv(j)'
         /\ table' \in [Keys -> SUBSET Limiter] /\ shadow' \in [Keys -> SUBSET Limiter]
         /\ guards' \in [Holders -> [Keys -> Nat]]
         /\ \A j \in Keys : /\ \A lim, other \in table'[j] : lim = other
                            /\ \A lim, other \in shadow'[j] : lim = other
                            /\ \A lim \in table'[j] \cup shadow'[j] : lim.last <= now'
<1> DEFINE g == <<h, guards[h][k]>>
<1>1. guards[h][k] \in Nat \ {0} /\ guards'[h][k] = guards[h][k] - 1
          /\ \A o \in Holders \ {h} : guards'[o][k] = guards[o][k]
    BY DEF ThrottleType, ReleaseOf
<1>2. Held(k)' = Held(k) \ {g} /\ g \in Held(k)
  <2>0. Held(k) = Numbered(guards, k) /\ Held(k)' = Numbered(guards', k)
    <3>1. guards' \in [Holders -> [Keys -> Nat]]  BY <1>1 DEF ThrottleType, ReleaseOf
    <3> QED BY <3>1, HeldIsNumbered DEF Held, ThrottleType
  <2>1. g \in Held(k) /\ g \notin Held(k)'  BY <2>0, <1>1 DEF Numbered
  <2>2. ASSUME NEW x \in Held(k)'  PROVE x \in Held(k)
    <3>1. x \in Holders \X (Nat \ {0}) /\ x[2] <= guards'[x[1]][k]  BY <2>0 DEF Numbered
    <3>2. CASE x[1] = h  BY <2>0, <1>1, <3>1, <3>2 DEF Numbered
    <3>3. CASE x[1] # h  BY <2>0, <1>1, <3>1, <3>3 DEF Numbered
    <3> QED BY <2>0, <3>2, <3>3
  <2>3. ASSUME NEW x \in Held(k), x # g  PROVE x \in Held(k)'
    <3>1. x \in Holders \X (Nat \ {0}) /\ x[2] <= guards[x[1]][k]  BY <2>0 DEF Numbered
    <3>2. CASE x[1] = h
      <4>1. x[2] # guards[h][k]  BY <2>0, <2>3, <3>1, <3>2
      <4>2. x[2] <= guards'[h][k]  BY <2>0, <1>1, <3>1, <3>2, <4>1
      <4> QED BY <2>0, <3>1, <3>2, <4>2 DEF Numbered
    <3>3. CASE x[1] # h  BY <2>0, <1>1, <3>1, <3>3 DEF Numbered
    <3> QED BY <2>0, <3>2, <3>3
  <2> QED BY <2>0, <2>1, <2>2, <2>3
<1>3. /\ IsFiniteSet(Held(k)') /\ Cardinality(Held(k)') = Cardinality(Held(k)) - 1
      /\ Cardinality(Held(k)) \in Nat
  <2>1. IsFiniteSet(Held(k))  BY DEF KeyInv
  <2> HIDE DEF g
  <2> QED BY <1>2, <2>1, FS_RemoveElement, FS_CardinalityType
<1>4. table[k] # {} /\ shadow[k] = table[k]  BY <1>2 DEF KeyInv
<1>5. PICK lim \in Limiter : table[k] = {lim} /\ lim.last <= now
  BY <1>4 DEF ThrottleType
<1>6. lim.concurrent = Cardinality(Held(k)) /\ lim.concurrent <= KeyConcurrent /\ lim.concurrent \in Nat
  BY <1>5 DEF KeyInv, Limiter
<1>7. Cardinality(Held(k)) # 0
  <2>1. IsFiniteSet(Held(k))  BY DEF KeyInv
  <2> HIDE DEF g
  <2> QED BY <1>2, <2>1, FS_EmptySet
<1> DEFINE less == [lim EXCEPT !.concurrent = @ - 1]
<1>8. /\ less \in Limiter /\ less.concurrent = lim.concurrent - 1 /\ less.last = lim.last
  BY <1>3, <1>6, <1>7 DEF Limiter
<1>9. Released(table[k]) = {less}  BY <1>5 DEF Released
<1> HIDE DEF less
<1>10. /\ table' \in [Keys -> SUBSET Limiter] /\ shadow' \in [Keys -> SUBSET Limiter]
       /\ guards' \in [Holders -> [Keys -> Nat]]
       /\ table'[k] = {less} /\ shadow'[k] = {less}
       /\ \A j \in Keys \ {k} : table'[j] = table[j] /\ shadow'[j] = shadow[j]
  BY <1>1, <1>4, <1>8, <1>9 DEF ThrottleType, ReleaseOf
<1>11. now' = now /\ promised' = promised  BY DEF ReleaseOf
<1>12. \A j \in Keys : /\ \A l, other \in table'[j] : l = other
                       /\ \A l, other \in shadow'[j] : l = other
                       /\ \A l \in table'[j] \cup shadow'[j] : l.last <= now'
  BY <1>5, <1>8, <1>10, <1>11 DEF ThrottleType
<1>13. \A j \in Keys : Interval(j)' = Interval(j)  BY DEF Interval, max_interval
<1>14. ASSUME NEW j \in Keys \ {k}  PROVE KeyInv(j)'
  <2>1. Held(j)' = Held(j)
    <3>1. \A o \in Holders : guards'[o][j] = guards[o][j]  BY DEF ThrottleType, ReleaseOf
    <3> QED BY <3>1 DEF Held
  <2>2. KeyInv(j)  OBVIOUS
  <2> QED BY <1>10, <1>11, <1>13, <2>1, <2>2 DEF KeyInv
<1>15. KeyInv(k)'
  <2>1. \A t \in promised[k] : t >= lim.last + Interval(k)  BY <1>5 DEF KeyInv
  <2>2. less.concurrent = Cardinality(Held(k)') /\ less.concurrent <= KeyConcurrent
    BY <1>3, <1>6, <1>8 DEF ThrottleAssumption
  <2> QED BY <1>3, <1>8, <1>10, <1>11, <1>13, <2>1, <2>2 DEF KeyInv
<1> QED BY <1>10, <1>12, <1>14, <1>15

\* Core::cleanup
LEMMA CleanupKeeps ==
  ASSUME ThrottleAssumption, ThrottleType, \A k \in Keys : KeyInv(k),
         NEW k \in Keys, Cleanup(k)
  PROVE  /\ \A j \in Keys : KeyInv(j)'
         /\ table' \in [Keys -> SUBSET Limiter]
         /\ \A j \in Keys : /\ \A lim, other \in table'[j] : lim = other
                            /\ \A lim \in table'[j] \cup shadow'[j] : lim.last <= now'
<1>1. /\ table' = [table EXCEPT ![k] = {}] /\ UNCHANGED <<now, guards, shadow, promised>>
  BY DEF Cleanup, observed
<1>2. /\ table' \in [Keys -> SUBSET Limiter] /\ table'[k] = {}
      /\ \A j \in Keys \ {k} : table'[j] = table[j]
  BY <1>1 DEF ThrottleType
<1>3. \A j \in Keys : /\ \A l, other \in table'[j] : l = other
                      /\ \A l \in table'[j] \cup shadow'[j] : l.last <= now'
  BY <1>1, <1>2 DEF ThrottleType
<1>4. \A j \in Keys : Interval(j)' = Interval(j) /\ Held(j)' = Held(j)
  BY <1>1 DEF Interval, max_interval, Held
<1>5. ASSUME NEW j \in Keys \ {k}  PROVE KeyInv(j)'
  <2>1. KeyInv(j)  OBVIOUS
  <2> QED BY <1>1, <1>2, <1>4, <2>1 DEF KeyInv
<1>6. KeyInv(k)'
  <2>1. PICK lim \in table[k] : ~Kept(k, lim)  BY DEF Cleanup
  <2>2. /\ lim.concurrent = Cardinality(Held(k)) /\ lim \in Limiter
        /\ IsFiniteSet(Held(k)) /\ shadow[k] = table[k] /\ table[k] = {lim}
    BY <2>1 DEF KeyInv, ThrottleType
  <2>3. lim.concurrent = 0 /\ now - lim.last >= Interval(k)
    BY <2>1, <2>2, IntervalType DEF Kept, Limiter, ThrottleType
  <2>4. Held(k) = {}  BY <2>2, <2>3, FS_EmptySet
  <2> QED BY <1>1, <1>2, <1>4, <2>2, <2>3, <2>4, FS_EmptySet DEF KeyInv
<1> QED BY <1>2, <1>3, <1>5, <1>6

-----------------------------------------------------------------------------
(* The global limit                                                        *)

\* The types the gate needs.
GateType ==
  /\ at \in [Listeners -> Sessions \cup {None}] /\ stage \in [Holders -> Stages]

\* What is counted at the gate is finite.
LEMMA GateCounts ==
  ASSUME ThrottleAssumption, GateInv
  PROVE  /\ IsFiniteSet(Passing) /\ Cardinality(Passing) \in Nat /\ Cardinality(Listeners) \in Nat
         /\ Cardinality(Holding) \in Nat /\ concurrent \in Nat /\ MaxConcurrent \in Nat
<1>1. IsFiniteSet(Listeners) /\ MaxConcurrent \in Nat  BY DEF ThrottleAssumption
<1>2. Passing \subseteq Listeners  BY DEF Passing
<1>3. IsFiniteSet(Passing)  BY <1>1, <1>2, FS_Subset
<1> QED BY <1>1, <1>3, FS_CardinalityType DEF GateInv

\* accept, and the load of the count.
LEMMA AcceptGate ==
  ASSUME ThrottleAssumption, GateType, GateInv,
         NEW l \in Listeners, NEW s \in Sessions, Accept(l, s)
  PROVE  GateType' /\ GateInv'
<1>1. /\ at' = [at EXCEPT ![l] = s] /\ stage' = [stage EXCEPT ![s] = "admitted"]
      /\ at[l] = None /\ stage[s] = "none" /\ concurrent' = concurrent
      /\ concurrent < MaxConcurrent /\ s \in Holders /\ s # None
  BY DEF Accept, Holders, ThrottleAssumption
<1>2. GateType'  BY <1>1 DEF GateType, Stages
<1>3. /\ at'[l] = s /\ stage'[s] = "admitted"
      /\ \A m \in Listeners \ {l} : at'[m] = at[m] /\ at[m] # s
      /\ \A o \in Holders \ {s} : stage'[o] = stage[o]
  BY <1>1 DEF GateType, GateInv
<1>4. Holding' = Holding  BY <1>1, <1>3 DEF Holding, Holders
<1>5. Passing' \subseteq Listeners  BY DEF Passing
<1>6. Cardinality(Passing') <= Cardinality(Listeners) /\ Cardinality(Passing') \in Nat
  BY <1>5, FS_Subset, FS_CardinalityType DEF ThrottleAssumption
<1>7. concurrent' + Cardinality(Passing') <= MaxConcurrent + Cardinality(Listeners) - 1
  BY <1>1, <1>6, GateCounts
<1>8. \A m \in Listeners :
        at'[m] # None => stage'[at'[m]] \in {"admitted", "entered", "dropping", "released"}
  BY <1>1, <1>3 DEF GateType, GateInv, Holders
<1>9. \A m, n \in Listeners : at'[m] # None /\ at'[m] = at'[n] => m = n
  BY <1>1, <1>3 DEF GateInv
<1>10. \A o \in Sessions : stage'[o] = "admitted" => \E m \in Listeners : at'[m] = o
  BY <1>1, <1>3 DEF GateInv, Holders
<1> QED BY <1>1, <1>2, <1>4, <1>7, <1>8, <1>9, <1>10 DEF GateInv

\* The fetch_add.
LEMMA EnterGate ==
  ASSUME ThrottleAssumption, GateType, GateInv, NEW s \in Sessions, Enter(s)
  PROVE  GateType' /\ GateInv'
<1>1. /\ stage[s] = "admitted" /\ stage' = [stage EXCEPT ![s] = "entered"] /\ at' = at
      /\ concurrent' = concurrent + 1 /\ s \in Holders /\ s # None
  BY DEF Enter, Holders, ThrottleAssumption
<1>2. GateType'  BY <1>1 DEF GateType, Stages
<1>3. stage'[s] = "entered" /\ \A o \in Holders \ {s} : stage'[o] = stage[o]
  BY <1>1 DEF GateType
<1>4. PICK l \in Listeners : at[l] = s /\ \A m \in Listeners \ {l} : at[m] # s
  BY <1>1 DEF GateInv
<1>5. Passing' = Passing \ {l} /\ l \in Passing
  BY <1>1, <1>3, <1>4 DEF Passing, GateType, Holders
<1>6. Holding' = Holding \cup {s} /\ s \notin Holding
  BY <1>1, <1>3 DEF Holding, Holders
<1>7. Cardinality(Passing') = Cardinality(Passing) - 1
  BY <1>5, GateCounts, FS_RemoveElement
<1>8. IsFiniteSet(Holding') /\ Cardinality(Holding') = Cardinality(Holding) + 1
  BY <1>6, FS_AddElement DEF GateInv
<1>9. /\ concurrent' = Cardinality(Holding')
      /\ concurrent' + Cardinality(Passing') <= MaxConcurrent + Cardinality(Listeners) - 1
  BY <1>1, <1>7, <1>8, GateCounts DEF GateInv
<1>10. \A m \in Listeners :
        at'[m] # None => stage'[at'[m]] \in {"admitted", "entered", "dropping", "released"}
  BY <1>1, <1>3, <1>4 DEF GateType, GateInv, Holders
<1>11. \A o \in Sessions : stage'[o] = "admitted" => \E m \in Listeners : at'[m] = o
  BY <1>1, <1>3 DEF GateInv, Holders
<1> QED BY <1>1, <1>2, <1>8, <1>9, <1>10, <1>11 DEF GateInv

\* The global guard is dropped.
LEMMA ReleaseGate ==
  ASSUME ThrottleAssumption, GateType, GateInv, NEW s \in Sessions, ReleaseGlobal(s)
  PROVE  GateType' /\ GateInv'
<1>1. /\ stage[s] = "dropping" /\ stage' = [stage EXCEPT ![s] = "released"] /\ at' = at
      /\ concurrent' = concurrent - 1 /\ s \in Holders /\ s # None
  BY DEF ReleaseGlobal, Holders, ThrottleAssumption
<1>2. GateType'  BY <1>1 DEF GateType, Stages
<1>3. stage'[s] = "released" /\ \A o \in Holders \ {s} : stage'[o] = stage[o]
  BY <1>1 DEF GateType
<1>4. Passing' = Passing  BY <1>1, <1>3 DEF Passing, GateType, Holders
<1>5. Holding' = Holding \ {s} /\ s \in Holding  BY <1>1, <1>3 DEF Holding, Holders
<1>6. IsFiniteSet(Holding') /\ Cardinality(Holding') = Cardinality(Holding) - 1
  BY <1>5, FS_RemoveElement DEF GateInv
<1>7. /\ concurrent' = Cardinality(Holding')
      /\ concurrent' + Cardinality(Passing') <= MaxConcurrent + Cardinality(Listeners) - 1
  BY <1>1, <1>4, <1>6, GateCounts DEF GateInv
<1>8. \A m \in Listeners :
        at'[m] # None => stage'[at'[m]] \in {"admitted", "entered", "dropping", "released"}
  BY <1>1, <1>3 DEF GateType, GateInv, Holders
<1>9. \A o \in Sessions : stage'[o] = "admitted" => \E m \in Listeners : at'[m] = o
  BY <1>1, <1>3 DEF GateInv, Holders
<1> QED BY <1>1, <1>2, <1>6, <1>7, <1>8, <1>9 DEF GateInv

\* Nothing passes the gate: the other moves of a session h, and of an attempt.  The
\* listener of a session that is open or gone is free again.
MoveOf(h, target) ==
  /\ stage' = [stage EXCEPT ![h] = target] /\ concurrent' = concurrent
  /\ \/ h \in Attempts /\ target \in Stages /\ at' = at
     \/ /\ h \in Sessions /\ target = stage[h] /\ at' = at
     \/ /\ h \in Sessions /\ stage[h] = "open" /\ target = "dropping" /\ at' = at
     \/ /\ h \in Sessions /\ stage[h] = "entered" /\ target = "dropping" /\ at' = at
     \/ /\ h \in Sessions
        /\ \/ stage[h] = "entered" /\ target = "open"
           \/ stage[h] = "released" /\ target = "none"
        /\ at' = [l \in Listeners |-> IF at[l] = h THEN None ELSE at[l]]

\* A step of a holder that leaves the counter of connections alone keeps the gate.
LEMMA MoveGate ==
  ASSUME ThrottleAssumption, GateType, GateInv, NEW h \in Holders, NEW target, MoveOf(h, target)
  PROVE  GateType' /\ GateInv'
<1>1. /\ stage' = [stage EXCEPT ![h] = target] /\ concurrent' = concurrent /\ target \in Stages
      /\ at' = at \/ at' = [l \in Listeners |-> IF at[l] = h THEN None ELSE at[l]]
  BY DEF MoveOf, Stages, GateType
<1>2. GateType'  BY <1>1 DEF GateType
<1>3. stage'[h] = target /\ \A o \in Holders \ {h} : stage'[o] = stage[o]  BY <1>1 DEF GateType
<1>4. \A l \in Listeners : at'[l] \in {at[l], None} /\ (at[l] # h => at'[l] = at[l])
  BY <1>1 DEF GateType
<1>5. h \in Sessions => h \notin Attempts /\ h # None  BY DEF ThrottleAssumption
<1>6. Holding' = Holding
  BY <1>3, <1>5 DEF Holding, Holders, MoveOf, ThrottleAssumption
<1>7. Passing' = Passing
  <2>1. ASSUME NEW l \in Listeners, at[l] # h  PROVE l \in Passing' <=> l \in Passing
    BY <1>3, <1>4, <2>1 DEF Passing, GateType, Holders
  <2>2. ASSUME NEW l \in Listeners, at[l] = h  PROVE l \in Passing' <=> l \in Passing
    <3>1. h \in Sessions \/ h = None  BY <2>2 DEF GateType
    <3>2. h = None => at'[l] = None  BY <1>4, <2>2
    <3> QED BY <1>3, <1>4, <1>5, <2>2, <3>1, <3>2 DEF Passing, MoveOf, GateInv
  <2> QED BY <2>1, <2>2 DEF Passing
<1>8. \A m \in Listeners :
        at'[m] # None => stage'[at'[m]] \in {"admitted", "entered", "dropping", "released"}
  <2> SUFFICES ASSUME NEW m \in Listeners, at'[m] # None
               PROVE  stage'[at'[m]] \in {"admitted", "entered", "dropping", "released"}
    OBVIOUS
  <2>1. at'[m] = at[m] /\ at[m] \in Sessions  BY <1>4 DEF GateType
  <2>2. CASE at[m] # h  BY <1>3, <2>1, <2>2 DEF GateInv, Holders
  <2>3. CASE at[m] = h
    <3>1. at' = at \/ at'[m] = None  BY <1>1, <2>3
    <3> QED BY <1>3, <1>5, <2>1, <2>3, <3>1 DEF GateInv, MoveOf
  <2> QED BY <2>2, <2>3
<1>9. \A m, n \in Listeners : at'[m] # None /\ at'[m] = at'[n] => m = n
  BY <1>4 DEF GateInv
<1>10. \A o \in Sessions : stage'[o] = "admitted" => \E m \in Listeners : at'[m] = o
  <2> SUFFICES ASSUME NEW o \in Sessions, stage'[o] = "admitted"
               PROVE  \E m \in Listeners : at'[m] = o
    OBVIOUS
  <2>1. CASE o # h  BY <1>3, <1>4, <2>1 DEF GateInv, Holders
  <2>2. CASE o = h  BY <1>3, <1>5, <2>2 DEF GateInv, MoveOf
  <2> QED BY <2>1, <2>2
<1> QED BY <1>1, <1>2, <1>6, <1>7, <1>8, <1>9, <1>10 DEF GateInv

-----------------------------------------------------------------------------
(* Every step                                                              *)

\* The types of the tables.
TableType ==
  /\ guards \in [Holders -> [Keys -> Nat]]
  /\ table \in [Keys -> SUBSET Limiter] /\ shadow \in [Keys -> SUBSET Limiter]
  /\ promised \in [Keys -> SUBSET Nat]
  /\ \A k \in Keys : /\ \A lim, other \in table[k] : lim = other
                     /\ \A lim, other \in shadow[k] : lim = other
                     /\ \A lim \in table[k] \cup shadow[k] : lim.last <= now

\* The type invariant is that of the clock, the gate and the tables.
LEMMA TypeParts ==
  ThrottleType <=> now \in Nat /\ GateType /\ TableType
BY DEF ThrottleType, GateType, TableType

\* A step of the gate that leaves the tables and the clock alone.
LEMMA GateOnly ==
  ASSUME ThrottleAssumption, ThrottleInv, GateType', GateInv',
         UNCHANGED <<table, guards, shadow, promised, now>>
  PROVE  ThrottleInv'
<1>1. ThrottleType /\ (\A k \in Keys : KeyInv(k)) /\ now \in Nat /\ TableType
  BY TypeParts DEF ThrottleInv
<1>2. now' \in Nat /\ now <= now'  BY <1>1
<1>3. \A k \in Keys : KeyInv(k)'  BY <1>1, <1>2, IdleKeys
<1>4. TableType'  BY <1>1 DEF TableType
<1> QED BY <1>2, <1>3, <1>4, TypeParts DEF ThrottleInv, ThrottleType, GateType, TableType

\* A request, allowed or refused, that moves its holder to a stage it may move to.
LEMMA IsAllowedStep ==
  ASSUME ThrottleAssumption, ThrottleInv, NEW h \in Holders, NEW k \in Keys, NEW refused,
         IsAllowed(h, k, refused), now' = now, concurrent' = concurrent,
         \A target \in {"open", refused} :
           stage' = [stage EXCEPT ![h] = target] => MoveOf(h, target)
  PROVE  ThrottleInv'
<1> DEFINE lim == Entry(k, table[k])
<1>1. /\ ThrottleType /\ (\A j \in Keys : KeyInv(j)) /\ now \in Nat /\ TableType /\ GateType /\ GateInv
  BY TypeParts DEF ThrottleInv
<1>2. PICK target \in {"open", refused} : stage' = [stage EXCEPT ![h] = target]
  BY DEF IsAllowed
<1>3. MoveOf(h, target)  BY <1>2
<1>4. GateType' /\ GateInv'  BY <1>1, <1>3, MoveGate
<1>5. CASE UNCHANGED <<table, guards, observed>>
  BY <1>4, <1>5, GateOnly DEF observed
<1>6. CASE UseOf(h, k)
  <2>1. TableType' /\ \A j \in Keys : KeyInv(j)'  BY <1>1, <1>6, UseKeeps DEF TableType
  <2> QED BY <1>1, <1>4, <2>1 DEF ThrottleInv, ThrottleType, GateType, TableType
<1>7. UNCHANGED <<table, guards, observed>> \/ UseOf(h, k)
  BY DEF IsAllowed, UseOf
<1> QED BY <1>5, <1>6, <1>7

\* Each step keeps the invariant.
LEMMA ThrottleStep ==
  ASSUME ThrottleAssumption, ThrottleInv, [Next]_vars
  PROVE  ThrottleInv'
<1>0. /\ ThrottleType /\ (\A j \in Keys : KeyInv(j)) /\ now \in Nat /\ TableType /\ GateType /\ GateInv
  BY TypeParts DEF ThrottleInv
<1>1. ASSUME NEW l \in Listeners, NEW s \in Sessions, Accept(l, s)  PROVE ThrottleInv'
  <2>1. GateType' /\ GateInv'  BY <1>0, <1>1, AcceptGate
  <2> QED BY <1>1, <2>1, GateOnly DEF Accept, observed
<1>2. ASSUME NEW l \in Listeners, NEW k \in SessionKeys, Connect(l, k)  PROVE ThrottleInv'
  <2> DEFINE s == at[l]
  <2>1. /\ s \in Sessions /\ s \in Holders /\ s # None /\ stage[s] = "entered" /\ k \in Keys
        /\ IsAllowed(s, k, "dropping") /\ now' = now /\ concurrent' = concurrent
        /\ at' = [at EXCEPT ![l] = IF stage'[at[l]] = "open" THEN None ELSE @]
    BY <1>0, <1>2 DEF Connect, GateType, Holders, Keys
  <2>2. \A m \in Listeners \ {l} : at[m] # s  BY <1>0, <2>1 DEF GateInv
  <2>3. ASSUME NEW target \in {"open", "dropping"}, stage' = [stage EXCEPT ![s] = target]
        PROVE  MoveOf(s, target)
    <3>1. stage'[s] = target  BY <1>0, <2>1, <2>3 DEF GateType
    <3>2. CASE target = "open"
      <4>1. at' = [m \in Listeners |-> IF at[m] = s THEN None ELSE at[m]]
        BY <1>0, <2>1, <2>2, <3>1, <3>2 DEF GateType
      <4> QED BY <2>1, <2>3, <3>2, <4>1 DEF MoveOf
    <3>3. CASE target = "dropping"
      <4>1. at' = at  BY <1>0, <2>1, <3>1, <3>3 DEF GateType
      <4> QED BY <2>1, <2>3, <3>3, <4>1 DEF MoveOf
    <3> QED BY <3>2, <3>3
  <2> QED BY <2>1, <2>3, IsAllowedStep
<1>3. ASSUME NEW s \in Sessions, Enter(s) \/ End(s) \/ ReleaseGlobal(s)  PROVE ThrottleInv'
  <2>1. s \in Holders  BY DEF Holders
  <2>2. CASE Enter(s)
    <3>1. GateType' /\ GateInv'  BY <1>0, <2>2, EnterGate
    <3> QED BY <2>2, <3>1, GateOnly DEF Enter, observed
  <2>3. CASE End(s)
    <3>1. MoveOf(s, "dropping")  BY <2>3 DEF End, MoveOf
    <3>2. GateType' /\ GateInv'  BY <1>0, <2>1, <3>1, MoveGate
    <3> QED BY <2>3, <3>2, GateOnly DEF End, observed
  <2>4. CASE ReleaseGlobal(s)
    <3>1. GateType' /\ GateInv'  BY <1>0, <2>4, ReleaseGate
    <3> QED BY <2>4, <3>1, GateOnly DEF ReleaseGlobal, observed
  <2> QED BY <1>3, <2>2, <2>3, <2>4
<1>4. ASSUME NEW s \in Sessions, NEW k \in SessionKeys, Mail(s, k)  PROVE ThrottleInv'
  <2>1. /\ s \in Holders /\ k \in Keys /\ stage[s] = "open" /\ IsAllowed(s, k, "open")
        /\ now' = now /\ at' = at /\ concurrent' = concurrent
    BY <1>4 DEF Mail, Holders, Keys
  <2>2. \A target \in {"open", "open"} :
           stage' = [stage EXCEPT ![s] = target] => MoveOf(s, target)
    BY <2>1 DEF MoveOf
  <2> QED BY <2>1, <2>2, IsAllowedStep
<1>5. ASSUME NEW a \in Attempts, NEW k \in QueueKeys, Attempt(a, k)  PROVE ThrottleInv'
  <2>1. /\ a \in Holders /\ k \in Keys /\ IsAllowed(a, k, "released")
        /\ now' = now /\ at' = at /\ concurrent' = concurrent
    BY <1>5 DEF Attempt, Holders, Keys
  <2>2. \A target \in {"open", "released"} :
           stage' = [stage EXCEPT ![a] = target] => MoveOf(a, target)
    BY <2>1 DEF MoveOf, Stages
  <2> QED BY <2>1, <2>2, IsAllowedStep
<1>6. ASSUME NEW a \in Attempts, EndAttempt(a)  PROVE ThrottleInv'
  <2>1. a \in Holders /\ MoveOf(a, "released")  BY <1>6 DEF EndAttempt, MoveOf, Stages, Holders
  <2>2. GateType' /\ GateInv'  BY <1>0, <2>1, MoveGate
  <2> QED BY <1>6, <2>2, GateOnly DEF EndAttempt, observed
<1>7. ASSUME NEW h \in Holders, NEW k \in Keys, ReleaseKey(h, k)  PROVE ThrottleInv'
  <2>1. ReleaseOf(h, k) /\ UNCHANGED <<at, stage, concurrent>>  BY <1>7 DEF ReleaseKey, ReleaseOf
  <2>2. TableType' /\ \A j \in Keys : KeyInv(j)'
    BY <1>0, <2>1, ReleaseKeeps DEF TableType, ReleaseOf
  <2>3. GateType' /\ GateInv'  BY <1>0, <2>1 DEF GateType, GateInv, Holding, Passing
  <2> QED BY <1>0, <2>1, <2>2, <2>3
      DEF ReleaseOf, ThrottleInv, ThrottleType, GateType, TableType
<1>8. ASSUME NEW h \in Holders, Gone(h)  PROVE ThrottleInv'
  <2>1. /\ stage[h] = "released" /\ stage' = [stage EXCEPT ![h] = "none"] /\ concurrent' = concurrent
        /\ at' = [l \in Listeners |-> IF at[l] = h THEN None ELSE at[l]]
    BY <1>8 DEF Gone
  <2>2. MoveOf(h, "none")
    <3>1. CASE h \in Sessions  BY <2>1, <3>1 DEF MoveOf
    <3>2. CASE h \in Attempts
      <4>1. \A l \in Listeners : at[l] # h \/ at[l] = None
        BY <1>0, <3>2 DEF GateType, ThrottleAssumption
      <4>2. at' = at  BY <1>0, <2>1, <4>1 DEF GateType
      <4> QED BY <2>1, <3>2, <4>2 DEF MoveOf, Stages
    <3> QED BY <3>1, <3>2 DEF Holders
  <2>3. GateType' /\ GateInv'  BY <1>0, <2>2, MoveGate
  <2> QED BY <1>8, <2>3, GateOnly DEF Gone, observed
<1>9. ASSUME NEW k \in Keys, Cleanup(k)  PROVE ThrottleInv'
  <2>1. UNCHANGED <<now, at, stage, concurrent, guards, shadow, promised>>
    BY <1>9 DEF Cleanup, observed
  <2>2. TableType' /\ \A j \in Keys : KeyInv(j)'
    BY <1>0, <1>9, <2>1, CleanupKeeps DEF TableType
  <2>3. GateType' /\ GateInv'  BY <1>0, <2>1 DEF GateType, GateInv, Holding, Passing
  <2> QED BY <1>0, <2>1, <2>2, <2>3 DEF ThrottleInv, ThrottleType, GateType, TableType
<1>10. CASE Tick
  <2>1. /\ now' = now + 1 /\ now' \in Nat /\ now <= now'
        /\ UNCHANGED <<at, stage, concurrent, table, guards, shadow, promised>>
    BY <1>0, <1>10 DEF Tick, observed
  <2>2. /\ \A k \in Keys : KeyInv(k)'
        /\ \A k \in Keys : \A lim \in table'[k] \cup shadow'[k] : lim.last <= now'
    BY <1>0, <2>1, IdleKeys
  <2>3. GateInv'  BY <1>0, <2>1 DEF GateInv, Holding, Passing
  <2> QED BY <1>0, <2>1, <2>2, <2>3 DEF ThrottleInv, ThrottleType
<1>11. CASE UNCHANGED vars
  <2>1. UNCHANGED <<now, at, stage, concurrent, table, guards, shadow, promised>>
    BY <1>11 DEF vars, observed
  <2>2. GateType' /\ GateInv'  BY <1>0, <2>1 DEF GateType, GateInv, Holding, Passing
  <2> QED BY <2>1, <2>2, GateOnly
<1> QED BY <1>1, <1>2, <1>3, <1>4, <1>5, <1>6, <1>7, <1>8, <1>9, <1>10, <1>11 DEF Next

\* The server starts without sessions and limiters.
LEMMA ThrottleInit ==
  ASSUME ThrottleAssumption, Init
  PROVE  ThrottleInv
<1>1. ThrottleType  BY DEF Init, ThrottleType, Stages
<1>2. Holding = {} /\ Passing = {}  BY DEF Init, Holding, Passing, Holders
<1>3. GateInv
  <2>1. Cardinality(Listeners) \in Nat /\ MaxConcurrent \in Nat \ {0}
    BY FS_CardinalityType DEF ThrottleAssumption
  <2>2. /\ IsFiniteSet(Holding) /\ concurrent = Cardinality(Holding)
        /\ concurrent + Cardinality(Passing) <= MaxConcurrent + Cardinality(Listeners) - 1
    BY <1>2, <2>1, FS_EmptySet DEF Init
  <2> QED BY <2>2 DEF GateInv, Init, Holders
<1>4. ASSUME NEW k \in Keys  PROVE KeyInv(k)
  <2>1. Held(k) = {}
    <3>1. Held(k) = Numbered(guards, k)  BY <1>1, HeldIsNumbered DEF Held, ThrottleType
    <3>2. \A h \in Holders : guards[h][k] = 0  BY DEF Init
    <3> QED BY <3>1, <3>2 DEF Numbered
  <2>2. table[k] = {} /\ shadow[k] = {} /\ promised[k] = {}  BY DEF Init
  <2> QED BY <2>1, <2>2, FS_EmptySet DEF KeyInv
<1> QED BY <1>1, <1>3, <1>4 DEF ThrottleInv

\* The inductive invariant holds in every state.
THEOREM ThrottleReachable == Spec => []ThrottleInv
<1>1. Init => ThrottleInv  BY ThrottleAssumption, ThrottleInit
<1>2. ThrottleInv /\ [Next]_vars => ThrottleInv'  BY ThrottleAssumption, ThrottleStep
<1> QED BY <1>1, <1>2, PTL DEF Spec

\* Guards never leak and are never dropped twice: in every state the global counter
\* is the number of sessions that hold it, and a limiter in a table counts exactly
\* the InFlight guards for its key.
THEOREM CountersAreGuards == Spec => []GuardsExact
<1>1. ThrottleInv => GuardsExact  BY DEF ThrottleInv, GateInv, KeyInv, GuardsExact
<1> QED BY <1>1, ThrottleReachable, PTL

\* The race of the listeners costs at most one connection for each listener but the
\* first; the limit of a key is never exceeded (ConcurrencyLimiter::is_allowed).
THEOREM LimitsHold == Spec => []Bounded
<1>1. ThrottleInv => Bounded
  <2> SUFFICES ASSUME ThrottleInv PROVE Bounded  OBVIOUS
  <2>1. GateInv /\ \A k \in Keys : KeyInv(k)  BY DEF ThrottleInv
  <2>2. concurrent <= MaxConcurrent + Cardinality(Listeners) - 1
    BY <2>1, ThrottleAssumption, GateCounts DEF GateInv
  <2> QED BY <2>1, <2>2 DEF KeyInv, Bounded
<1> QED BY <1>1, ThrottleReachable, PTL

\* Cleanup takes away no limiter that would have refused a request: one it removed
\* has no guards and its tokens are full again (Core::cleanup).
THEOREM CleanupIsInvisible == Spec => []CleanupInvisible
<1>1. ASSUME ThrottleInv, NEW k \in Keys  PROVE Admits(k, table[k]) <=> Admits(k, shadow[k])
  <2>1. CASE shadow[k] = table[k]  BY <2>1
  <2>2. CASE /\ table[k] = {}
             /\ \A lim \in shadow[k] : lim.concurrent = 0 /\ now - lim.last >= Interval(k)
    <3>1. ASSUME NEW lim \in shadow[k]  PROVE ~Busy(lim) /\ RateAllows(k, lim)
      <4>1. lim \in Limiter /\ lim.last <= now /\ now \in Nat /\ KeyConcurrent \in Nat \ {0}
        BY <1>1, ThrottleAssumption DEF ThrottleInv, ThrottleType
      <4>2. RateAllows(k, lim)  BY <2>2, <4>1, ThrottleAssumption, AccruedType
      <4> QED BY <2>2, <4>1, <4>2 DEF Busy
    <3> QED BY <2>2, <3>1 DEF Admits
  <2> QED BY <1>1, <2>1, <2>2 DEF ThrottleInv, KeyInv
<1>2. ThrottleInv => CleanupInvisible  BY <1>1 DEF CleanupInvisible
<1> QED BY <1>2, ThrottleReachable, PTL

\* The time that a refused delivery is put off to is never too early: at retry_at
\* the limiter has the tokens for a request again.
THEOREM RetryIsEnough == Spec => []RetrySuffices
<1>1. ASSUME ThrottleInv, NEW k \in QueueKeys, NEW t \in promised[k], now >= t,
             NEW lim \in table[k]
      PROVE  RateAllows(k, lim)
  <2>1. k \in Keys  BY DEF Keys
  <2>2. lim \in Limiter /\ lim.last <= now /\ now \in Nat /\ t \in Nat
    BY <1>1, <2>1 DEF ThrottleInv, ThrottleType
  <2>3. t >= lim.last + Interval(k)  BY <1>1, <2>1 DEF ThrottleInv, KeyInv
  <2>4. now - lim.last >= Interval(k)
    BY <1>1, <2>1, <2>2, <2>3, ThrottleAssumption, IntervalType DEF Limiter
  <2> QED BY <2>1, <2>2, <2>4, ThrottleAssumption, AccruedType
<1>2. ThrottleInv => RetrySuffices  BY <1>1 DEF RetrySuffices
<1> QED BY <1>2, ThrottleReachable, PTL

-----------------------------------------------------------------------------
(* The inductive invariant of the quotas                                   *)

QuotaSteps == {"none", "reserving", "queued", "loading", "dropped"}

\* A limiter in the table has a limit: settings without one are refused.
QuotaLimiters ==
  {l \in [max_messages : Nat, max_size : Nat, messages : Nat, size : Nat] :
     l.max_messages > 0 \/ l.max_size > 0}

AllReservations == UNION {Reservations(m) : m \in Messages}

AllParts == UNION {PartsOf(m) : m \in Messages}

QuotaType ==
  /\ step \in [Messages -> QuotaSteps] /\ size \in [Messages -> Nat \ {0}]
  /\ asked \in [Messages -> SUBSET AllReservations] /\ finished \in [Messages -> SUBSET AllParts]
  /\ refs \in [Messages -> SUBSET AllReservations] /\ dropping \in [Messages -> SUBSET AllReservations]
  /\ quota \in [QuotaKeys -> SUBSET QuotaLimiters] /\ leaked \in [QuotaKeys -> Nat]
  /\ \A k \in QuotaKeys : \A l, o \in quota[k] : l = o
  /\ late \in [Messages -> SUBSET AllParts] /\ restarts \in Nat

\* Whatever a message holds it holds once: the references it keeps and those that
\* are being dropped are distinct, and what it is asked for next is neither.
MessageInv(m) ==
  /\ refs[m] \cup dropping[m] \subseteq Reservations(m) /\ refs[m] \cap dropping[m] = {}
  /\ step[m] \in {"reserving", "loading"} => dropping[m] = {} /\ refs[m] \subseteq asked[m]
  /\ step[m] \in {"none", "dropped"} => refs[m] = {}
  /\ step[m] \in {"none", "reserving"} => finished[m] = {}
  /\ step[m] = "loading" => finished[m] \subseteq late[m]

\* A counter is exact and within its limits.  One that is missing is not used, and
\* no refusal is counted where there is no limit on messages.
CountInv(k) ==
  /\ IsFiniteSet(Users(k)) /\ IsFiniteSet(Bytes(k))
  /\ quota[k] = {} => Users(k) = {} /\ leaked[k] = 0
  /\ \A l \in quota[k] :
       /\ l.messages = IF l.max_messages > 0 THEN Cardinality(Users(k)) + leaked[k] ELSE 0
       /\ l.size = IF l.max_size > 0 THEN Cardinality(Bytes(k)) ELSE 0
       /\ l.messages <= l.max_messages
       /\ l.max_size > 0 => l.size < l.max_size
       /\ l.max_messages = 0 => leaked[k] = 0

QuotaInv ==
  /\ QuotaType
  /\ \A m \in Messages : MessageInv(m)
  /\ \A k \in QuotaKeys : CountInv(k)
  /\ QuotaReleased

-----------------------------------------------------------------------------
(* Users and bytes                                                         *)

\* The users of a key, given the references that messages keep and drop.
UsersOf(rf, dp, k) ==
  {u \in Messages \X AllReservations : u[2] \in rf[u[1]] \cup dp[u[1]] /\ quota_key(u[2]) = k}

\* The bytes of some users.
BytesOf(U, sz) == UNION {{u} \X (1..sz[u[1]]) : u \in U}

\* The users of a key, as a subset of all there could be.
LEMMA UsersAre ==
  ASSUME NEW rf \in [Messages -> SUBSET AllReservations],
         NEW dp \in [Messages -> SUBSET AllReservations], NEW k
  PROVE  {u \in Messages \X UNION {rf[m] \cup dp[m] : m \in Messages} :
            u[2] \in rf[u[1]] \cup dp[u[1]] /\ quota_key(u[2]) = k} = UsersOf(rf, dp, k)
<1> DEFINE all == UNION {rf[m] \cup dp[m] : m \in Messages}
<1>1. all \subseteq AllReservations  OBVIOUS
<1>2. \A m \in Messages : rf[m] \cup dp[m] \subseteq all  OBVIOUS
<1> HIDE DEF all
<1> QED BY <1>1, <1>2 DEF UsersOf

\* One more user, with its bytes.
LEMMA BytesAdd ==
  ASSUME NEW U, U \subseteq Messages \X AllReservations, NEW sz \in [Messages -> Nat \ {0}],
         IsFiniteSet(BytesOf(U, sz)), NEW u \in Messages \X AllReservations, u \notin U
  PROVE  /\ IsFiniteSet(BytesOf(U \cup {u}, sz))
         /\ Cardinality(BytesOf(U \cup {u}, sz)) = Cardinality(BytesOf(U, sz)) + sz[u[1]]
<1> DEFINE n == sz[u[1]]
           more == {u} \X (1..n)
           before == BytesOf(U, sz)
<1>1. n \in Nat \ {0}  OBVIOUS
<1>2. BytesOf(U \cup {u}, sz) = before \cup more  BY DEF BytesOf
<1>3. before \cap more = {}
  <2> SUFFICES ASSUME NEW b \in before, b \in more  PROVE FALSE  OBVIOUS
  <2>1. PICK v \in U : b \in {v} \X (1..sz[v[1]])  BY DEF BytesOf
  <2>2. b[1] = v /\ b[1] = u  BY <2>1
  <2> QED BY <2>1, <2>2
<1>4. IsFiniteSet(more) /\ Cardinality(more) = n
  <2> HIDE DEF n
  <2>1. IsFiniteSet(1..n) /\ Cardinality(1..n) = n  BY <1>1, FS_Interval
  <2>2. IsFiniteSet({u}) /\ Cardinality({u}) = 1  BY FS_Singleton
  <2>3. IsFiniteSet(more) /\ Cardinality(more) = Cardinality({u}) * Cardinality(1..n)
    BY <2>1, <2>2, FS_Product
  <2> QED BY <1>1, <2>1, <2>2, <2>3
<1> HIDE DEF more, before, n
<1>5. IsFiniteSet(before)  BY DEF before
<1>6. Cardinality(before \cap more) = 0  BY <1>3, FS_EmptySet
<1>7. /\ IsFiniteSet(before \cup more)
      /\ Cardinality(before \cup more) = Cardinality(before) + Cardinality(more) - Cardinality(before \cap more)
  BY <1>4, <1>5, FS_Union
<1>8. Cardinality(before) \in Nat  BY <1>5, FS_CardinalityType
<1>9. Cardinality(before \cup more) = Cardinality(before) + n
  BY <1>1, <1>4, <1>6, <1>7, <1>8
<1> QED BY <1>2, <1>7, <1>9 DEF before, n

\* One user less.
LEMMA BytesRemove ==
  ASSUME NEW U, U \subseteq Messages \X AllReservations, NEW sz \in [Messages -> Nat \ {0}],
         IsFiniteSet(BytesOf(U, sz)), NEW u \in U
  PROVE  /\ IsFiniteSet(BytesOf(U \ {u}, sz)) /\ Cardinality(BytesOf(U \ {u}, sz)) \in Nat
         /\ Cardinality(BytesOf(U, sz)) = Cardinality(BytesOf(U \ {u}, sz)) + sz[u[1]]
<1>1. BytesOf(U \ {u}, sz) \subseteq BytesOf(U, sz)  BY DEF BytesOf
<1>2. IsFiniteSet(BytesOf(U \ {u}, sz))  BY <1>1, FS_Subset
<1>3. (U \ {u}) \cup {u} = U /\ u \notin U \ {u} /\ u \in Messages \X AllReservations
        /\ U \ {u} \subseteq Messages \X AllReservations
  OBVIOUS
<1>4. Cardinality(BytesOf((U \ {u}) \cup {u}, sz)) = Cardinality(BytesOf(U \ {u}, sz)) + sz[u[1]]
  BY <1>2, <1>3, BytesAdd
<1>5. Cardinality(BytesOf(U \ {u}, sz)) \in Nat  BY <1>2, FS_CardinalityType
<1>6. BytesOf((U \ {u}) \cup {u}, sz) = BytesOf(U, sz)  BY <1>3
<1> QED BY <1>2, <1>4, <1>5, <1>6

-----------------------------------------------------------------------------
(* The counters                                                            *)

\* The users and their bytes, in this state and in the next.
LEMMA UsersNow ==
  ASSUME QuotaType, NEW k
  PROVE  Users(k) = UsersOf(refs, dropping, k) /\ Bytes(k) = BytesOf(Users(k), size)
<1>1. refs \in [Messages -> SUBSET AllReservations] /\ dropping \in [Messages -> SUBSET AllReservations]
  BY DEF QuotaType
<1> QED BY <1>1, UsersAre DEF Users, Bytes, BytesOf

\* The same after a step.
LEMMA UsersNext ==
  ASSUME QuotaType', NEW k
  PROVE  Users(k)' = UsersOf(refs', dropping', k) /\ Bytes(k)' = BytesOf(Users(k)', size')
<1>1. refs' \in [Messages -> SUBSET AllReservations] /\ dropping' \in [Messages -> SUBSET AllReservations]
  BY DEF QuotaType
<1> QED BY <1>1, UsersAre DEF Users, Bytes, BytesOf

\* A reservation's setting is a valid one, and its key is one of the keys.
LEMMA ReservationType ==
  ASSUME NEW m \in Messages, NEW r \in Reservations(m)
  PROVE  /\ quota_key(r) \in QuotaKeys /\ r \in AllReservations
         /\ LET item == QueueQuotaItems[r.nr]
            IN item.messages \in Nat /\ item.size \in Nat /\ (item.messages > 0 \/ item.size > 0)
<1>1. r.nr \in DOMAIN QueueQuotaItems  BY DEF Reservations
<1>2. quota_key(r) \in QuotaKeys /\ r \in AllReservations  BY DEF QuotaKeys, AllReservations
<1>3. parse_queue_quota_item(QueueQuotaItems[r.nr])  BY <1>1, QuotaAssumption
<1> QED BY <1>2, <1>3 DEF parse_queue_quota_item

\* Moving references between those a message keeps and those it drops changes no
\* counter.
LEMMA SameCount ==
  ASSUME QuotaType, QuotaType', NEW k \in QuotaKeys, CountInv(k), size' = size,
         quota'[k] = quota[k], leaked'[k] = leaked[k],
         \A m \in Messages : refs'[m] \cup dropping'[m] = refs[m] \cup dropping[m]
  PROVE  CountInv(k)'
<1>1. Users(k)' = Users(k)
  <2>1. UsersOf(refs', dropping', k) = UsersOf(refs, dropping, k)  BY DEF UsersOf
  <2> QED BY <2>1, UsersNow, UsersNext
<1>2. Bytes(k)' = Bytes(k)
  <2>1. Bytes(k) = BytesOf(Users(k), size)  BY UsersNow
  <2>2. Bytes(k)' = BytesOf(Users(k)', size')  BY UsersNext
  <2> QED BY <1>1, <2>1, <2>2
<1> QED BY <1>1, <1>2 DEF CountInv

\* Other keys do not see a reference come or go.
LEMMA OtherCount ==
  ASSUME QuotaType, QuotaType', NEW k \in QuotaKeys, CountInv(k), size' = size,
         quota'[k] = quota[k], leaked'[k] = leaked[k],
         \A m \in Messages : \A r \in AllReservations : quota_key(r) = k =>
           (r \in refs'[m] \cup dropping'[m] <=> r \in refs[m] \cup dropping[m])
  PROVE  CountInv(k)'
<1>1. Users(k)' = Users(k)
  <2>1. UsersOf(refs', dropping', k) = UsersOf(refs, dropping, k)  BY DEF UsersOf
  <2> QED BY <2>1, UsersNow, UsersNext
<1>2. Bytes(k)' = Bytes(k)
  <2>1. Bytes(k) = BytesOf(Users(k), size)  BY UsersNow
  <2>2. Bytes(k)' = BytesOf(Users(k)', size')  BY UsersNext
  <2> QED BY <1>1, <2>1, <2>2
<1> QED BY <1>1, <1>2 DEF CountInv

\* The limiter that a reservation finds, or would insert, is exact too.
LEMMA FoundLimiter ==
  ASSUME QuotaType, NEW m \in Messages, NEW r \in Reservations(m), CountInv(quota_key(r))
  PROVE  LET k == quota_key(r)
             lim == IF quota[k] = {} THEN NewQuotaLimiter(QueueQuotaItems[r.nr])
                    ELSE CHOOSE l \in quota[k] : TRUE
         IN /\ lim \in QuotaLimiters /\ (quota[k] # {} => quota[k] = {lim})
            /\ lim.messages = IF lim.max_messages > 0 THEN Cardinality(Users(k)) + leaked[k] ELSE 0
            /\ lim.size = IF lim.max_size > 0 THEN Cardinality(Bytes(k)) ELSE 0
            /\ lim.max_messages = 0 => leaked[k] = 0
<1> DEFINE k == quota_key(r)
           item == QueueQuotaItems[r.nr]
           new == NewQuotaLimiter(item)
           lim == IF quota[k] = {} THEN new ELSE CHOOSE l \in quota[k] : TRUE
<1>1. k \in QuotaKeys /\ item.messages \in Nat /\ item.size \in Nat
        /\ (item.messages > 0 \/ item.size > 0)
  BY ReservationType
<1>2. /\ new \in QuotaLimiters /\ new.messages = 0 /\ new.size = 0
      /\ new.max_messages = item.messages /\ new.max_size = item.size
  BY <1>1 DEF NewQuotaLimiter, QuotaLimiters
<1>3. CASE quota[k] = {}
  <2>1. lim = new  BY <1>3
  <2>2. Users(k) = {} /\ leaked[k] = 0  BY <1>1, <1>3 DEF CountInv
  <2>3. Bytes(k) = {}  BY <2>2 DEF Bytes
  <2>4. Cardinality(Users(k)) = 0 /\ Cardinality(Bytes(k)) = 0  BY <2>2, <2>3, FS_EmptySet
  <2>5. /\ lim \in QuotaLimiters /\ lim.messages = 0 /\ lim.size = 0
        /\ lim.max_messages \in Nat /\ lim.max_size \in Nat
    BY <1>1, <1>2, <2>1
  <2> HIDE DEF lim
  <2> QED BY <1>3, <2>2, <2>4, <2>5 DEF lim
<1>4. CASE quota[k] # {}
  <2>1. lim \in quota[k]  BY <1>4
  <2>2. quota[k] = {lim} /\ lim \in QuotaLimiters  BY <1>1, <2>1 DEF QuotaType
  <2> QED BY <1>1, <2>1, <2>2 DEF CountInv
<1> QED BY <1>3, <1>4

\* What is_allowed leaves of a limiter.
LEMMA CountedType ==
  ASSUME NEW l \in QuotaLimiters, NEW n \in Nat
  PROVE  /\ Counted(l) \in QuotaLimiters /\ Counted(l).max_messages = l.max_messages
         /\ Counted(l).max_size = l.max_size /\ Counted(l).size = l.size
         /\ Counted(l).messages = IF l.max_messages > 0 THEN l.messages + 1 ELSE l.messages
         /\ Sized(l, n) \in QuotaLimiters /\ Sized(l, n).max_messages = l.max_messages
         /\ Sized(l, n).max_size = l.max_size /\ Sized(l, n).messages = l.messages
         /\ Sized(l, n).size = IF l.max_size > 0 THEN l.size + n ELSE l.size
<1>1. l \in [max_messages : Nat, max_size : Nat, messages : Nat, size : Nat]
        /\ (l.max_messages > 0 \/ l.max_size > 0)
  BY DEF QuotaLimiters
<1> QED BY <1>1 DEF Counted, Sized, QuotaLimiters

\* A reservation that is granted.
GrantOf(m, r) ==
  LET k == quota_key(r)
      lim == IF quota[k] = {} THEN NewQuotaLimiter(QueueQuotaItems[r.nr])
             ELSE CHOOSE l \in quota[k] : TRUE
  IN /\ CountAllowed(lim) /\ SizeAllowed(Counted(lim), size[m])
     /\ asked' = [asked EXCEPT ![m] = @ \cup {r}]
     /\ refs' = [refs EXCEPT ![m] = @ \cup {r}]
     /\ quota' = [quota EXCEPT ![k] = {Sized(Counted(lim), size[m])}]
     /\ UNCHANGED <<step, dropping, leaked, size, finished, late, restarts>>

\* A reservation that is granted keeps the invariant.
LEMMA GrantKeeps ==
  ASSUME QuotaInv, NEW m \in Messages, NEW r \in Reservations(m) \ asked[m], MayReserve(m),
         GrantOf(m, r)
  PROVE  QuotaInv'
<1> DEFINE k == quota_key(r)
           lim == IF quota[k] = {} THEN NewQuotaLimiter(QueueQuotaItems[r.nr])
                  ELSE CHOOSE l \in quota[k] : TRUE
           n == size[m]
           new == Sized(Counted(lim), n)
           u == <<m, r>>
<1>1. /\ QuotaType /\ (\A j \in QuotaKeys : CountInv(j)) /\ (\A o \in Messages : MessageInv(o))
      /\ QuotaReleased
  BY DEF QuotaInv
<1>2. k \in QuotaKeys /\ r \in AllReservations /\ n \in Nat \ {0}
  BY <1>1, ReservationType DEF QuotaType
<1>3. /\ lim \in QuotaLimiters
      /\ lim.messages = IF lim.max_messages > 0 THEN Cardinality(Users(k)) + leaked[k] ELSE 0
      /\ lim.size = IF lim.max_size > 0 THEN Cardinality(Bytes(k)) ELSE 0
      /\ lim.max_messages = 0 => leaked[k] = 0
  BY <1>1, <1>2, FoundLimiter
<1>4. /\ CountAllowed(lim) /\ SizeAllowed(Counted(lim), n)
      /\ asked' = [asked EXCEPT ![m] = @ \cup {r}] /\ refs' = [refs EXCEPT ![m] = @ \cup {r}]
      /\ quota' = [quota EXCEPT ![k] = {new}]
      /\ UNCHANGED <<step, dropping, leaked, size, finished, late, restarts>>
  BY DEF GrantOf
<1> HIDE DEF k, lim, n
<1>4a. /\ lim.messages \in Nat /\ lim.size \in Nat /\ lim.max_messages \in Nat /\ lim.max_size \in Nat
      /\ n \in Nat
  BY <1>2, <1>3 DEF QuotaLimiters
<1>4b. /\ Counted(lim) \in QuotaLimiters /\ Counted(lim).max_messages = lim.max_messages
      /\ Counted(lim).max_size = lim.max_size /\ Counted(lim).size = lim.size
      /\ Counted(lim).messages = IF lim.max_messages > 0 THEN lim.messages + 1 ELSE lim.messages
  BY <1>3, <1>4a, CountedType
<1>5. /\ new \in QuotaLimiters /\ new.max_messages = lim.max_messages /\ new.max_size = lim.max_size
      /\ new.messages = (IF lim.max_messages > 0 THEN lim.messages + 1 ELSE lim.messages)
      /\ new.size = (IF lim.max_size > 0 THEN lim.size + n ELSE lim.size)
      /\ new.messages <= new.max_messages /\ (new.max_size > 0 => new.size < new.max_size)
  <2>1. /\ new \in QuotaLimiters /\ new.max_messages = Counted(lim).max_messages
        /\ new.max_size = Counted(lim).max_size /\ new.messages = Counted(lim).messages
        /\ new.size = IF Counted(lim).max_size > 0 THEN Counted(lim).size + n ELSE Counted(lim).size
    BY <1>4a, <1>4b, CountedType
  <2> HIDE DEF new
  <2> QED BY <1>3, <1>4, <1>4a, <1>4b, <2>1 DEF CountAllowed, SizeAllowed
<1> HIDE DEF new
<1>6. step[m] \in {"reserving", "loading"}  BY DEF MayReserve
<1>7. dropping[m] = {} /\ r \notin refs[m] /\ refs[m] \subseteq asked[m]
  BY <1>1, <1>6 DEF MessageInv
<1>8. QuotaType'
  BY <1>1, <1>2, <1>4, <1>5 DEF QuotaType
<1>9. \A o \in Messages \ {m} : refs'[o] = refs[o] /\ asked'[o] = asked[o]
  BY <1>1, <1>4 DEF QuotaType
<1>10. refs'[m] = refs[m] \cup {r} /\ asked'[m] = asked[m] \cup {r}
  BY <1>1, <1>4 DEF QuotaType
<1>11. ASSUME NEW o \in Messages  PROVE MessageInv(o)'
  <2>1. MessageInv(o)  BY <1>1
  <2>2. CASE o = m  BY <1>4, <1>6, <1>7, <1>10, <2>1, <2>2 DEF MessageInv
  <2>3. CASE o # m  BY <1>4, <1>9, <2>1, <2>3 DEF MessageInv
  <2> QED BY <2>2, <2>3
<1>12. QuotaReleased'
  BY <1>1, <1>4, <1>6, <1>9 DEF QuotaReleased
<1>13. ASSUME NEW j \in QuotaKeys \ {k}  PROVE CountInv(j)'
  <2>1. quota'[j] = quota[j]  BY <1>1, <1>4 DEF QuotaType
  <2>2. \A o \in Messages : \A x \in AllReservations : quota_key(x) = j =>
           (x \in refs'[o] \cup dropping'[o] <=> x \in refs[o] \cup dropping[o])
    BY <1>4, <1>9, <1>10 DEF k
  <2> QED BY <1>1, <1>4, <1>8, <2>1, <2>2, OtherCount
<1>14. CountInv(k)'
  <2>1. Users(k)' = Users(k) \cup {u} /\ u \notin Users(k)
    <3>1. UsersOf(refs', dropping', k) = UsersOf(refs, dropping, k) \cup {u}
            /\ u \notin UsersOf(refs, dropping, k)
      BY <1>2, <1>4, <1>7, <1>9, <1>10 DEF UsersOf, k
    <3> QED BY <1>1, <1>8, <3>1, UsersNow, UsersNext
  <2>2. CountInv(k)  BY <1>1, <1>2
  <2>3. IsFiniteSet(Users(k)') /\ Cardinality(Users(k)') = Cardinality(Users(k)) + 1
          /\ Cardinality(Users(k)) \in Nat
    <3>1. IsFiniteSet(Users(k))  BY <2>2 DEF CountInv
    <3> HIDE DEF u
    <3> QED BY <2>1, <3>1, FS_AddElement, FS_CardinalityType
  <2>4. IsFiniteSet(Bytes(k)') /\ Cardinality(Bytes(k)') = Cardinality(Bytes(k)) + n
          /\ Cardinality(Bytes(k)) \in Nat
    <3>1. Bytes(k) = BytesOf(Users(k), size) /\ IsFiniteSet(Bytes(k))
      BY <1>1, <2>2, UsersNow DEF CountInv
    <3>2. Bytes(k)' = BytesOf(Users(k)', size)  BY <1>4, <1>8, UsersNext
    <3>3. Users(k) \subseteq Messages \X AllReservations  BY <1>1, UsersNow DEF UsersOf
    <3>4. u \in Messages \X AllReservations /\ size[u[1]] = n  BY <1>2 DEF n
    <3>5. size \in [Messages -> Nat \ {0}]  BY <1>1 DEF QuotaType
    <3> HIDE DEF u
    <3>6. /\ IsFiniteSet(BytesOf(Users(k) \cup {u}, size))
          /\ Cardinality(BytesOf(Users(k) \cup {u}, size)) = Cardinality(BytesOf(Users(k), size)) + size[u[1]]
      BY <2>1, <3>1, <3>3, <3>4, <3>5, BytesAdd
    <3> QED BY <2>1, <3>1, <3>2, <3>4, <3>6, FS_CardinalityType
  <2>5. quota'[k] = {new} /\ leaked'[k] = leaked[k] /\ leaked[k] \in Nat
    BY <1>1, <1>2, <1>4 DEF QuotaType
  <2> QED BY <1>3, <1>4a, <1>5, <2>3, <2>4, <2>5 DEF CountInv
<1> QED BY <1>8, <1>11, <1>12, <1>13, <1>14 DEF QuotaInv

\* A reservation that is refused, and where the message goes then.
RefusalOf(m, r, next) ==
  LET k == quota_key(r)
      lim == IF quota[k] = {} THEN NewQuotaLimiter(QueueQuotaItems[r.nr])
             ELSE CHOOSE l \in quota[k] : TRUE
      overcounted == CountAllowed(lim) /\ lim.max_messages > 0
  IN /\ asked' = [asked EXCEPT ![m] = {}]
     /\ step' = [step EXCEPT ![m] = next]
     /\ dropping' = [dropping EXCEPT ![m] = refs[m]]
     /\ refs' = [refs EXCEPT ![m] = {}]
     /\ quota' = [quota EXCEPT ![k] = {IF overcounted THEN Counted(l) ELSE l : l \in @}]
     /\ leaked' = [leaked EXCEPT ![k] = IF overcounted /\ quota[k] # {} THEN @ + 1 ELSE @]
     /\ UNCHANGED <<size, finished, late, restarts>>

\* A reservation that is refused keeps the invariant.
LEMMA RefusalKeeps ==
  ASSUME QuotaInv, NEW m \in Messages, NEW r \in Reservations(m), MayReserve(m),
         RefusalOf(m, r, AfterQuota(m, FALSE))
  PROVE  QuotaInv'
<1> DEFINE k == quota_key(r)
           lim == IF quota[k] = {} THEN NewQuotaLimiter(QueueQuotaItems[r.nr])
                  ELSE CHOOSE l \in quota[k] : TRUE
           over == CountAllowed(lim) /\ lim.max_messages > 0
           next == AfterQuota(m, FALSE)
<1>1. /\ QuotaType /\ (\A j \in QuotaKeys : CountInv(j)) /\ (\A o \in Messages : MessageInv(o))
      /\ QuotaReleased
  BY DEF QuotaInv
<1>2. k \in QuotaKeys /\ leaked[k] \in Nat
  BY <1>1, ReservationType DEF QuotaType
<1>3. /\ lim \in QuotaLimiters /\ (quota[k] # {} => quota[k] = {lim})
      /\ lim.messages = IF lim.max_messages > 0 THEN Cardinality(Users(k)) + leaked[k] ELSE 0
      /\ lim.size = IF lim.max_size > 0 THEN Cardinality(Bytes(k)) ELSE 0
      /\ lim.max_messages = 0 => leaked[k] = 0
  BY <1>1, <1>2, FoundLimiter
<1>4. /\ asked' = [asked EXCEPT ![m] = {}] /\ step' = [step EXCEPT ![m] = next]
      /\ dropping' = [dropping EXCEPT ![m] = refs[m]] /\ refs' = [refs EXCEPT ![m] = {}]
      /\ quota' = [quota EXCEPT ![k] = {IF over THEN Counted(l) ELSE l : l \in @}]
      /\ leaked' = [leaked EXCEPT ![k] = IF over /\ quota[k] # {} THEN @ + 1 ELSE @]
      /\ UNCHANGED <<size, finished, late, restarts>>
  BY DEF RefusalOf
<1>5. step[m] \in {"reserving", "loading"} /\ dropping[m] = {}
  BY <1>1 DEF MayReserve, MessageInv
<1>6. next = (IF step[m] = "loading" THEN "queued" ELSE "none")  BY DEF AfterQuota
<1> DEFINE new == IF over THEN Counted(lim) ELSE lim
<1> HIDE DEF k, lim, next
<1>7. /\ new \in QuotaLimiters /\ new.max_messages = lim.max_messages /\ new.max_size = lim.max_size
      /\ new.size = lim.size /\ new.messages = IF over THEN lim.messages + 1 ELSE lim.messages
  BY <1>3, CountedType
<1>8. quota' = [quota EXCEPT ![k] = IF quota[k] = {} THEN {} ELSE {new}]
  <2>1. {IF over THEN Counted(l) ELSE l : l \in quota[k]} = IF quota[k] = {} THEN {} ELSE {new}
    <3>1. CASE quota[k] = {}  BY <3>1
    <3>2. CASE quota[k] # {}  BY <1>3, <3>2
    <3> QED BY <3>1, <3>2
  <2>2. quota' = [quota EXCEPT ![k] = {IF over THEN Counted(l) ELSE l : l \in quota[k]}]
    BY <1>4
  <2> QED BY <2>1, <2>2
<1> HIDE DEF new
<1>9. QuotaType'
  <2>1. quota' \in [QuotaKeys -> SUBSET QuotaLimiters] /\ \A j \in QuotaKeys : \A l, o \in quota'[j] : l = o
    <3> DEFINE left == IF quota[k] = {} THEN {} ELSE {new}
    <3>1. left \subseteq QuotaLimiters /\ (\A l, o \in left : l = o)  BY <1>7
    <3>2. quota' = [quota EXCEPT ![k] = left]  BY <1>8
    <3> HIDE DEF left
    <3> QED BY <1>1, <3>1, <3>2 DEF QuotaType
  <2>2. leaked' \in [QuotaKeys -> Nat]
    <3> DEFINE more == IF over /\ quota[k] # {} THEN leaked[k] + 1 ELSE leaked[k]
    <3>1. more \in Nat  BY <1>2
    <3>2. leaked' = [leaked EXCEPT ![k] = more]  BY <1>4
    <3> HIDE DEF more
    <3> QED BY <1>1, <3>1, <3>2 DEF QuotaType
  <2>3. step' \in [Messages -> QuotaSteps]  BY <1>1, <1>4, <1>6 DEF QuotaType, QuotaSteps
  <2>4. /\ asked' \in [Messages -> SUBSET AllReservations] /\ refs' \in [Messages -> SUBSET AllReservations]
        /\ dropping' \in [Messages -> SUBSET AllReservations]
    BY <1>1, <1>4 DEF QuotaType
  <2> QED BY <1>1, <1>4, <2>1, <2>2, <2>3, <2>4 DEF QuotaType
<1>10. /\ step'[m] = next /\ refs'[m] = {} /\ dropping'[m] = refs[m]
       /\ \A o \in Messages \ {m} : /\ refs'[o] = refs[o] /\ asked'[o] = asked[o]
                                    /\ step'[o] = step[o] /\ dropping'[o] = dropping[o]
  BY <1>1, <1>4 DEF QuotaType
<1>11. ASSUME NEW o \in Messages  PROVE MessageInv(o)'
  <2>1. MessageInv(o)  BY <1>1
  <2>2. CASE o = m  BY <1>4, <1>5, <1>6, <1>10, <2>1, <2>2 DEF MessageInv
  <2>3. CASE o # m  BY <1>4, <1>10, <2>1, <2>3 DEF MessageInv
  <2> QED BY <2>2, <2>3
<1>12. QuotaReleased'
  BY <1>1, <1>4, <1>10 DEF QuotaReleased
<1>13. \A o \in Messages : refs'[o] \cup dropping'[o] = refs[o] \cup dropping[o]
  BY <1>5, <1>10
<1>14. ASSUME NEW j \in QuotaKeys \ {k}  PROVE CountInv(j)'
  <2>1. quota'[j] = quota[j] /\ leaked'[j] = leaked[j]  BY <1>1, <1>4 DEF QuotaType
  <2> QED BY <1>1, <1>4, <1>9, <1>13, <2>1, SameCount
<1>15. CountInv(k)'
  <2>1. CASE quota[k] = {} \/ ~over
    <3>1. quota'[k] = quota[k] /\ leaked'[k] = leaked[k]
      BY <1>1, <1>2, <1>3, <1>4, <1>8, <2>1 DEF QuotaType, new
    <3> QED BY <1>1, <1>2, <1>4, <1>9, <1>13, <3>1, SameCount
  <2>2. CASE quota[k] # {} /\ over
    <3>1. quota'[k] = {new} /\ leaked'[k] = leaked[k] + 1
      BY <1>1, <1>2, <1>4, <1>8, <2>2 DEF QuotaType
    <3>2. Users(k)' = Users(k) /\ Bytes(k)' = Bytes(k)
      <4>1. UsersOf(refs', dropping', k) = UsersOf(refs, dropping, k)  BY <1>13 DEF UsersOf
      <4>2. Users(k)' = Users(k)  BY <1>1, <1>9, <4>1, UsersNow, UsersNext
      <4>3. Bytes(k) = BytesOf(Users(k), size) /\ Bytes(k)' = BytesOf(Users(k)', size')
        BY <1>1, <1>9, UsersNow, UsersNext
      <4> QED BY <1>4, <4>2, <4>3
    <3>3. /\ IsFiniteSet(Users(k)) /\ IsFiniteSet(Bytes(k)) /\ lim \in quota[k]
          /\ lim.max_size > 0 => lim.size < lim.max_size
      BY <1>1, <1>2, <1>3, <2>2 DEF CountInv
    <3>4. Cardinality(Users(k)) \in Nat  BY <3>3, FS_CardinalityType
    <3>5. lim.messages < lim.max_messages  BY <2>2 DEF CountAllowed
    <3>6. lim.messages \in Nat /\ lim.max_messages \in Nat  BY <1>3 DEF QuotaLimiters
    <3> QED BY <1>2, <1>3, <1>7, <2>2, <3>1, <3>2, <3>3, <3>4, <3>5, <3>6 DEF CountInv
  <2> QED BY <2>1, <2>2
<1> QED BY <1>9, <1>11, <1>12, <1>14, <1>15 DEF QuotaInv

\* UsedQuota::drop
LEMMA DropKeeps ==
  ASSUME QuotaInv, NEW m \in Messages, NEW ref \in dropping[m], Drop(m, ref)
  PROVE  QuotaInv'
<1> DEFINE k == quota_key(ref)
           n == size[m]
           u == <<m, ref>>
           Less(l) == [l EXCEPT !.messages = IF l.max_messages > 0 THEN @ - 1 ELSE @,
                                !.size = IF l.max_size > 0 THEN @ - n ELSE @]
<1>1. /\ QuotaType /\ (\A j \in QuotaKeys : CountInv(j)) /\ (\A o \in Messages : MessageInv(o))
      /\ QuotaReleased
  BY DEF QuotaInv
<1>2. ref \in Reservations(m) /\ ref \notin refs[m]  BY <1>1 DEF MessageInv
<1>3. k \in QuotaKeys /\ ref \in AllReservations /\ n \in Nat \ {0} /\ leaked[k] \in Nat
  BY <1>1, <1>2, ReservationType DEF QuotaType
<1>4a. quota' = [quota EXCEPT ![k] = {Less(l) : l \in quota[k]}]  BY DEF Drop
<1>4. /\ dropping' = [dropping EXCEPT ![m] = @ \ {ref}]
      /\ UNCHANGED <<step, size, asked, refs, finished, leaked, late, restarts>>
  BY DEF Drop
<1>5. CountInv(k)  BY <1>1, <1>3
<1>6. u \in Users(k)
  <2>1. u \in UsersOf(refs, dropping, k)  BY <1>3 DEF UsersOf
  <2> QED BY <1>1, <2>1, UsersNow
<1> HIDE DEF k, n
<1>7. PICK lim \in QuotaLimiters : quota[k] = {lim}
  <2>1. quota[k] # {}  BY <1>5, <1>6 DEF CountInv
  <2> QED BY <1>1, <1>3, <2>1 DEF QuotaType
<1>8. /\ lim.messages \in Nat /\ lim.size \in Nat /\ lim.max_messages \in Nat /\ lim.max_size \in Nat
      /\ lim.messages = IF lim.max_messages > 0 THEN Cardinality(Users(k)) + leaked[k] ELSE 0
      /\ lim.size = IF lim.max_size > 0 THEN Cardinality(Bytes(k)) ELSE 0
      /\ lim.messages <= lim.max_messages
      /\ lim.max_size > 0 => lim.size < lim.max_size
      /\ lim.max_messages = 0 => leaked[k] = 0
  BY <1>5, <1>7 DEF CountInv, QuotaLimiters
<1> DEFINE rest == Users(k) \ {u}
<1>9. /\ IsFiniteSet(rest) /\ Cardinality(rest) \in Nat
      /\ Cardinality(Users(k)) = Cardinality(rest) + 1
  <2>1. IsFiniteSet(Users(k))  BY <1>5 DEF CountInv
  <2> HIDE DEF u
  <2>2. IsFiniteSet(rest) /\ Cardinality(rest) = Cardinality(Users(k)) - 1
    BY <1>6, <2>1, FS_RemoveElement
  <2> HIDE DEF rest
  <2>3. Cardinality(rest) \in Nat /\ Cardinality(Users(k)) \in Nat  BY <2>1, <2>2, FS_CardinalityType
  <2> QED BY <2>2, <2>3
<1>10. /\ IsFiniteSet(BytesOf(rest, size)) /\ Cardinality(BytesOf(rest, size)) \in Nat
       /\ Cardinality(Bytes(k)) = Cardinality(BytesOf(rest, size)) + n
  <2>1. Bytes(k) = BytesOf(Users(k), size) /\ IsFiniteSet(Bytes(k))
    BY <1>1, <1>5, UsersNow DEF CountInv
  <2>2. Users(k) \subseteq Messages \X AllReservations  BY <1>1, UsersNow DEF UsersOf
  <2>3. size[u[1]] = n  BY DEF n
  <2>4. size \in [Messages -> Nat \ {0}]  BY <1>1 DEF QuotaType
  <2> HIDE DEF u
  <2> QED BY <1>6, <2>1, <2>2, <2>3, <2>4, BytesRemove
<1> DEFINE less == Less(lim)
<1>11. /\ less \in QuotaLimiters /\ less.max_messages = lim.max_messages /\ less.max_size = lim.max_size
       /\ less.messages = (IF lim.max_messages > 0 THEN lim.messages - 1 ELSE lim.messages)
       /\ less.size = (IF lim.max_size > 0 THEN lim.size - n ELSE lim.size)
  <2>1. lim.max_messages > 0 => lim.messages - 1 \in Nat  BY <1>3, <1>8, <1>9
  <2>2. lim.max_size > 0 => lim.size - n \in Nat  BY <1>3, <1>8, <1>10
  <2>3. lim \in [max_messages : Nat, max_size : Nat, messages : Nat, size : Nat]
          /\ (lim.max_messages > 0 \/ lim.max_size > 0)
    BY <1>7 DEF QuotaLimiters
  <2> QED BY <2>1, <2>2, <2>3 DEF QuotaLimiters
<1>12. quota' = [quota EXCEPT ![k] = {less}]
  <2>1. {Less(l) : l \in quota[k]} = {less}  BY <1>7
  <2> QED BY <1>4a, <2>1
<1> HIDE DEF less
<1>13. QuotaType'
  <2>1. quota' \in [QuotaKeys -> SUBSET QuotaLimiters] /\ \A j \in QuotaKeys : \A l, o \in quota'[j] : l = o
    <3>1. {less} \subseteq QuotaLimiters /\ \A l, o \in {less} : l = o  BY <1>11
    <3>2. quota \in [QuotaKeys -> SUBSET QuotaLimiters] /\ \A j \in QuotaKeys : \A l, o \in quota[j] : l = o
      BY <1>1 DEF QuotaType
    <3>3. quota' \in [QuotaKeys -> SUBSET QuotaLimiters]  BY <1>12, <3>1, <3>2
    <3>4. \A j \in QuotaKeys : quota'[j] = quota[j] \/ quota'[j] = {less}  BY <1>12, <3>2
    <3> QED BY <3>1, <3>2, <3>3, <3>4
  <2>2. dropping' \in [Messages -> SUBSET AllReservations]  BY <1>1, <1>4 DEF QuotaType
  <2> QED BY <1>1, <1>4, <2>1, <2>2 DEF QuotaType
<1>14. dropping'[m] = dropping[m] \ {ref} /\ \A o \in Messages \ {m} : dropping'[o] = dropping[o]
  BY <1>1, <1>4 DEF QuotaType
<1>15. ASSUME NEW o \in Messages  PROVE MessageInv(o)'
  <2>1. MessageInv(o)  BY <1>1
  <2>2. dropping'[o] \subseteq dropping[o]  BY <1>14
  <2> QED BY <1>4, <2>1, <2>2 DEF MessageInv
<1>16. QuotaReleased'  BY <1>1, <1>4 DEF QuotaReleased
<1>17. ASSUME NEW j \in QuotaKeys \ {k}  PROVE CountInv(j)'
  <2>1. quota'[j] = quota[j]  BY <1>1, <1>12 DEF QuotaType
  <2>2. \A o \in Messages : \A x \in AllReservations : quota_key(x) = j =>
           (x \in refs'[o] \cup dropping'[o] <=> x \in refs[o] \cup dropping[o])
    BY <1>4, <1>14 DEF k
  <2> QED BY <1>1, <1>4, <1>13, <2>1, <2>2, OtherCount
<1>18. CountInv(k)'
  <2>1. Users(k)' = rest
    <3>1. UsersOf(refs', dropping', k) = UsersOf(refs, dropping, k) \ {u}
      BY <1>2, <1>3, <1>4, <1>14 DEF UsersOf, k
    <3> QED BY <1>1, <1>13, <3>1, UsersNow, UsersNext
  <2>2. Bytes(k)' = BytesOf(rest, size)  BY <1>4, <1>13, <2>1, UsersNext
  <2>3. quota'[k] = {less} /\ leaked'[k] = leaked[k]  BY <1>1, <1>3, <1>4, <1>12 DEF QuotaType
  <2>4. n \in Nat \ {0} /\ leaked[k] \in Nat  BY <1>3
  <2> HIDE DEF rest
  <2> QED BY <1>8, <1>9, <1>10, <1>11, <2>1, <2>2, <2>3, <2>4 DEF CountInv
<1> QED BY <1>13, <1>15, <1>16, <1>17, <1>18 DEF QuotaInv

\* Core::cleanup: a counter that is zero has no users.
LEMMA CleanupQuotaKeeps ==
  ASSUME QuotaInv, NEW k \in QuotaKeys, CleanupQuota(k)
  PROVE  QuotaInv'
<1>1. /\ QuotaType /\ (\A j \in QuotaKeys : CountInv(j)) /\ (\A o \in Messages : MessageInv(o))
      /\ QuotaReleased
  BY DEF QuotaInv
<1>2. /\ quota' = [quota EXCEPT ![k] = {}]
      /\ UNCHANGED <<step, size, asked, refs, dropping, finished, leaked, late, restarts>>
  BY DEF CleanupQuota
<1>3. QuotaType'  BY <1>1, <1>2 DEF QuotaType
<1>4. \A o \in Messages : MessageInv(o)'  BY <1>1, <1>2 DEF MessageInv
<1>5. QuotaReleased'  BY <1>1, <1>2 DEF QuotaReleased
<1>6. ASSUME NEW j \in QuotaKeys \ {k}  PROVE CountInv(j)'
  <2>1. quota'[j] = quota[j]  BY <1>1, <1>2 DEF QuotaType
  <2> QED BY <1>1, <1>2, <1>3, <2>1, SameCount
<1>7. CountInv(k)'
  <2>1. PICK l \in quota[k] : l.messages = 0 /\ l.size = 0  BY DEF CleanupQuota, Unused
  <2>2. /\ l.max_messages \in Nat /\ l.max_size \in Nat /\ (l.max_messages > 0 \/ l.max_size > 0)
        /\ leaked[k] \in Nat
    BY <1>1, <2>1 DEF QuotaType, QuotaLimiters
  <2>3. /\ IsFiniteSet(Users(k)) /\ IsFiniteSet(Bytes(k))
        /\ l.max_messages > 0 => Cardinality(Users(k)) + leaked[k] = 0
        /\ l.max_size > 0 => Cardinality(Bytes(k)) = 0
        /\ l.max_messages = 0 => leaked[k] = 0
    BY <1>1, <2>1 DEF CountInv
  <2>4. Cardinality(Users(k)) \in Nat  BY <2>3, FS_CardinalityType
  <2>5. Bytes(k) = {} => Users(k) = {}
    <3> SUFFICES ASSUME NEW u \in Users(k)  PROVE Bytes(k) # {}  OBVIOUS
    <3>1. u \in Messages \X AllReservations  BY <1>1, UsersNow DEF UsersOf
    <3>2. size[u[1]] \in Nat \ {0}  BY <1>1, <3>1 DEF QuotaType
    <3>3. <<u, 1>> \in {u} \X (1..size[u[1]])  BY <3>2
    <3> QED BY <3>3 DEF Bytes
  <2>6. leaked[k] = 0 /\ Users(k) = {}
    <3>1. CASE l.max_messages > 0
      <4>1. Cardinality(Users(k)) = 0 /\ leaked[k] = 0  BY <2>2, <2>3, <2>4, <3>1
      <4> QED BY <2>3, <4>1, FS_EmptySet
    <3>2. CASE l.max_messages = 0
      <4>1. Cardinality(Bytes(k)) = 0 /\ leaked[k] = 0  BY <2>2, <2>3, <3>2
      <4>2. Bytes(k) = {}  BY <2>3, <4>1, FS_EmptySet
      <4> QED BY <2>5, <4>1, <4>2
    <3> QED BY <2>2, <3>1, <3>2
  <2>7. Users(k)' = Users(k) /\ Bytes(k)' = Bytes(k)  BY <1>2 DEF Users, Bytes
  <2>8. quota'[k] = {} /\ leaked'[k] = leaked[k]  BY <1>1, <1>2 DEF QuotaType
  <2> QED BY <2>3, <2>6, <2>7, <2>8 DEF CountInv
<1> QED BY <1>3, <1>4, <1>5, <1>6, <1>7 DEF QuotaInv

\* Nobody uses a counter.
LEMMA EmptyCount ==
  ASSUME NEW rf, NEW dp, NEW k, rf = [m \in Messages |-> {}], dp = [m \in Messages |-> {}]
  PROVE  UsersOf(rf, dp, k) = {}
BY DEF UsersOf

\* The process stops and the next one starts.
LEMMA QuotaRestartKeeps ==
  ASSUME QuotaInv, QuotaRestart
  PROVE  QuotaInv'
<1>1. /\ QuotaType /\ \A o \in Messages : MessageInv(o)
  BY DEF QuotaInv
<1>2. /\ restarts' = restarts + 1 /\ asked' = [m \in Messages |-> {}]
      /\ refs' = [m \in Messages |-> {}] /\ dropping' = [m \in Messages |-> {}]
      /\ quota' = [k \in QuotaKeys |-> {}] /\ leaked' = [k \in QuotaKeys |-> 0]
      /\ late' = finished /\ size' = size /\ finished' = finished
  BY DEF QuotaRestart
<1>3. /\ step' \in [Messages -> QuotaSteps]
      /\ \A m \in Messages : step'[m] \in {"none", "reserving"} => step[m] \in {"none", "reserving"}
      /\ \A m \in Messages : step'[m] \notin {"reserving", "queued"}
  <2>1. step' = [m \in Messages |-> CASE step[m] \in {"queued", "loading"} -> "loading"
                                      [] step[m] = "reserving" -> "none"
                                      [] OTHER -> step[m]]
    BY DEF QuotaRestart
  <2>2. \A m \in Messages : step[m] \in QuotaSteps  BY <1>1 DEF QuotaType
  <2>3. ASSUME NEW m \in Messages
        PROVE  \/ step[m] \in {"queued", "loading"} /\ step'[m] = "loading"
               \/ step[m] \in {"none", "reserving"} /\ step'[m] = "none"
               \/ step[m] = "dropped" /\ step'[m] = "dropped"
    BY <2>1, <2>2 DEF QuotaSteps
  <2>4. step' = [m \in Messages |-> step'[m]]  BY <2>1
  <2>5. \A m \in Messages : step'[m] \in QuotaSteps  BY <2>3 DEF QuotaSteps
  <2> QED BY <2>3, <2>4, <2>5
<1>4. QuotaType'  BY <1>1, <1>2, <1>3 DEF QuotaType
<1>5. \A m \in Messages : MessageInv(m)'
  BY <1>1, <1>2, <1>3 DEF MessageInv
<1>6. QuotaReleased'  BY <1>3 DEF QuotaReleased
<1>7. ASSUME NEW k \in QuotaKeys  PROVE CountInv(k)'
  <2>1. Users(k)' = {}  BY <1>2, <1>4, UsersNext, EmptyCount
  <2>2. Bytes(k)' = {}  BY <2>1 DEF Bytes
  <2>3. quota'[k] = {} /\ leaked'[k] = 0  BY <1>2
  <2> QED BY <2>1, <2>2, <2>3, FS_EmptySet DEF CountInv
<1> QED BY <1>4, <1>5, <1>6, <1>7 DEF QuotaInv

\* The steps of a message that leave the counters alone: it is received, queued,
\* attempted or gone, and what it holds moves at most to what it drops.
MoveRefs(m) ==
  /\ UNCHANGED <<size, quota, leaked, restarts>>
  /\ \A o \in Messages \ {m} : /\ step'[o] = step[o] /\ refs'[o] = refs[o] /\ asked'[o] = asked[o]
                               /\ dropping'[o] = dropping[o] /\ finished'[o] = finished[o]
                               /\ late'[o] = late[o]
  /\ refs'[m] \cup dropping'[m] = refs[m] \cup dropping[m]

\* A step that leaves the counters alone keeps the invariant.
LEMMA MoveRefsKeeps ==
  ASSUME QuotaInv, QuotaType', NEW m \in Messages, MoveRefs(m), MessageInv(m)',
         step'[m] = "queued" =>
           \A ref \in refs'[m] : ref.part \in finished'[m] => ref.part \in late'[m]
  PROVE  QuotaInv'
<1>1. /\ QuotaType /\ (\A j \in QuotaKeys : CountInv(j)) /\ (\A o \in Messages : MessageInv(o))
      /\ QuotaReleased
  BY DEF QuotaInv
<1>2. ASSUME NEW o \in Messages  PROVE MessageInv(o)'
  <2>1. CASE o # m  BY <1>1, <2>1 DEF MessageInv, MoveRefs
  <2> QED BY <2>1
<1>3. QuotaReleased'  BY <1>1 DEF QuotaReleased, MoveRefs
<1>4. \A o \in Messages : refs'[o] \cup dropping'[o] = refs[o] \cup dropping[o]  BY DEF MoveRefs
<1>5. ASSUME NEW k \in QuotaKeys  PROVE CountInv(k)'
  <2>1. size' = size /\ quota'[k] = quota[k] /\ leaked'[k] = leaked[k]  BY DEF MoveRefs
  <2> QED BY <1>1, <1>4, <2>1, SameCount
<1> QED BY <1>2, <1>3, <1>5 DEF QuotaInv

\* Parts that finish outside of a delivery task are noted as late.
LEMMA FinishLateKeeps ==
  ASSUME QuotaInv, NEW m \in Messages, NEW done \in SUBSET AllParts,
         finished[m] \subseteq done, FinishLate(m, done)
  PROVE  QuotaInv'
<1>1. QuotaType /\ MessageInv(m) /\ QuotaReleased  BY DEF QuotaInv
<1>2. /\ step[m] = "queued" /\ finished' = [finished EXCEPT ![m] = done]
      /\ late' = [late EXCEPT ![m] = @ \cup (done \ finished[m])]
      /\ UNCHANGED <<step, size, asked, refs, dropping, quota, leaked, restarts>>
  BY DEF FinishLate
<1>3. QuotaType'
  <2>1. finished' \in [Messages -> SUBSET AllParts] /\ late' \in [Messages -> SUBSET AllParts]
    BY <1>1, <1>2 DEF QuotaType
  <2> QED BY <1>1, <1>2, <2>1 DEF QuotaType
<1>4. /\ finished'[m] = done /\ late'[m] = late[m] \cup (done \ finished[m])
      /\ \A o \in Messages \ {m} : finished'[o] = finished[o] /\ late'[o] = late[o]
  BY <1>1, <1>2 DEF QuotaType
<1>5. MessageInv(m)'  BY <1>1, <1>2, <1>4 DEF MessageInv
<1>6. MoveRefs(m)  BY <1>2, <1>4 DEF MoveRefs
<1>7. \A ref \in refs'[m] : ref.part \in finished'[m] => ref.part \in late'[m]
  BY <1>1, <1>2, <1>4 DEF QuotaReleased
<1> QED BY <1>3, <1>5, <1>6, <1>7, MoveRefsKeeps

\* Each step keeps the invariant.
LEMMA QuotaStep ==
  ASSUME QuotaInv, [QuotaNext]_quota_vars
  PROVE  QuotaInv'
<1>0. /\ QuotaType /\ (\A o \in Messages : MessageInv(o)) /\ QuotaReleased
  BY DEF QuotaInv
<1>1. ASSUME NEW m \in Messages, Receive(m)  PROVE QuotaInv'
  <2>1. /\ step' = [step EXCEPT ![m] = "reserving"] /\ step[m] = "none" /\ dropping[m] = {}
        /\ UNCHANGED <<size, asked, refs, dropping, finished, quota, leaked, late, restarts>>
    BY <1>1 DEF Receive
  <2>2. QuotaType'  BY <1>0, <2>1 DEF QuotaType, QuotaSteps
  <2>3. step'[m] = "reserving" /\ \A o \in Messages \ {m} : step'[o] = step[o]
    BY <1>0, <2>1 DEF QuotaType
  <2>4. MessageInv(m)'  BY <1>0, <2>1, <2>3 DEF MessageInv
  <2>5. MoveRefs(m)  BY <2>1, <2>3 DEF MoveRefs
  <2> QED BY <2>2, <2>3, <2>4, <2>5, MoveRefsKeeps
<1>2. ASSUME NEW m \in Messages, Reserve(m)  PROVE QuotaInv'
  <2>1. MayReserve(m)  BY <1>2 DEF Reserve
  <2>2. PICK r \in Reservations(m) \ asked[m] : GrantOf(m, r) \/ RefusalOf(m, r, AfterQuota(m, FALSE))
    BY <1>2 DEF Reserve, GrantOf, RefusalOf
  <2>3. CASE GrantOf(m, r)  BY <2>1, <2>3, GrantKeeps
  <2>4. CASE RefusalOf(m, r, AfterQuota(m, FALSE))  BY <2>1, <2>4, RefusalKeeps
  <2> QED BY <2>2, <2>3, <2>4
<1>3. ASSUME NEW m \in Messages, Granted(m)  PROVE QuotaInv'
  <2>1. /\ step' = [step EXCEPT ![m] = AfterQuota(m, TRUE)] /\ asked' = [asked EXCEPT ![m] = {}]
        /\ UNCHANGED <<size, refs, dropping, finished, quota, leaked, late, restarts>>
        /\ step[m] \in {"reserving", "loading"} /\ AfterQuota(m, TRUE) = "queued"
    BY <1>3 DEF Granted, MayReserve, AfterQuota
  <2>2. QuotaType'  BY <1>0, <2>1 DEF QuotaType, QuotaSteps
  <2>3. step'[m] = "queued" /\ \A o \in Messages \ {m} : step'[o] = step[o] /\ asked'[o] = asked[o]
    BY <1>0, <2>1 DEF QuotaType
  <2>4. MessageInv(m)'  BY <1>0, <2>1, <2>3 DEF MessageInv
  <2>5. MoveRefs(m)  BY <2>1, <2>3 DEF MoveRefs
  <2>6. finished'[m] \subseteq late'[m]  BY <1>0, <2>1 DEF MessageInv
  <2> QED BY <2>2, <2>4, <2>5, <2>6, MoveRefsKeeps
<1>4. ASSUME NEW m \in Messages, Discard(m)  PROVE QuotaInv'
  <2>1. /\ step' = [step EXCEPT ![m] = "dropped"] /\ dropping' = [dropping EXCEPT ![m] = refs[m]]
        /\ refs' = [refs EXCEPT ![m] = {}]
        /\ UNCHANGED <<size, asked, finished, quota, leaked, late, restarts>> /\ dropping[m] = {}
    BY <1>4 DEF Discard
  <2>2. QuotaType'
    <3>1. step' \in [Messages -> QuotaSteps]  BY <1>0, <2>1 DEF QuotaType, QuotaSteps
    <3>2. refs' \in [Messages -> SUBSET AllReservations] /\ dropping' \in [Messages -> SUBSET AllReservations]
      BY <1>0, <2>1 DEF QuotaType
    <3> QED BY <1>0, <2>1, <3>1, <3>2 DEF QuotaType
  <2>3. /\ step'[m] = "dropped" /\ refs'[m] = {} /\ dropping'[m] = refs[m]
        /\ \A o \in Messages \ {m} : step'[o] = step[o] /\ refs'[o] = refs[o] /\ dropping'[o] = dropping[o]
    BY <1>0, <2>1 DEF QuotaType
  <2>4. MessageInv(m)'  BY <1>0, <2>1, <2>3 DEF MessageInv
  <2>5. MoveRefs(m)  BY <2>1, <2>3 DEF MoveRefs
  <2> QED BY <2>2, <2>3, <2>4, <2>5, MoveRefsKeeps
<1>5. ASSUME NEW m \in Messages, NEW done \in SUBSET PartsOf(m), Attempted(m, done)
      PROVE  QuotaInv'
  <2> DEFINE gone == release_quota(m, done)
  <2>1. /\ step[m] = "queued" /\ dropping[m] = {} /\ finished' = [finished EXCEPT ![m] = done]
        /\ dropping' = [dropping EXCEPT ![m] = gone] /\ refs' = [refs EXCEPT ![m] = @ \ gone]
        /\ late' = [late EXCEPT ![m] = {}] /\ UNCHANGED <<step, size, asked, quota, leaked, restarts>>
    BY <1>5 DEF Attempted
  <2>2. gone \subseteq refs[m] /\ \A ref \in refs[m] \ gone : ref.part \notin done
    BY DEF release_quota
  <2> HIDE DEF gone
  <2>3. QuotaType'
    <3>1. refs' \in [Messages -> SUBSET AllReservations] /\ dropping' \in [Messages -> SUBSET AllReservations]
      BY <1>0, <2>1, <2>2 DEF QuotaType
    <3>2. finished' \in [Messages -> SUBSET AllParts] /\ late' \in [Messages -> SUBSET AllParts]
      BY <1>0, <2>1 DEF QuotaType, AllParts
    <3> QED BY <1>0, <2>1, <3>1, <3>2 DEF QuotaType
  <2>4. /\ refs'[m] = refs[m] \ gone /\ dropping'[m] = gone /\ finished'[m] = done
        /\ \A o \in Messages \ {m} : /\ refs'[o] = refs[o] /\ dropping'[o] = dropping[o]
                                     /\ finished'[o] = finished[o] /\ late'[o] = late[o]
    BY <1>0, <2>1 DEF QuotaType
  <2>5. MessageInv(m)'  BY <1>0, <2>1, <2>2, <2>4 DEF MessageInv
  <2>6. MoveRefs(m)  BY <2>1, <2>2, <2>4 DEF MoveRefs
  <2> QED BY <2>2, <2>3, <2>4, <2>5, <2>6, MoveRefsKeeps
<1>6. ASSUME NEW m \in Messages, NEW expired \in SUBSET PartsOf(m), Requeued(m, expired)
      PROVE  QuotaInv'
  <2>1. FinishLate(m, finished[m] \cup expired)  BY <1>6 DEF Requeued
  <2>2. finished[m] \cup expired \in SUBSET AllParts  BY <1>0 DEF QuotaType, AllParts
  <2> QED BY <2>1, <2>2, FinishLateKeeps
<1>7. ASSUME NEW m \in Messages, NEW rcpts \in SUBSET PartsOf(m), CancelItem(m, rcpts)
      PROVE  QuotaInv'
  <2> DEFINE done == finished[m] \cup rcpts
             all == done \cup {d \in Parts("domain", DomainsOf[m]) :
               \A p \in Parts("rcpt", RcptsOf[m]) : RcptDomain[p.name] = d.name => p \in done}
  <2>1. FinishLate(m, all)  BY <1>7 DEF CancelItem
  <2>2. finished[m] \subseteq all /\ all \in SUBSET AllParts
    BY <1>0 DEF QuotaType, AllParts, PartsOf
  <2> HIDE DEF all
  <2> QED BY <2>1, <2>2, FinishLateKeeps
<1>8. ASSUME NEW m \in Messages, NEW ref \in dropping[m], Drop(m, ref)  PROVE QuotaInv'
  BY <1>8, DropKeeps
<1>9. ASSUME NEW k \in QuotaKeys, CleanupQuota(k)  PROVE QuotaInv'
  BY <1>9, CleanupQuotaKeeps
<1>10. CASE QuotaRestart  BY <1>10, QuotaRestartKeeps
<1>11. CASE UNCHANGED quota_vars
  <2>1. UNCHANGED <<step, size, asked, refs, dropping, finished, quota, leaked, late, restarts>>
    BY <1>11 DEF quota_vars
  <2>2. QuotaType' /\ (\A o \in Messages : MessageInv(o)') /\ QuotaReleased'
    BY <1>0, <2>1 DEF QuotaType, MessageInv, QuotaReleased
  <2>3. \A k \in QuotaKeys : CountInv(k)'
    <3> SUFFICES ASSUME NEW k \in QuotaKeys  PROVE CountInv(k)'  OBVIOUS
    <3>1. CountInv(k)  BY DEF QuotaInv
    <3> QED BY <1>0, <2>1, <2>2, <3>1, SameCount
  <2> QED BY <2>2, <2>3 DEF QuotaInv
<1> QED BY <1>1, <1>2, <1>3, <1>4, <1>5, <1>6, <1>7, <1>8, <1>9, <1>10, <1>11 DEF QuotaNext

\* The first process starts with an empty queue.
LEMMA QuotaInitial ==
  ASSUME QuotaInit
  PROVE  QuotaInv
<1>1. QuotaType
  <2>1. MessageSizes \subseteq Nat \ {0}  BY QuotaAssumption
  <2>2. size \in [Messages -> Nat \ {0}]  BY <2>1 DEF QuotaInit
  <2> QED BY <2>2 DEF QuotaInit, QuotaType, QuotaSteps
<1>2. \A m \in Messages : MessageInv(m)  BY DEF QuotaInit, MessageInv
<1>3. QuotaReleased  BY DEF QuotaInit, QuotaReleased
<1>4. ASSUME NEW k \in QuotaKeys  PROVE CountInv(k)
  <2>1. Users(k) = {}  BY <1>1, UsersNow, EmptyCount DEF QuotaInit
  <2>2. Bytes(k) = {}  BY <2>1 DEF Bytes
  <2>3. quota[k] = {} /\ leaked[k] = 0  BY DEF QuotaInit
  <2> QED BY <2>1, <2>2, <2>3, FS_EmptySet DEF CountInv
<1> QED BY <1>1, <1>2, <1>3, <1>4 DEF QuotaInv

\* The inductive invariant holds in every state.
THEOREM QuotaReachable == QuotaSpec => []QuotaInv
<1>1. QuotaInit => QuotaInv  BY QuotaInitial
<1>2. QuotaInv /\ [QuotaNext]_quota_vars => QuotaInv'  BY QuotaStep
<1> QED BY <1>1, <1>2, PTL DEF QuotaSpec

\* The counters of the quotas are what the messages hold, in messages and in bytes,
\* and stay within their limits: no order of reservations, refusals, deliveries,
\* drops, cleanups and restarts makes them drift, except that a refusal by size
\* leaves its message counted (QuotaLimiter::is_allowed, UsedQuota::drop).
THEOREM QuotasAreExact == QuotaSpec => []QuotaExact
<1>1. QuotaInv => QuotaExact  BY DEF QuotaInv, CountInv, QuotaExact
<1> QED BY <1>1, QuotaReachable, PTL

\* A queued message holds something for a finished part only until the end of the
\* next delivery task after it expired, was cancelled or was loaded: what a task
\* leaves is held for pending parts alone (Message::release_quota).
THEOREM FinishedReleasedByTask == QuotaSpec => []QuotaReleased
<1>1. QuotaInv => QuotaReleased  BY DEF QuotaInv
<1> QED BY <1>1, QuotaReachable, PTL
=============================================================================
