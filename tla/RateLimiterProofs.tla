-------------------------- MODULE RateLimiterProofs --------------------------
(***************************************************************************)
(* Theorems of RateLimiter, for every rate, burst, idle time and number of *)
(* requests: forgetting a bucket is harmless, because the level an address *)
(* really has (Level) moves as if every bucket were refilled at each tick. *)
(***************************************************************************)
EXTENDS RateLimiter, TLAPS

LEMMA Product == ASSUME NEW x \in Nat, NEW y \in Nat PROVE x * y \in Nat
  OBVIOUS

LEMMA OneMore == ASSUME NEW x \in Nat, NEW y \in Nat PROVE (x + 1) * y = x * y + y
  OBVIOUS

LEMMA Monotone ==
  ASSUME NEW x \in Nat, NEW y \in Nat, NEW z \in Nat, x <= y
  PROVE  x * z <= y * z
<1>1. PICK d \in Nat : y = x + d
  <2>1. y - x \in Nat /\ y = x + (y - x)  OBVIOUS
  <2>2. QED  BY <2>1
<1>2. y * z = x * z + d * z  BY <1>1
<1>3. x * z \in Nat /\ d * z \in Nat  BY Product
<1>4. QED  BY <1>2, <1>3

LEMMA Sizes == Capacity \in Nat /\ Rate \in Nat \ {0} /\ Token \in Nat \ {0}
               /\ Token <= Capacity
<1>1. AtLeastOne(Burst) \in Nat \ {0}  BY LimiterAssumption DEF AtLeastOne
<1>2. Token \in Nat \ {0}  BY LimiterAssumption DEF Token
<1>3. Capacity \in Nat
  <2>1. AtLeastOne(Burst) \in Nat /\ Token \in Nat  BY <1>1, <1>2
  <2>2. QED  BY <2>1, Product DEF Capacity
<1>4. 1 * Token <= AtLeastOne(Burst) * Token  BY <1>1, <1>2, Monotone
<1>5. 1 * Token = Token  BY <1>2
<1>6. QED  BY <1>2, <1>3, <1>4, <1>5, LimiterAssumption DEF Rate, AtLeastOne, Capacity

LEMMA CappedFacts ==
  ASSUME NEW n \in Nat
  PROVE  /\ Capped(n) \in 0..Capacity
         /\ Capped(n) <= n
         /\ n >= Capacity => Capped(n) = Capacity
         /\ n <= Capacity => Capped(n) = n
  BY Sizes DEF Capped

\* Capped(Capped(n) + Rate) = Capped(n + Rate)
LEMMA CappedTwice ==
  ASSUME NEW n \in Nat
  PROVE  Capped(Capped(n) + Rate) = Capped(n + Rate)
<1>1. CASE n <= Capacity  BY <1>1, CappedFacts
<1>2. CASE n >= Capacity
  <2>1. Capped(n) = Capacity  BY <1>2, CappedFacts
  <2>2. Capacity + Rate \in Nat /\ n + Rate \in Nat  BY Sizes
  <2>3. Capped(Capacity + Rate) = Capacity  BY <2>2, Sizes, CappedFacts
  <2>4. Capped(n + Rate) = Capacity  BY <1>2, <2>2, Sizes, CappedFacts
  <2>5. QED  BY <2>1, <2>3, <2>4
<1>3. QED  BY <1>1, <1>2, Sizes

-----------------------------------------------------------------------------
(***************************************************************************)
(* Type correctness.  That buckets is a function is part of the invariant: *)
(* the refinement mapping applies it.                                      *)
(***************************************************************************)
Bucket == [tokens : 0..Capacity, last : Nat]

Inv ==
    /\ TypeOK
    /\ buckets = [a \in DOMAIN buckets |-> buckets[a]]

LEMMA RefilledFacts ==
  ASSUME TypeOK, NEW b, b.tokens \in 0..Capacity, b.last \in 0..now
  PROVE  /\ (now - b.last) * Rate \in Nat
         /\ b.tokens + (now - b.last) * Rate \in Nat
         /\ Refilled(b) \in 0..Capacity
<1>1. now - b.last \in Nat  BY DEF TypeOK
<1>2. (now - b.last) * Rate \in Nat  BY <1>1, Sizes, Product
<1>3. b.tokens + (now - b.last) * Rate \in Nat  BY <1>2, Sizes
<1>4. QED  BY <1>2, <1>3, CappedFacts DEF Refilled

LEMMA FindFacts ==
  ASSUME TypeOK, NEW a \in Addresses
  PROVE  /\ Find(a).tokens \in 0..Capacity
         /\ Find(a).last \in 0..now
         /\ Refilled(Find(a)) \in 0..Capacity
         /\ Refilled(Find(a)) = Level[a]
<1>1. Find(a).tokens \in 0..Capacity /\ Find(a).last \in 0..now
  BY Sizes DEF Find, TypeOK
<1>2. Refilled(Find(a)) \in 0..Capacity  BY <1>1, RefilledFacts
<1>3. Refilled(Find(a)) = Level[a]
  <2>1. CASE a \in DOMAIN buckets  BY <2>1 DEF Find, Level
  <2>2. CASE a \notin DOMAIN buckets
    <3>1. Find(a).tokens = Capacity /\ Find(a).last = now  BY <2>2 DEF Find
    <3>2. (now - now) * Rate = 0  BY Sizes DEF TypeOK
    <3>3. Refilled(Find(a)) = Capped(Capacity + 0)  BY <3>1, <3>2 DEF Refilled
    <3>4. Capped(Capacity + 0) = Capacity  BY Sizes, CappedFacts
    <3>5. QED  BY <2>2, <3>3, <3>4 DEF Level
  <2>3. QED  BY <2>1, <2>2
<1>4. QED  BY <1>1, <1>2, <1>3

LEMMA TypeInit == Init => Inv
  BY DEF Init, Inv, TypeOK

LEMMA StoreFacts ==
  ASSUME TypeOK, NEW a \in Addresses, NEW t \in 0..Capacity, Store(a, t), now' = now
  PROVE  /\ DOMAIN buckets' = DOMAIN buckets \cup {a}
         /\ buckets' = [x \in DOMAIN buckets' |-> buckets'[x]]
         /\ buckets'[a] = [tokens |-> t, last |-> now]
         /\ \A x \in DOMAIN buckets : x # a => buckets'[x] = buckets[x]
  BY DEF Store

LEMMA TypeStep == Inv /\ [Next]_vars => Inv'
<1> SUFFICES ASSUME Inv, [Next]_vars PROVE Inv'
  OBVIOUS
<1> USE DEF Inv
<1>1. CASE Tick
  BY <1>1 DEF Tick, TypeOK, counts
<1>2. CASE Evict
  <2>1. buckets' = [a \in Retained |-> buckets[a]] /\ Retained \subseteq DOMAIN buckets
    BY <1>2 DEF Evict, Retained
  <2>2. due' \in Nat /\ UNCHANGED <<now, counts>>
    BY <1>2, LimiterAssumption DEF Evict, TypeOK
  <2>3. QED  BY <2>1, <2>2 DEF TypeOK, counts
<1>3. ASSUME NEW a \in Addresses, Check(a) PROVE Inv'
  <2> DEFINE full == Refilled(Find(a))
  <2>0. TypeOK  OBVIOUS
  <2>1. full \in 0..Capacity  BY <2>0, FindFacts
  <2>2. PICK t \in 0..Capacity : Store(a, t)
    <3>1. full >= Token => full - Token \in 0..Capacity  BY <2>1, Sizes
    <3> HIDE DEF full
    <3>2. Store(a, full) \/ (full >= Token /\ Store(a, full - Token))
      BY <1>3 DEF Check, full
    <3>3. QED  BY <2>1, <3>1, <3>2
  <2>3. UNCHANGED <<now, due, since>> /\ granted' \in [Addresses -> Nat]
        /\ denied' \in [Addresses -> Nat]
    BY <1>3 DEF Check, TypeOK
  <2>4. now' = now  BY <2>3
  <2>5. /\ DOMAIN buckets' = DOMAIN buckets \cup {a}
        /\ buckets' = [x \in DOMAIN buckets' |-> buckets'[x]]
        /\ buckets'[a] = [tokens |-> t, last |-> now]
        /\ \A x \in DOMAIN buckets : x # a => buckets'[x] = buckets[x]
    BY <2>0, <2>2, <2>4, StoreFacts
  <2>6. now \in 0..now  BY DEF TypeOK
  <2>7. \A x \in DOMAIN buckets' :
           buckets'[x].tokens \in 0..Capacity /\ buckets'[x].last \in 0..now
    BY <2>2, <2>5, <2>6 DEF TypeOK
  <2>8. QED  BY <2>3, <2>4, <2>5, <2>7 DEF TypeOK, Capacity, Token, AtLeastOne
<1>4. ASSUME NEW a \in Addresses, Observe(a) PROVE Inv'
  BY <1>4 DEF Observe, TypeOK
<1>5. CASE UNCHANGED vars  BY <1>5 DEF vars, counts, TypeOK
<1>6. QED  BY <1>1, <1>2, <1>3, <1>4, <1>5 DEF Next

\* The clock and the counters are numbers, a bucket never holds more than its
\* capacity and none was touched in the future, whatever is asked and forgotten
\* (rate_limit.rs 44-70).
THEOREM TypeCorrect == Spec => []TypeOK
<1>1. Inv => TypeOK  BY DEF Inv
<1>2. QED  BY TypeInit, TypeStep, <1>1, PTL DEF Spec

LEMMA InvCorrect == Spec => []Inv
  BY TypeInit, TypeStep, PTL DEF Spec

-----------------------------------------------------------------------------
(***************************************************************************)
(* How the level of an address moves.                                      *)
(***************************************************************************)
LEMMA LevelFacts ==
  ASSUME TypeOK
  PROVE  Level \in [Addresses -> 0..Capacity]
<1> SUFFICES ASSUME NEW a \in Addresses
             PROVE  (IF a \in DOMAIN buckets THEN Refilled(buckets[a]) ELSE Capacity) \in 0..Capacity
  BY DEF Level
<1>1. CASE a \in DOMAIN buckets  BY <1>1, RefilledFacts DEF TypeOK
<1>2. CASE a \notin DOMAIN buckets  BY <1>2, Sizes
<1>3. QED  BY <1>1, <1>2

LEMMA LevelTick ==
  ASSUME Inv, Tick
  PROVE  Level' = [a \in Addresses |-> Capped(Level[a] + Rate)]
<1> SUFFICES ASSUME NEW a \in Addresses PROVE Level'[a] = Capped(Level[a] + Rate)
  BY DEF Level
<1> USE DEF Inv
<1>1. CASE a \in DOMAIN buckets
  <2> DEFINE b == buckets[a]
  <2> DEFINE n == b.tokens + (now - b.last) * Rate
  <2>1. b.tokens \in 0..Capacity /\ b.last \in 0..now  BY <1>1 DEF TypeOK
  <2>2. n \in Nat  BY <2>1, RefilledFacts
  <2>3. now - b.last \in Nat /\ now' - b.last = (now - b.last) + 1
    BY <2>1 DEF TypeOK, Tick
  <2>4. (now' - b.last) * Rate = (now - b.last) * Rate + Rate
    BY <2>3, OneMore, Sizes
  <2>5. b.tokens + (now' - b.last) * Rate = n + Rate
    BY <2>1, <2>2, <2>4, <2>3, Product, Sizes
  <2>6. Level'[a] = Capped(b.tokens + (now' - b.last) * Rate)
    BY <1>1 DEF Level, Refilled, Tick, Capped, Capacity, Token, Rate, AtLeastOne
  <2>7. Level[a] = Capped(n)  BY <1>1 DEF Level, Refilled
  <2>8. QED  BY <2>2, <2>5, <2>6, <2>7, CappedTwice
<1>2. CASE a \notin DOMAIN buckets
  <2>1. Level'[a] = Capacity /\ Level[a] = Capacity
    BY <1>2 DEF Level, Tick, Capacity
  <2>2. Capped(Capacity + Rate) = Capacity  BY Sizes, CappedFacts
  <2>3. QED  BY <2>1, <2>2
<1>3. QED  BY <1>1, <1>2

LEMMA LevelCheck ==
  ASSUME Inv, NEW a \in Addresses, Check(a)
  PROVE  \/ /\ Level[a] >= Token
            /\ Level' = [Level EXCEPT ![a] = @ - Token]
            /\ granted' = [granted EXCEPT ![a] = @ + 1]
            /\ UNCHANGED <<now, since, denied>>
         \/ /\ Level[a] < Token
            /\ Level' = Level
            /\ denied' = [denied EXCEPT ![a] = @ + 1]
            /\ UNCHANGED <<now, since, granted>>
<1> USE DEF Inv
<1>0. TypeOK /\ now' = now /\ since' = since  BY DEF Check
<1>1. ASSUME NEW t \in 0..Capacity, Store(a, t)
      PROVE  Level' = [Level EXCEPT ![a] = t]
  <2>1. /\ DOMAIN buckets' = DOMAIN buckets \cup {a}
        /\ buckets'[a] = [tokens |-> t, last |-> now]
        /\ \A x \in DOMAIN buckets : x # a => buckets'[x] = buckets[x]
    BY <1>0, <1>1, StoreFacts
  <2>2. SUFFICES ASSUME NEW x \in Addresses
                 PROVE  Level'[x] = IF x = a THEN t ELSE Level[x]
    BY DEF Level
  <2>3. CASE x = a
    <3>1. Level'[a] = Capped(t + (now - now) * Rate)
      BY <1>0, <2>1 DEF Level, Refilled, Capped, Capacity, Token, Rate, AtLeastOne
    <3>2. now - now = 0 /\ 0 * Rate = 0 /\ t + 0 = t /\ t \in Nat
      BY <1>0, Sizes DEF TypeOK
    <3>3. Capped(t) = t  BY <3>2, CappedFacts
    <3>4. QED  BY <2>3, <3>1, <3>2, <3>3
  <2>4. CASE x # a
    BY <1>0, <2>1, <2>4 DEF Level, Refilled, Capped, Capacity, Token, Rate, AtLeastOne
  <2>5. QED  BY <2>3, <2>4
<1> DEFINE full == Refilled(Find(a))
<1>2. full \in 0..Capacity /\ full = Level[a]  BY <1>0, FindFacts
<1>3. CASE full >= Token
  <2>1. full - Token \in 0..Capacity  BY <1>2, <1>3, Sizes
  <2>2. Store(a, full - Token)  BY <1>3 DEF Check
  <2>3. Level' = [Level EXCEPT ![a] = full - Token]  BY <1>1, <2>1, <2>2
  <2>4. granted' = [granted EXCEPT ![a] = @ + 1] /\ UNCHANGED denied
    BY <1>3 DEF Check
  <2>5. Level' = [Level EXCEPT ![a] = @ - Token] /\ Level[a] >= Token
    <3> HIDE DEF full
    <3>1. QED  BY <1>2, <1>3, <2>3
  <2>6. QED  BY <1>0, <2>4, <2>5
<1>4. CASE ~(full >= Token)
  <2>1. Store(a, full)  BY <1>4 DEF Check
  <2>2. Level' = [Level EXCEPT ![a] = full]  BY <1>1, <1>2, <2>1
  <2>3. denied' = [denied EXCEPT ![a] = @ + 1] /\ UNCHANGED granted
    BY <1>4 DEF Check
  <2>4. Level' = Level
    <3> HIDE DEF full
    <3>1. Level = [x \in Addresses |-> Level[x]]  BY DEF Level
    <3>2. QED  BY <1>2, <2>2, <3>1
  <2>5. Level[a] < Token
    <3> HIDE DEF full
    <3>1. QED  BY <1>2, <1>4, Sizes
  <2>6. QED  BY <1>0, <2>3, <2>4, <2>5
<1>5. QED  BY <1>3, <1>4

\* The bucket that is forgotten is full by then: this is where the assumption
\* IdleFor * Rate >= Capacity is needed.
LEMMA LevelEvict ==
  ASSUME Inv, Evict
  PROVE  Level' = Level
<1> SUFFICES ASSUME NEW a \in Addresses PROVE Level'[a] = Level[a]
  BY DEF Level
<1> USE DEF Inv
<1>1. buckets' = [x \in Retained |-> buckets[x]] /\ now' = now  BY DEF Evict
<1>2. CASE a \in Retained
  BY <1>1, <1>2 DEF Level, Retained, Refilled, Capped, Capacity, Token, Rate, AtLeastOne
<1>3. CASE a \notin DOMAIN buckets
  BY <1>1, <1>3 DEF Level, Retained, Capacity, Token, AtLeastOne
<1>4. CASE a \in DOMAIN buckets /\ a \notin Retained
  <2> DEFINE idle == now - buckets[a].last
  <2>1. buckets[a].tokens \in 0..Capacity /\ buckets[a].last \in 0..now
    BY <1>4 DEF TypeOK
  <2>2. idle \in Nat /\ idle >= IdleFor
    BY <1>4, <2>1, LimiterAssumption DEF TypeOK, Retained
  <2>3. IdleFor * Rate <= idle * Rate
    BY <2>2, Monotone, Sizes, LimiterAssumption
  <2>4. idle * Rate \in Nat /\ IdleFor * Rate \in Nat
    BY <2>2, Product, Sizes, LimiterAssumption
  <2>5. buckets[a].tokens + idle * Rate \in Nat
        /\ buckets[a].tokens + idle * Rate >= Capacity
    <3> DEFINE gain == idle * Rate
    <3> DEFINE least == IdleFor * Rate
    <3>1. gain \in Nat /\ least \in Nat /\ least <= gain /\ least >= Capacity
      BY <2>3, <2>4, LimiterAssumption
    <3> HIDE DEF gain, least, idle
    <3>2. buckets[a].tokens + gain \in Nat /\ buckets[a].tokens + gain >= Capacity
      BY <2>1, <3>1, Sizes
    <3>3. QED  BY <3>2 DEF gain
  <2>6. Capped(buckets[a].tokens + idle * Rate) = Capacity  BY <2>5, CappedFacts
  <2>7. Level[a] = Capacity  BY <1>4, <2>6 DEF Level, Refilled
  <2>8. Level'[a] = Capacity
    BY <1>1, <1>4 DEF Level, Capacity, Token, AtLeastOne
  <2>9. QED  BY <2>7, <2>8
<1>5. QED  BY <1>2, <1>3, <1>4

LEMMA LevelSame ==
  ASSUME UNCHANGED <<buckets, now>> PROVE Level' = Level
  BY DEF Level, Refilled, Capped, Capacity, Token, Rate, AtLeastOne

-----------------------------------------------------------------------------
(***************************************************************************)
(* The refinement, and the bound on a burst, by the level.                 *)
(***************************************************************************)
LEMMA RefineStep == Inv /\ [Next]_vars => [Eager!Next]_(Eager!vars)
<1> SUFFICES ASSUME Inv, [Next]_vars PROVE [Eager!Next]_(Eager!vars)
  OBVIOUS
<1> USE DEF Eager!vars, Eager!counts, Eager!Next, Eager!Token, Eager!Capacity,
            Eager!Rate, Eager!Capped, Eager!AtLeastOne
<1>1. CASE Tick
  <2>1. Level' = [a \in Addresses |-> Capped(Level[a] + Rate)]  BY <1>1, LevelTick
  <2>2. now' = now + 1 /\ UNCHANGED counts  BY <1>1 DEF Tick
  <2>3. Eager!Tick
    BY <2>1, <2>2 DEF Eager!Tick, Capped, Capacity, Token, Rate, AtLeastOne, counts
  <2>4. QED  BY <2>3
<1>2. CASE Evict
  BY <1>2, LevelEvict DEF Evict, counts
<1>3. ASSUME NEW a \in Addresses, Check(a) PROVE [Eager!Next]_(Eager!vars)
  <2>1. Eager!Allow(a) \/ Eager!Deny(a)
    BY <1>3, LevelCheck DEF Eager!Allow, Eager!Deny, Token
  <2>2. QED  BY <2>1
<1>4. ASSUME NEW a \in Addresses, Observe(a) PROVE [Eager!Next]_(Eager!vars)
  <2>1. Level' = Level  BY <1>4, LevelSame DEF Observe
  <2>2. Eager!Observe(a)  BY <1>4, <2>1 DEF Eager!Observe, Observe
  <2>3. QED  BY <2>2
<1>5. CASE UNCHANGED vars
  BY <1>5, LevelSame DEF vars, counts
<1>6. QED  BY <1>1, <1>2, <1>3, <1>4, <1>5 DEF Next

\* Requests are let through and refused as if every address had a bucket of its
\* own, always, refilled at every tick: for every burst, rate and idle time that
\* lets a bucket fill up before it is forgotten (rate_limit.rs 44-70).
THEOREM LimiterRefinesTokenBuckets == Spec => RefinesTokenBuckets
<1>1. Init => Eager!Init
  BY DEF Init, Eager!Init, Level, Eager!Capacity, Eager!Token, Eager!AtLeastOne,
         Capacity, Token, AtLeastOne
<1>2. QED
  BY InvCorrect, RefineStep, <1>1, PTL DEF Spec, RefinesTokenBuckets, Eager!Spec

\* What was granted and what is left never exceed a burst and the rate.
Earned(a) == Capacity + (now - since[a]) * Rate
Bounded == \A a \in Addresses : since[a] <= now /\ granted[a] * Token + Level[a] <= Earned(a)

LEMMA BoundedInit == Init => Bounded
<1> SUFFICES ASSUME Init, NEW a \in Addresses
             PROVE  since[a] <= now /\ granted[a] * Token + Level[a] <= Earned(a)
  BY DEF Bounded
<1>1. now = 0 /\ since[a] = 0 /\ granted[a] = 0 /\ Level[a] = Capacity
  BY DEF Init, Level
<1>2. 0 * Token = 0 /\ 0 * Rate = 0 /\ now - since[a] = 0  BY <1>1, Sizes
<1>3. QED  BY <1>1, <1>2, Sizes DEF Earned

LEMMA BoundedStep == Inv /\ Bounded /\ [Next]_vars => Bounded'
<1> SUFFICES ASSUME Inv, Bounded, [Next]_vars PROVE Bounded'
  OBVIOUS
<1> USE DEF Inv
<1>0. \A a \in Addresses : /\ since[a] \in 0..now /\ now \in Nat
                           /\ granted[a] * Token \in Nat
                           /\ (now - since[a]) * Rate \in Nat
                           /\ Level[a] \in Nat
                           /\ granted[a] * Token + Level[a] <= Capacity + (now - since[a]) * Rate
  <2> SUFFICES ASSUME NEW a \in Addresses
               PROVE  /\ since[a] \in 0..now /\ now \in Nat
                      /\ granted[a] * Token \in Nat
                      /\ (now - since[a]) * Rate \in Nat
                      /\ Level[a] \in Nat
                      /\ granted[a] * Token + Level[a] <= Capacity + (now - since[a]) * Rate
    OBVIOUS
  <2>1. since[a] \in 0..now /\ now \in Nat /\ granted[a] \in Nat  BY DEF TypeOK, Bounded
  <2>2. granted[a] * Token \in Nat  BY <2>1, Product, Sizes
  <2>3. now - since[a] \in Nat  BY <2>1
  <2>4. (now - since[a]) * Rate \in Nat  BY <2>3, Product, Sizes
  <2>5. Level[a] \in 0..Capacity  BY LevelFacts
  <2>6. QED  BY <2>1, <2>2, <2>4, <2>5, Sizes DEF Bounded, Earned
<1>1. CASE Tick
  <2> SUFFICES ASSUME NEW a \in Addresses
               PROVE  since'[a] <= now' /\ (granted[a] * Token + Level[a] <= Earned(a))'
    BY DEF Bounded
  <2>1. Level'[a] = Capped(Level[a] + Rate)  BY <1>1, LevelTick
  <2>2. Level'[a] <= Level[a] + Rate /\ Level'[a] \in 0..Capacity
    <3>1. Level[a] + Rate \in Nat  BY <1>0, Sizes
    <3>2. QED  BY <2>1, <3>1, CappedFacts
  <2>3. since'[a] = since[a] /\ granted'[a] = granted[a] /\ now' = now + 1
    BY <1>1 DEF Tick, counts
  <2>4. now - since[a] \in Nat /\ now' - since'[a] = (now - since[a]) + 1
    BY <1>0, <2>3
  <2>5. (now' - since'[a]) * Rate = (now - since[a]) * Rate + Rate
    BY <2>4, OneMore, Sizes
  <2>6. Capacity' = Capacity /\ Token' = Token /\ Rate' = Rate
    BY DEF Capacity, Token, Rate, AtLeastOne
  <2>7. granted[a] * Token + Level'[a] <= Capacity + ((now - since[a]) * Rate + Rate)
    <3> DEFINE g == granted[a] * Token
    <3> DEFINE e == (now - since[a]) * Rate
    <3>1. g \in Nat /\ e \in Nat /\ Level[a] \in Nat /\ g + Level[a] <= Capacity + e
      BY <1>0
    <3> HIDE DEF g, e
    <3>2. g + Level'[a] <= Capacity + (e + Rate)  BY <2>2, <3>1, Sizes
    <3>3. QED  BY <3>2 DEF g, e
  <2>8. since'[a] <= now'  BY <1>0, <2>3
  <2>9. QED  BY <2>3, <2>5, <2>6, <2>7, <2>8 DEF Earned
<1>2. ASSUME NEW x \in Addresses, Check(x) PROVE Bounded'
  <2> SUFFICES ASSUME NEW a \in Addresses
               PROVE  since'[a] <= now' /\ (granted[a] * Token + Level[a] <= Earned(a))'
    BY DEF Bounded
  <2>1. UNCHANGED <<now, since>>  BY <1>2 DEF Check
  <2>2. granted'[a] * Token + Level'[a] = granted[a] * Token + Level[a]
    <3>1. CASE granted'[a] = granted[a] /\ Level'[a] = Level[a]  BY <3>1
    <3>2. CASE granted'[a] = granted[a] + 1 /\ Level'[a] = Level[a] - Token
      <4>1. granted[a] \in Nat  BY DEF TypeOK
      <4>2. (granted[a] + 1) * Token = granted[a] * Token + Token
        BY <4>1, OneMore, Sizes
      <4> DEFINE g == granted[a] * Token
      <4>3. g \in Nat /\ Level[a] \in Nat  BY <1>0
      <4>4. granted'[a] * Token = g + Token  BY <3>2, <4>2
      <4> HIDE DEF g
      <4>5. g + Token + (Level[a] - Token) = g + Level[a]  BY <4>3, Sizes
      <4>6. QED  BY <3>2, <4>4, <4>5 DEF g
    <3>3. Level \in [Addresses -> 0..Capacity] /\ granted \in [Addresses -> Nat]
      BY LevelFacts DEF TypeOK
    <3>4. QED  BY <1>2, <3>1, <3>2, <3>3, LevelCheck
  <2>3. Earned(a)' = Earned(a) /\ Token' = Token
    BY <2>1 DEF Earned, Capacity, Token, Rate, AtLeastOne
  <2>4. QED  BY <1>0, <2>1, <2>2, <2>3 DEF Earned
<1>3. ASSUME NEW x \in Addresses, Observe(x) PROVE Bounded'
  <2> SUFFICES ASSUME NEW a \in Addresses
               PROVE  since'[a] <= now' /\ (granted[a] * Token + Level[a] <= Earned(a))'
    BY DEF Bounded
  <2>1. Level' = Level /\ now' = now  BY <1>3, LevelSame DEF Observe
  <2>2. CASE a = x
    <3>1. since'[a] = now /\ granted'[a] = 0  BY <1>3, <2>2 DEF Observe, TypeOK
    <3>2. 0 * Token = 0 /\ (now - now) * Rate = 0  BY <1>0, Sizes
    <3>3. Level[a] \in 0..Capacity  BY LevelFacts
    <3>4. (granted[a] * Token)' = 0 /\ Earned(a)' = Capacity + 0
      BY <2>1, <3>1, <3>2 DEF Earned, Token, Capacity, Rate, AtLeastOne
    <3>5. QED  BY <1>0, <2>1, <3>1, <3>3, <3>4, Sizes
  <2>3. CASE a # x
    <3>1. since'[a] = since[a] /\ granted'[a] = granted[a]
      BY <1>3, <2>3 DEF Observe, TypeOK
    <3>2. Earned(a)' = Earned(a) /\ Token' = Token
      BY <2>1, <3>1 DEF Earned, Capacity, Token, Rate, AtLeastOne
    <3>3. QED  BY <1>0, <2>1, <3>1, <3>2 DEF Earned
  <2>4. QED  BY <2>2, <2>3
<1>4. CASE Evict \/ UNCHANGED vars
  <2>1. Level' = Level /\ UNCHANGED <<now, since, granted>>
    BY <1>4, LevelEvict, LevelSame DEF Evict, vars, counts
  <2>2. \A a \in Addresses : Earned(a)' = Earned(a) /\ Token' = Token
    BY <2>1 DEF Earned, Capacity, Token, Rate, AtLeastOne
  <2>3. QED  BY <2>1, <2>2 DEF Bounded
<1>5. QED  BY <1>1, <1>2, <1>3, <1>4 DEF Next

LEMMA BoundedImplies == Inv /\ Bounded => BurstIsBounded
<1> SUFFICES ASSUME Inv, Bounded, NEW a \in Addresses
             PROVE  granted[a] * Token <= Capacity + (now - since[a]) * Rate
  BY DEF BurstIsBounded
<1>1. TypeOK /\ Level[a] \in 0..Capacity  BY LevelFacts DEF Inv
<1>2. granted[a] \in Nat /\ now - since[a] \in Nat  BY <1>1 DEF TypeOK, Bounded
<1> DEFINE g == granted[a] * Token
<1> DEFINE e == (now - since[a]) * Rate
<1>3. g \in Nat /\ e \in Nat  BY <1>2, Product, Sizes
<1>4. g + Level[a] <= Capacity + e  BY DEF Bounded, Earned
<1> HIDE DEF g, e
<1>5. g <= Capacity + e  BY <1>1, <1>3, <1>4, Sizes
<1>6. QED  BY <1>5 DEF g, e

\* From any moment on, an address is granted no more than a burst and what the
\* rate has added since, forgotten and made anew as its bucket may be, and
\* however many requests are made (rate_limit.rs 44-70).
THEOREM BurstBounded == Spec => []BurstIsBounded
<1>1. Init => Inv /\ Bounded  BY TypeInit, BoundedInit
<1>2. (Inv /\ Bounded) /\ [Next]_vars => (Inv /\ Bounded)'  BY TypeStep, BoundedStep
<1>3. QED  BY <1>1, <1>2, BoundedImplies, PTL DEF Spec
-----------------------------------------------------------------------------
(***************************************************************************)
(* How long a bucket is kept.  By the eviction that comes next, at `due`,  *)
(* no bucket has been idle for more than IdleFor and one period: the last  *)
(* eviction kept only what had been idle for less than IdleFor, and what   *)
(* was touched after that has been idle for a period at most.              *)
(***************************************************************************)
Scheduled ==
    /\ now <= due /\ due <= now + Period
    /\ \A a \in DOMAIN buckets : due - buckets[a].last <= IdleFor + Period

LEMMA ScheduledInit == Init => Scheduled
  BY LimiterAssumption DEF Init, Scheduled

LEMMA ScheduledStep == Inv /\ Scheduled /\ [Next]_vars => Scheduled'
<1> SUFFICES ASSUME Inv, Scheduled, [Next]_vars PROVE Scheduled'
  OBVIOUS
<1> USE DEF Inv
<1>0. /\ now \in Nat /\ due \in Nat /\ IdleFor \in Nat /\ Period \in Nat \ {0}
      /\ \A a \in DOMAIN buckets : buckets[a].last \in 0..now
  BY LimiterAssumption DEF TypeOK
<1>1. CASE Tick
  BY <1>0, <1>1 DEF Tick, Scheduled
<1>2. CASE Evict
  <2>1. now = due /\ now' = now /\ due' = due + Period
    BY <1>0, <1>2 DEF Evict, Scheduled
  <2>2. buckets' = [a \in Retained |-> buckets[a]] /\ Retained \subseteq DOMAIN buckets
    BY <1>2 DEF Evict, Retained
  <2>3. ASSUME NEW a \in DOMAIN buckets'
        PROVE  due' - buckets'[a].last <= IdleFor + Period
    <3>1. a \in Retained /\ a \in DOMAIN buckets /\ buckets'[a] = buckets[a]
      BY <2>2, <2>3
    <3>2. now - buckets[a].last < IdleFor  BY <3>1 DEF Retained
    <3>3. QED  BY <1>0, <2>1, <3>1, <3>2
  <2>4. QED  BY <1>0, <2>1, <2>3 DEF Scheduled
<1>3. ASSUME NEW a \in Addresses, Check(a) PROVE Scheduled'
  <2>1. TypeOK /\ Refilled(Find(a)) \in 0..Capacity  BY FindFacts
  <2>2. PICK t \in 0..Capacity : Store(a, t)
    <3> DEFINE full == Refilled(Find(a))
    <3>1. full >= Token => full - Token \in 0..Capacity  BY <2>1, Sizes
    <3> HIDE DEF full
    <3>2. Store(a, full) \/ (full >= Token /\ Store(a, full - Token))
      BY <1>3 DEF Check, full
    <3>3. full \in 0..Capacity  BY <2>1 DEF full
    <3>4. QED  BY <3>1, <3>2, <3>3
  <2>3. now' = now /\ due' = due  BY <1>3 DEF Check
  <2>4. /\ DOMAIN buckets' = DOMAIN buckets \cup {a}
        /\ buckets'[a] = [tokens |-> t, last |-> now]
        /\ \A x \in DOMAIN buckets : x # a => buckets'[x] = buckets[x]
    BY <2>1, <2>2, <2>3, StoreFacts
  <2>5. ASSUME NEW x \in DOMAIN buckets'
        PROVE  due' - buckets'[x].last <= IdleFor + Period
    <3>1. CASE x = a
      <4>1. buckets'[x].last = now  BY <2>4, <3>1
      <4>2. QED  BY <1>0, <2>3, <4>1 DEF Scheduled
    <3>2. CASE x # a  BY <2>3, <2>4, <2>5, <3>2 DEF Scheduled
    <3>3. QED  BY <3>1, <3>2
  <2>6. QED  BY <2>3, <2>5 DEF Scheduled
<1>4. ASSUME NEW a \in Addresses, Observe(a) PROVE Scheduled'
  BY <1>4 DEF Observe, Scheduled
<1>5. CASE UNCHANGED vars  BY <1>5 DEF vars, Scheduled
<1>6. QED  BY <1>1, <1>2, <1>3, <1>4, <1>5 DEF Next

LEMMA ScheduledImplies == Inv /\ Scheduled => ForgottenInTime
  BY LimiterAssumption DEF Inv, TypeOK, Scheduled, ForgottenInTime

\* No bucket outlives IdleFor and one period of the eviction task, whatever they
\* are: the map holds the addresses of the last hour and five minutes
\* (rate_limit.rs 65-71, 95-103).
THEOREM Forgotten == Spec => []ForgottenInTime
<1>1. Init => Inv /\ Scheduled  BY TypeInit, ScheduledInit
<1>2. (Inv /\ Scheduled) /\ [Next]_vars => (Inv /\ Scheduled)'
  BY TypeStep, ScheduledStep
<1>3. QED  BY <1>1, <1>2, ScheduledImplies, PTL DEF Spec
=============================================================================
