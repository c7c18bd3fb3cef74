----------------------------- MODULE RateLimiter ----------------------------
(***************************************************************************)
(* RateLimiter (backend/src/routes/rate_limit.rs): buckets are made when   *)
(* an address is first seen, refilled only when it calls again, and        *)
(* forgotten by a background task once they have been idle.                *)
(*                                                                         *)
(* Levels are in the units of TokenBuckets, exact where the code has f64.  *)
(* The mutex makes a check and an eviction one step each.                  *)
(***************************************************************************)
EXTENDS Naturals

CONSTANTS
    Addresses, Burst, Rpm, Minute,
    IdleFor,    \* how long a bucket is idle before it is forgotten: 3600 s
    Period,     \* between two runs of the eviction task: 300 s
    MaxTime,    \* bound: ticks of the clock
    MaxAsked    \* bound: requests counted per address

VARIABLES
    now,        \* Instant::now()
    buckets,    \* address -> [tokens, last]
    due,        \* the next tick of the eviction task
    since, granted, denied      \* history, as in TokenBuckets

counts == <<since, granted, denied>>
vars == <<now, buckets, due, counts>>

AtLeastOne(n) == IF n < 1 THEN 1 ELSE n
Token == Minute
Capacity == AtLeastOne(Burst) * Token
Rate == AtLeastOne(Rpm)
Capped(n) == IF n < Capacity THEN n ELSE Capacity

(***************************************************************************)
(* An idle bucket is full by the time it is forgotten: IdleFor refills     *)
(* make up for a whole burst.  3600 s do so up to a burst of 60 x Rpm.     *)
(***************************************************************************)
ASSUME LimiterAssumption ==
    /\ Burst \in Nat /\ Rpm \in Nat /\ Minute \in Nat \ {0}
    /\ IdleFor \in Nat /\ Period \in Nat \ {0}
    /\ MaxTime \in Nat /\ MaxAsked \in Nat
    /\ IdleFor * Rate >= Capacity

-----------------------------------------------------------------------------
Init ==
    /\ now = 0
    /\ buckets = <<>>
    /\ due = 0
    /\ since = [a \in Addresses |-> 0]
    /\ granted = [a \in Addresses |-> 0]
    /\ denied = [a \in Addresses |-> 0]

(***************************************************************************)
(* The eviction task is never late by a whole tick: time does not pass     *)
(* while it is due.  Nothing but ForgottenInTime depends on this.          *)
(***************************************************************************)
Tick ==
    /\ now < MaxTime
    /\ now < due
    /\ now' = now + 1
    /\ UNCHANGED <<buckets, due, counts>>

\* Mutant: a new address starts from an empty bucket.
FindEmpty(a) ==
    IF a \in DOMAIN buckets THEN buckets[a] ELSE [tokens |-> 0, last |-> now]

\* entry(ip).or_insert_with(...)
Find(a) ==
    IF a \in DOMAIN buckets THEN buckets[a] ELSE [tokens |-> Capacity, last |-> now]

\* Mutant: no .min(self.capacity)
RefilledUncapped(b) == b.tokens + (now - b.last) * Rate

\* What the bucket holds by now.
Refilled(b) == Capped(b.tokens + (now - b.last) * Rate)

Store(a, tokens) ==
    buckets' = [x \in DOMAIN buckets \cup {a} |->
                   IF x = a THEN [tokens |-> tokens, last |-> now] ELSE buckets[x]]

Check(a) ==
    /\ granted[a] + denied[a] < MaxAsked
    /\ LET full == Refilled(Find(a))
       IN  IF full >= Token
           THEN /\ Store(a, full - Token)
                /\ granted' = [granted EXCEPT ![a] = @ + 1]
                /\ UNCHANGED denied
           ELSE /\ Store(a, full)
                /\ denied' = [denied EXCEPT ![a] = @ + 1]
                /\ UNCHANGED granted
    /\ UNCHANGED <<now, due, since>>

\* Mutant: the comparison of retain turned around.
FreshOnes == {a \in DOMAIN buckets : now - buckets[a].last >= IdleFor}

\* What evict_idle retains.
Retained == {a \in DOMAIN buckets : now - buckets[a].last < IdleFor}

\* Mutant: spawn_eviction_task evicts once and does not loop.
EvictOnce ==
    /\ now >= due
    /\ buckets' = [a \in Retained |-> buckets[a]]
    /\ due' = due + MaxTime + 1
    /\ UNCHANGED <<now, counts>>

\* interval.tick(), then evict_idle.
Evict ==
    /\ now >= due
    /\ buckets' = [a \in Retained |-> buckets[a]]
    /\ due' = due + Period
    /\ UNCHANGED <<now, counts>>

Observe(a) ==
    /\ since' = [since EXCEPT ![a] = now]
    /\ granted' = [granted EXCEPT ![a] = 0]
    /\ denied' = [denied EXCEPT ![a] = 0]
    /\ UNCHANGED <<now, buckets, due>>

Next ==
    \/ Tick \/ Evict
    \/ \E a \in Addresses : Check(a) \/ Observe(a)

Spec == Init /\ [][Next]_vars

-----------------------------------------------------------------------------
(***************************************************************************)
(* Properties.                                                             *)
(***************************************************************************)

\* The clock and the counters are numbers, a bucket never overflows, and none
\* was touched in the future (rate_limit.rs 25-28).
TypeOK ==
    /\ now \in Nat /\ due \in Nat
    /\ DOMAIN buckets \subseteq Addresses
    /\ \A a \in DOMAIN buckets :
          /\ buckets[a].tokens \in 0..Capacity
          /\ buckets[a].last \in 0..now
    /\ since \in [Addresses -> Nat]
    /\ granted \in [Addresses -> Nat]
    /\ denied \in [Addresses -> Nat]

(***************************************************************************)
(* Whenever one begins to count, an address gets no more than a burst and  *)
(* what a minute's rate adds, however its bucket is forgotten and made     *)
(* anew in between (rate_limit.rs 46-71).                                  *)
(***************************************************************************)
BurstIsBounded ==
    \A a \in Addresses : granted[a] * Token <= Capacity + (now - since[a]) * Rate

(***************************************************************************)
(* The map does not grow for ever: a bucket is gone at the latest one      *)
(* period after it has been idle for IdleFor (rate_limit.rs 65-71,         *)
(* 95-103).                                                                *)
(***************************************************************************)
ForgottenInTime ==
    \A a \in DOMAIN buckets : now - buckets[a].last <= IdleFor + Period

\* The level an address really has, its bucket forgotten or not.
Level == [a \in Addresses |->
             IF a \in DOMAIN buckets THEN Refilled(buckets[a]) ELSE Capacity]

Eager == INSTANCE TokenBuckets WITH level <- Level

(***************************************************************************)
(* Lazy refills and forgotten buckets cannot be noticed: requests are let  *)
(* through and refused as if every address had a bucket, refilled at every *)
(* tick (rate_limit.rs 46-71).                                             *)
(***************************************************************************)
RefinesTokenBuckets == Eager!Spec
=============================================================================
