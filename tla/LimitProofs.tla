---------------------------- MODULE LimitProofs -----------------------------
(***************************************************************************)
(* Theorems about what bounds a rate: the refreshes of devices that traps  *)
(* and syslog messages ask for, and the requests that an address may make, *)
(* for any devices, processes and addresses and any limits.                *)
(***************************************************************************)
EXTENDS RefreshLimits, RateLimit, FiniteSetTheorems, WellFoundedInduction,
        TLAPS

(* A set of numbers has a least one: it is what a proof by induction over  *)
(* numbers, or over sizes of sets, starts from.                            *)
LEMMA LeastNumber ==
  ASSUME NEW S, S \subseteq Nat, S # {}
  PROVE  \E n \in S : \A m \in S : n <= m
<1> DEFINE R == OpToRel(<, Nat)
<1>1. PICK x \in S : \A y \in S : <<y, x>> \notin R
  <2> HIDE DEF R
  <2>1. IsWellFoundedOn(R, Nat)
    BY NatLessThanWellFounded, Zenon DEF R
  <2> QED
    BY <2>1, WFMin, Zenon
<1>2. \A y \in S : ~(y < x)
  BY <1>1 DEF OpToRel
<1> QED
  BY <1>2

-----------------------------------------------------------------------------
(* RefreshLimits.  The window has a place for each start that counts.      *)
StartsOf(st) == UNION {{d} \X (1 .. Len(st[d])) : d \in Target}

Since(st, t) == {x \in StartsOf(st) : st[x[1]][x[2]] >= t}

Between(st, t) == {x \in StartsOf(st) : st[x[1]][x[2]] \in t .. t + Minute}

RefreshTypeOK ==
  /\ second \in Second
  /\ last_scheduled \in [Target -> Int]
  /\ in_flight \subseteq Target
  /\ window \in Seq(Int)
  /\ running \in [Target -> Nat]
  /\ started \in [Target -> Seq(Nat)]

\* A place in the window for each start since a time.
HasPlaces(place, win, st, t) ==
  /\ place \in [Since(st, t) -> 1 .. Len(win)]
  /\ \A x \in Since(st, t) : win[place[x]] = st[x[1]][x[2]]
  /\ \A x, y \in Since(st, t) : place[x] = place[y] => x = y

Placed == \E place : HasPlaces(place, window, started, second - Minute)

OneAtATime == \A d \in Target :
  running[d] = IF d \in in_flight THEN 1 ELSE 0

Apart(times) ==
  \A i \in 2 .. Len(times) : times[i] - times[i - 1] >= Debounce

StartsApart == \A d \in Target :
  /\ Len(started[d]) > 0 => last_scheduled[d] = started[d][Len(started[d])]
  /\ Apart(started[d])

RateKept == \A t \in Second :
  /\ IsFiniteSet(Between(started, t))
  /\ Cardinality(Between(started, t)) <= MaxPerMinute

RefreshInv == RefreshTypeOK /\ Placed /\ OneAtATime /\ StartsApart /\ RateKept

LEMMA RefreshNumbers ==
  /\ Debounce \in Nat /\ Minute \in Nat /\ MaxPerMinute \in Nat /\ MaxSecond \in Nat
  /\ Second \subseteq Nat
BY RefreshAssumption DEF Second

\* What is left of the window when the old times are gone.
LEMMA WindowPruned ==
  ASSUME RefreshTypeOK
  PROVE  \E n \in 0 .. Len(window) :
           /\ \A i \in 1 .. n : window[i] < second - Minute
           /\ PrunedWindow = SubSeq(window, n + 1, Len(window))
<1> DEFINE S == {n \in 0 .. Len(window) : n < Len(window) => window[n + 1] >= second - Minute}
<1>1. Len(window) \in S /\ S \subseteq Nat /\ window \in Seq(Int) /\ Len(window) \in Nat
  BY DEF RefreshTypeOK
<1>2. PICK n \in S : \A m \in S : n <= m
  <2> HIDE DEF S
  <2> QED
    BY <1>1, LeastNumber
<1>3. \A i \in 1 .. n : window[i] < second - Minute
  <2> SUFFICES ASSUME NEW i \in 1 .. n PROVE window[i] < second - Minute
    OBVIOUS
  <2>1. n \in 0 .. Len(window) /\ i \in Nat /\ i - 1 \in Nat /\ i - 1 < n
    BY <1>1
  <2>2. i - 1 \notin S
    <3> HIDE DEF S
    <3> QED
      BY <1>2, <2>1
  <2>3. i - 1 \in 0 .. Len(window) /\ (i - 1) + 1 = i /\ window[i] \in Int
    BY <1>1, <2>1
  <2> QED
    BY <2>2, <2>3, RefreshNumbers DEF RefreshTypeOK
<1>4. \E m \in 0 .. Len(window) :
        /\ \A i \in 1 .. m : window[i] < second - Minute
        /\ m < Len(window) => window[m + 1] >= second - Minute
  BY <1>2, <1>3
<1> QED
  BY <1>4 DEF PrunedWindow

LEMMA RefreshInitInv == RefreshInit => RefreshInv
<1> SUFFICES ASSUME RefreshInit PROVE RefreshInv
  OBVIOUS
<1>1. RefreshTypeOK
  BY RefreshNumbers DEF RefreshInit, RefreshTypeOK, Second, Unscheduled
<1>2. StartsOf(started) = {} /\ \A t : Since(started, t) = {} /\ Between(started, t) = {}
  BY DEF RefreshInit, StartsOf, Since, Between
<1>3. Placed
  <2>1. HasPlaces([x \in {} |-> 1], window, started, second - Minute)
    BY <1>2 DEF HasPlaces
  <2> QED
    BY <2>1 DEF Placed
<1>4. RateKept
  BY <1>2, FS_EmptySet, RefreshNumbers DEF RateKept
<1> QED
  BY <1>1, <1>3, <1>4, RefreshNumbers DEF RefreshInv, OneAtATime, StartsApart, Apart, RefreshInit

LEMMA AppendKeepsApart ==
  ASSUME NEW times \in Seq(Nat), Apart(times), NEW t \in Nat,
         Len(times) > 0 => t - times[Len(times)] >= Debounce
  PROVE  Apart(Append(times, t))
<1> DEFINE longer == Append(times, t)
<1>1. /\ Len(longer) = Len(times) + 1 /\ longer[Len(times) + 1] = t
      /\ \A i \in 1 .. Len(times) : longer[i] = times[i]
      /\ Len(times) \in Nat
  OBVIOUS
<1> HIDE DEF longer
<1>2. ASSUME NEW i \in 2 .. Len(longer)
      PROVE  longer[i] - longer[i - 1] >= Debounce
  <2>1. i - 1 \in 1 .. Len(times) /\ longer[i - 1] = times[i - 1]
    BY <1>1
  <2>2. CASE i <= Len(times)
    <3>1. longer[i] = times[i] /\ i \in 2 .. Len(times)
      BY <1>1, <2>2
    <3> QED
      BY <2>1, <3>1 DEF Apart
  <2>3. CASE i = Len(times) + 1
    BY <1>1, <2>1, <2>3
  <2> QED
    BY <1>1, <2>2, <2>3
<1>3. QED
  BY <1>2 DEF Apart, longer

\* As many start in the last minute as the pruned window has places, at most.
LEMMA StartKeepsRefresh ==
  ASSUME RefreshInv, NEW d \in Target, StartRefresh(d)
  PROVE  RefreshInv'
<1> USE RefreshNumbers
<1> DEFINE k == Len(started[d]) + 1
           new == <<d, k>>
           cut == second - Minute
           old == Since(started, cut)
<1>1. PICK n \in 0 .. Len(window) :
        /\ \A i \in 1 .. n : window[i] < second - Minute
        /\ PrunedWindow = SubSeq(window, n + 1, Len(window))
  BY WindowPruned DEF RefreshInv
<1> DEFINE left == Len(window) - n
<1>2. /\ second \in Nat /\ cut \in Int /\ window \in Seq(Int) /\ left \in Nat
      /\ started \in [Target -> Seq(Nat)] /\ k \in Nat \ {0}
  BY DEF RefreshInv, RefreshTypeOK
<1>3. /\ PrunedWindow \in Seq(Int) /\ Len(PrunedWindow) = left
      /\ \A i \in 1 .. left : PrunedWindow[i] = window[n + i]
  BY <1>1, <1>2
<1>4. /\ left < MaxPerMinute
      /\ d \notin in_flight /\ second - last_scheduled[d] >= Debounce
      /\ second' = second
      /\ last_scheduled' = [last_scheduled EXCEPT ![d] = second]
      /\ in_flight' = in_flight \cup {d}
      /\ running' = [running EXCEPT ![d] = @ + 1]
      /\ started' = [started EXCEPT ![d] = Append(@, second)]
  BY <1>3 DEF StartRefresh, ShouldRefresh
<1>5. /\ window' \in Seq(Int) /\ Len(window') = left + 1
      /\ window'[left + 1] = second
      /\ \A i \in 1 .. left : window'[i] = window[n + i]
  BY <1>2, <1>3 DEF StartRefresh
<1>6. /\ started'[d] = Append(started[d], second)
      /\ \A e \in Target \ {d} : started'[e] = started[e]
      /\ started' \in [Target -> Seq(Nat)]
      /\ Len(started'[d]) = k /\ started'[d][k] = second
      /\ \A i \in 1 .. k - 1 : started'[d][i] = started[d][i]
  BY <1>2, <1>4
<1>7. /\ StartsOf(started') = StartsOf(started) \cup {new}
      /\ new \notin StartsOf(started)
      /\ started'[new[1]][new[2]] = second
      /\ \A x \in StartsOf(started) : /\ started'[x[1]][x[2]] = started[x[1]][x[2]]
                                       /\ started[x[1]][x[2]] \in Nat
  <2>1. \A e \in Target : 1 .. Len(started'[e]) =
          (1 .. Len(started[e])) \cup (IF e = d THEN {k} ELSE {})
    BY <1>2, <1>6
  <2>2. StartsOf(started') = StartsOf(started) \cup {new}
    BY <2>1 DEF StartsOf
  <2>3. new \notin StartsOf(started)
    BY <1>2 DEF StartsOf
  <2>4. ASSUME NEW x \in StartsOf(started)
        PROVE  /\ started'[x[1]][x[2]] = started[x[1]][x[2]]
               /\ started[x[1]][x[2]] \in Nat
    <3>1. x[1] \in Target /\ x[2] \in 1 .. Len(started[x[1]])
      BY DEF StartsOf
    <3>2. started[x[1]][x[2]] \in Nat
      BY <1>2, <3>1
    <3>3. CASE x[1] = d
      <4>1. x[2] \in 1 .. k - 1
        BY <1>2, <3>1, <3>3
      <4> QED
        BY <1>6, <3>2, <3>3, <4>1
    <3> QED
      BY <1>6, <3>1, <3>2, <3>3
  <2> QED
    BY <1>6, <2>2, <2>3, <2>4
<1> HIDE DEF new
<1>8. Since(started', cut) = old \cup {new} /\ new \notin old
  BY <1>2, <1>7 DEF Since
<1>9. PICK place : HasPlaces(place, window, started, cut)
  BY DEF RefreshInv, Placed
<1>10. ASSUME NEW x \in old
       PROVE  /\ place[x] - n \in 1 .. left /\ n + (place[x] - n) = place[x]
              /\ window[place[x]] = started'[x[1]][x[2]]
              /\ place[x] \in Int
  <2>1. place[x] \in 1 .. Len(window) /\ window[place[x]] = started[x[1]][x[2]]
    BY <1>9 DEF HasPlaces
  <2>2. started[x[1]][x[2]] >= cut /\ started'[x[1]][x[2]] = started[x[1]][x[2]]
    BY <1>7 DEF Since
  <2>3. place[x] > n
    BY <1>1, <1>2, <2>1, <2>2
  <2>4. place[x] \in Int /\ Len(window) \in Nat /\ n \in Int /\ place[x] <= Len(window)
    BY <1>2, <2>1
  <2> QED
    BY <2>1, <2>2, <2>3, <2>4
<1> DEFINE moved == [x \in old \cup {new} |->
                       IF x = new THEN left + 1 ELSE place[x] - n]
<1>11. /\ moved \in [old \cup {new} -> 1 .. left + 1]
       /\ \A x, y \in old \cup {new} : moved[x] = moved[y] => x = y
       /\ \A x \in old \cup {new} : window'[moved[x]] = started'[x[1]][x[2]]
  <2> HIDE DEF old, left
  <2>1. \A x, y \in old : place[x] = place[y] => x = y
    BY <1>9 DEF HasPlaces, old
  <2>2. moved[new] = left + 1 /\ \A x \in old : moved[x] = place[x] - n
    BY <1>8
  <2>3. \A x \in old \cup {new} : moved[x] \in 1 .. left + 1
    BY <1>2, <1>10, <2>2
  <2>4. \A x, y \in old \cup {new} : moved[x] = moved[y] => x = y
    BY <1>2, <1>10, <2>1, <2>2
  <2>5. window'[moved[new]] = started'[new[1]][new[2]]
    BY <1>5, <1>7, <2>2
  <2>6. \A x \in old : window'[moved[x]] = started'[x[1]][x[2]]
    BY <1>5, <1>10, <2>2
  <2> QED
    BY <2>3, <2>4, <2>5, <2>6
<1> HIDE DEF moved
<1>12. Placed'
  <2>1. second' - Minute = cut
    BY <1>4
  <2>2. HasPlaces(moved, window', started', second' - Minute)
    BY <1>5, <1>8, <1>11, <2>1 DEF HasPlaces
  <2> QED
    BY <2>2 DEF Placed
<1>13. /\ IsFiniteSet(Since(started', cut))
       /\ Cardinality(Since(started', cut)) \in Nat
       /\ Cardinality(Since(started', cut)) <= MaxPerMinute
  <2>1. IsFiniteSet(1 .. left + 1) /\ Cardinality(1 .. left + 1) = left + 1
    BY <1>2, FS_Interval
  <2>2. moved \in Injection(Since(started', cut), 1 .. left + 1)
    BY <1>8, <1>11 DEF Injection, IsInjective
  <2>3. /\ IsFiniteSet(Since(started', cut))
        /\ Cardinality(Since(started', cut)) <= Cardinality(1 .. left + 1)
    <3> HIDE DEF left, cut
    <3> QED
      BY <2>1, <2>2, FS_Injection, Zenon
  <2>4. Cardinality(Since(started', cut)) \in Nat
    BY <2>3, FS_CardinalityType
  <2> QED
    BY <1>2, <1>4, <2>1, <2>3, <2>4
<1>14. RateKept'
  <2> SUFFICES ASSUME NEW t \in Second
               PROVE  /\ IsFiniteSet(Between(started', t))
                      /\ Cardinality(Between(started', t)) <= MaxPerMinute
    BY DEF RateKept
  <2>1. CASE second \in t .. t + Minute
    <3>1. Between(started', t) \subseteq Since(started', cut)
      <4>1. t >= cut
        BY <1>2, <2>1
      <4>2. ASSUME NEW s \in t .. t + Minute
            PROVE  s >= cut
        BY <1>2, <4>1
      <4> QED
        BY <4>2 DEF Between, Since
    <3>2. /\ IsFiniteSet(Between(started', t))
          /\ Cardinality(Between(started', t)) <= Cardinality(Since(started', cut))
      BY <1>13, <3>1, FS_Subset
    <3> QED
      BY <1>13, <3>2, FS_CardinalityType
  <2>2. CASE second \notin t .. t + Minute
    <3>1. Between(started', t) = Between(started, t)
      BY <1>7, <2>2 DEF Between
    <3> QED
      BY <3>1 DEF RefreshInv, RateKept
  <2> QED
    BY <2>1, <2>2
<1>15. RefreshTypeOK'
  BY <1>2, <1>4, <1>5, <1>6 DEF RefreshInv, RefreshTypeOK
<1>16. OneAtATime'
  BY <1>4 DEF RefreshInv, RefreshTypeOK, OneAtATime
<1>17. StartsApart'
  <2>1. \A e \in Target \ {d} : /\ last_scheduled'[e] = last_scheduled[e]
                                /\ started'[e] = started[e]
    BY <1>4, <1>6 DEF RefreshInv, RefreshTypeOK
  <2>2. last_scheduled'[d] = started'[d][Len(started'[d])]
    BY <1>4, <1>6 DEF RefreshInv, RefreshTypeOK
  <2>3. Apart(started'[d])
    <3>1. started[d] \in Seq(Nat) /\ Apart(started[d])
      BY <1>2 DEF RefreshInv, StartsApart
    <3>2. Len(started[d]) > 0 => second - started[d][Len(started[d])] >= Debounce
      BY <1>4 DEF RefreshInv, StartsApart
    <3> QED
      BY <1>2, <1>6, <3>1, <3>2, AppendKeepsApart
  <2> QED
    BY <2>1, <2>2, <2>3 DEF RefreshInv, StartsApart
<1> QED
  BY <1>12, <1>14, <1>15, <1>16, <1>17 DEF RefreshInv

LEMMA SecondKeepsRefresh ==
  ASSUME RefreshInv, SecondPasses
  PROVE  RefreshInv'
<1> USE RefreshNumbers
<1> DEFINE early == Since(started, second + 1 - Minute)
<1>1. /\ second \in Nat /\ second' = second + 1 /\ second' \in Second
      /\ UNCHANGED <<last_scheduled, in_flight, window, running, started>>
  BY DEF SecondPasses, RefreshInv, RefreshTypeOK, Second
<1>2. \A x \in StartsOf(started) : started[x[1]][x[2]] \in Nat
  BY DEF RefreshInv, RefreshTypeOK, StartsOf
<1>3. early \subseteq Since(started, second - Minute)
  BY <1>1, <1>2 DEF Since
<1>4. Placed'
  <2>1. PICK place : HasPlaces(place, window, started, second - Minute)
    BY DEF RefreshInv, Placed
  <2>2. HasPlaces([x \in early |-> place[x]], window, started, second + 1 - Minute)
    BY <1>3, <2>1 DEF HasPlaces
  <2> QED
    BY <1>1, <2>2 DEF Placed
<1>5. StartsApart' /\ RefreshTypeOK' /\ OneAtATime' /\ RateKept'
  BY <1>1 DEF RefreshInv, RefreshTypeOK, StartsApart, OneAtATime, RateKept
<1> QED
  BY <1>4, <1>5 DEF RefreshInv

LEMMA RefreshStepInv == RefreshInv /\ [RefreshNext]_refresh_vars => RefreshInv'
<1> SUFFICES ASSUME RefreshInv, [RefreshNext]_refresh_vars
             PROVE  RefreshInv'
  OBVIOUS
<1>1. CASE UNCHANGED refresh_vars
  BY <1>1 DEF refresh_vars, RefreshInv, RefreshTypeOK, Placed, OneAtATime, StartsApart, RateKept
<1>2. ASSUME NEW d \in Target, EndRefresh(d)
      PROVE  RefreshInv'
  <2>1. UNCHANGED <<second, last_scheduled, window, started>>
    BY <1>2 DEF EndRefresh
  <2>2. Placed' /\ StartsApart' /\ RateKept'
    BY <2>1 DEF RefreshInv, Placed, StartsApart, RateKept
  <2>3. RefreshTypeOK' /\ OneAtATime'
    BY <1>2 DEF EndRefresh, RefreshInv, RefreshTypeOK, OneAtATime
  <2> QED
    BY <2>2, <2>3 DEF RefreshInv
<1> QED
  BY <1>1, <1>2, StartKeepsRefresh, SecondKeepsRefresh DEF RefreshNext

(* However announcements come and refreshes end, a device is refreshed by  *)
(* one task at a time, at least the debounce apart, and no more refreshes  *)
(* start in a minute than the rate allows (discovery_refresh.py).          *)
THEOREM RefreshesAreLimited == RefreshSpec => []RefreshesLimited
<1>1. RefreshInv => RefreshesLimited
  <2> SUFFICES ASSUME RefreshInv PROVE RefreshesLimited
    OBVIOUS
  <2>1. \A t \in Second : UNION {{d} \X StartsIn(d, t) : d \in Target} = Between(started, t)
    BY DEF Between, StartsOf, StartsIn
  <2>2. \A d \in Target : running[d] <= 1
    BY DEF RefreshInv, OneAtATime
  <2> QED
    BY <2>1, <2>2 DEF RefreshInv, RefreshesLimited, StartsApart, Apart, RateKept
<1> QED
  BY RefreshInitInv, RefreshStepInv, <1>1, PTL DEF RefreshSpec

-----------------------------------------------------------------------------
(* RateLimit.  A memory holds the times of the requests that it counted in *)
(* the last window; Redis, of those it was told of.                        *)
Request ==
  [by : Process, sent : Nat, address : Address \cup {NoAddress},
   at : {"remove", "add", "count", "executed", "not_asked"},
   store : {"none", "redis", "memory"}, counted : Nat, allowed : BOOLEAN]

RateTypeOK ==
  /\ now \in Time
  /\ IsFiniteSet(zset) /\ zset \subseteq Nat \X (Address \cup {NoAddress})
  /\ expires \in Nat
  /\ bucket \in [Process -> Seq(Nat)]
  /\ disabled \in [Process -> Nat]
  /\ req \in Seq(Request)

\* Where a request is, and where it is counted, at a time.
Consistent(x, t) ==
  /\ x.sent <= t /\ x.counted <= t
  /\ x.store = "none" => ~x.allowed /\ t <= x.sent + Delay
  /\ x.store = "redis" => x.at = "executed"
  /\ x.at = "executed" => x.store # "none"
  /\ x.at = "not_asked" => x.store = "memory"

AllConsistent == \A r \in DOMAIN req : Consistent(req[r], now)

MemberOf(x) == <<x.sent, x.address>>

Added(x) == x.at \in {"count", "executed"}

\* What is young enough is in the set, which outlives it.
Present == \A r \in DOMAIN req :
  Added(req[r]) /\ now < req[r].sent + Window => MemberOf(req[r]) \in Kept

Outlived == \A r \in DOMAIN req :
  req[r].at = "executed" => expires > req[r].sent + Window

\* A member is of a request that was added.
Owned == \A e \in Kept : \E q \in DOMAIN req :
  Added(req[q]) /\ MemberOf(req[q]) = e

\* A request that has removed what is old finds nothing that is, but what a
\* process added that has given up.
Late(rq, e) == \E q \in DOMAIN rq :
  rq[q].at # "not_asked" /\ rq[q].store = "memory" /\ MemberOf(rq[q]) = e

Fresh == \A r \in DOMAIN req : req[r].at \in {"add", "count"} =>
  \A e \in Kept : e[1] > req[r].sent - Window \/ Late(req, e)

\* The requests that the memory of p has counted since a time.
InMemory(rq, p, t) ==
  {r \in DOMAIN rq : rq[r].store = "memory" /\ rq[r].by = p /\ rq[r].counted >= t}

\* The times of a memory are of different requests, and of all since a time.
Holds(owner, times, rq, p, t) ==
  /\ owner \in [1 .. Len(times) -> DOMAIN rq]
  /\ \A i \in 1 .. Len(times) : /\ rq[owner[i]].store = "memory"
                                /\ rq[owner[i]].by = p
                                /\ rq[owner[i]].counted = times[i]
  /\ \A i, j \in 1 .. Len(times) : owner[i] = owner[j] => i = j
  /\ \A r \in InMemory(rq, p, t) : \E i \in 1 .. Len(times) : owner[i] = r

MemoryHolds == \A p \in Process :
  /\ \E owner : Holds(owner, bucket[p], req, p, now - Window)
  /\ \A i, j \in 1 .. Len(bucket[p]) : i <= j => bucket[p][i] <= bucket[p][j]

\* The requests Redis let through in a span, and those a memory did.
RedisLets(rq, t) ==
  {r \in DOMAIN rq : /\ rq[r].allowed /\ rq[r].store = "redis"
                     /\ rq[r].sent \in t .. t + Window - Delay - 1}

MemoryLets(rq, p, t) ==
  {r \in DOMAIN rq : /\ rq[r].allowed /\ rq[r].store = "memory" /\ rq[r].by = p
                     /\ rq[r].counted \in t .. t + Window}

Unique(rq) == \A q, r \in DOMAIN rq :
  q # r /\ rq[q].at # "not_asked" /\ rq[r].at # "not_asked"
    => MemberOf(rq[q]) # MemberOf(rq[r])

RedisBudget(rq) == Unique(rq) =>
  \A t \in Time : Cardinality(RedisLets(rq, t)) <= Limit

MemoryBudget(rq) == \A p \in Process, t \in Time :
  Cardinality(MemoryLets(rq, p, t)) <= Limit

\* The requests that r is refused for.
Causes(rq, r) ==
  IF rq[r].store = "redis"
    THEN {q \in DOMAIN rq \ {r} :
            /\ rq[q].at # "not_asked"
            /\ \/ rq[q].sent > rq[r].sent - Window
               \/ rq[q].store = "memory"}
    ELSE {q \in DOMAIN rq \ {r} :
            /\ rq[q].by = rq[r].by /\ rq[q].store = "memory"
            /\ rq[q].counted \in rq[r].counted - Window .. rq[r].counted}

Caused(rq) == \A r \in DOMAIN rq :
  rq[r].store # "none" /\ ~rq[r].allowed => Cardinality(Causes(rq, r)) >= Limit

RedisInv == Present /\ Outlived /\ Owned /\ Fresh

RateInv ==
  /\ RateTypeOK /\ AllConsistent /\ RedisInv /\ MemoryHolds
  /\ RedisBudget(req) /\ MemoryBudget(req) /\ Caused(req)

LEMMA RateNumbers ==
  /\ Limit \in Nat \ {0} /\ Window \in Nat \ {0} /\ Cooldown \in Nat /\ MaxNow \in Nat
  /\ Delay \in Nat /\ Delay < Window
  /\ Time \subseteq Nat /\ Never \in Nat /\ \A t \in Time : t + Window + 1 < Never
  /\ NoAddress \notin Address
BY RateLimitAssumption DEF Time, Never

\* A request keeps what it is, and what became of it once it was counted.
Extends(old, new) ==
  /\ DOMAIN old \subseteq DOMAIN new
  /\ \A q \in DOMAIN old :
       /\ new[q].by = old[q].by /\ new[q].sent = old[q].sent
       /\ new[q].address = old[q].address
       /\ (new[q].at = "not_asked") <=> (old[q].at = "not_asked")
       /\ old[q].store # "none" => /\ new[q].store = old[q].store
                                   /\ new[q].counted = old[q].counted
                                   /\ new[q].allowed = old[q].allowed

\* No request but r is counted.
NoneCounted(old, new, r) == \A q \in DOMAIN new \ {r} :
  \/ q \in DOMAIN old /\ new[q].store = old[q].store /\ new[q].allowed = old[q].allowed
  \/ q \notin DOMAIN old /\ new[q].store = "none" /\ ~new[q].allowed

LEMMA RequestsFinite ==
  ASSUME NEW rq \in Seq(Request)
  PROVE  /\ DOMAIN rq = 1 .. Len(rq) /\ Len(rq) \in Nat
         /\ \A r \in DOMAIN rq : rq[r] \in Request
         /\ \A S \in SUBSET DOMAIN rq : IsFiniteSet(S) /\ Cardinality(S) \in Nat
<1>1. DOMAIN rq = 1 .. Len(rq) /\ Len(rq) \in Nat /\ \A r \in DOMAIN rq : rq[r] \in Request
  OBVIOUS
<1>2. IsFiniteSet(1 .. Len(rq))
  BY <1>1, FS_Interval
<1> QED
  BY <1>1, <1>2, FS_Subset, FS_CardinalityType

LEMMA UniqueBefore ==
  ASSUME NEW old \in Seq(Request), NEW new \in Seq(Request), Extends(old, new), Unique(new)
  PROVE  Unique(old)
BY DEF Extends, Unique, MemberOf

\* What was refused for a cause stays so.
LEMMA CausesStay ==
  ASSUME NEW old \in Seq(Request), NEW new \in Seq(Request), Extends(old, new), Caused(old),
         NEW r \in DOMAIN old, old[r].store # "none", ~new[r].allowed
  PROVE  Cardinality(Causes(new, r)) >= Limit
<1>1. Causes(old, r) \subseteq Causes(new, r)
  BY DEF Extends, Causes
<1>2. Cardinality(Causes(old, r)) >= Limit
  BY DEF Extends, Caused
<1>3. Causes(new, r) \subseteq DOMAIN new /\ Causes(old, r) \subseteq DOMAIN old
  BY DEF Causes
<1>4. /\ Cardinality(Causes(new, r)) \in Nat /\ Cardinality(Causes(old, r)) \in Nat
      /\ IsFiniteSet(Causes(new, r))
  BY <1>3, RequestsFinite
<1>5. Cardinality(Causes(old, r)) <= Cardinality(Causes(new, r))
  BY <1>1, <1>4, FS_Subset
<1> QED
  BY <1>2, <1>4, <1>5, RateNumbers

\* The budgets and causes that a step leaves are those there were, but for
\* the request r that it counts.
LEMMA BudgetsStay ==
  ASSUME NEW old \in Seq(Request), NEW new \in Seq(Request), Extends(old, new),
         RedisBudget(old), MemoryBudget(old), Caused(old),
         NEW r, NoneCounted(old, new, r),
         \A q \in DOMAIN old : old[q].store = "none" => ~old[q].allowed,
         \A t \in Time : Unique(new) /\ r \in RedisLets(new, t)
                          => Cardinality(RedisLets(new, t)) <= Limit,
         \A p \in Process, t \in Time : r \in MemoryLets(new, p, t)
                          => Cardinality(MemoryLets(new, p, t)) <= Limit,
         r \in DOMAIN new /\ new[r].store # "none" /\ ~new[r].allowed
                          => Cardinality(Causes(new, r)) >= Limit
  PROVE  RedisBudget(new) /\ MemoryBudget(new) /\ Caused(new)
<1>1. \A t \in Time : r \notin RedisLets(new, t) => RedisLets(new, t) \subseteq RedisLets(old, t)
  BY DEF RedisLets, Extends, NoneCounted
<1>2. \A p \in Process, t \in Time :
        r \notin MemoryLets(new, p, t) => MemoryLets(new, p, t) \subseteq MemoryLets(old, p, t)
  BY DEF MemoryLets, Extends, NoneCounted
<1>3. RedisBudget(new)
  <2> SUFFICES ASSUME Unique(new), NEW t \in Time, r \notin RedisLets(new, t)
               PROVE  Cardinality(RedisLets(new, t)) <= Limit
    BY DEF RedisBudget
  <2>1. Cardinality(RedisLets(old, t)) <= Limit
    BY UniqueBefore DEF RedisBudget
  <2>2. RedisLets(old, t) \subseteq DOMAIN old /\ RedisLets(new, t) \subseteq DOMAIN new
    BY DEF RedisLets
  <2>3. /\ IsFiniteSet(RedisLets(old, t)) /\ Cardinality(RedisLets(old, t)) \in Nat
        /\ Cardinality(RedisLets(new, t)) \in Nat
    BY <2>2, RequestsFinite
  <2>4. Cardinality(RedisLets(new, t)) <= Cardinality(RedisLets(old, t))
    BY <1>1, <2>3, FS_Subset
  <2> QED
    BY <2>1, <2>3, <2>4, RateNumbers
<1>4. MemoryBudget(new)
  <2> SUFFICES ASSUME NEW p \in Process, NEW t \in Time, r \notin MemoryLets(new, p, t)
               PROVE  Cardinality(MemoryLets(new, p, t)) <= Limit
    BY DEF MemoryBudget
  <2>1. Cardinality(MemoryLets(old, p, t)) <= Limit
    BY DEF MemoryBudget
  <2>2. MemoryLets(old, p, t) \subseteq DOMAIN old /\ MemoryLets(new, p, t) \subseteq DOMAIN new
    BY DEF MemoryLets
  <2>3. /\ IsFiniteSet(MemoryLets(old, p, t)) /\ Cardinality(MemoryLets(old, p, t)) \in Nat
        /\ Cardinality(MemoryLets(new, p, t)) \in Nat
    BY <2>2, RequestsFinite
  <2>4. Cardinality(MemoryLets(new, p, t)) <= Cardinality(MemoryLets(old, p, t))
    BY <1>2, <2>3, FS_Subset
  <2> QED
    BY <2>1, <2>3, <2>4, RateNumbers
<1>5. Caused(new)
  <2> SUFFICES ASSUME NEW q \in DOMAIN new \ {r}, new[q].store # "none", ~new[q].allowed
               PROVE  Cardinality(Causes(new, q)) >= Limit
    BY DEF Caused
  <2>1. q \in DOMAIN old /\ old[q].store # "none"
    BY DEF NoneCounted
  <2> QED
    BY <2>1, CausesStay
<1> QED
  BY <1>3, <1>4, <1>5

-----------------------------------------------------------------------------
\* What is left of a memory when the old times are gone.
LEMMA TimesPruned ==
  ASSUME NEW times \in Seq(Nat), now \in Nat,
         \A i, j \in 1 .. Len(times) : i <= j => times[i] <= times[j]
  PROVE  \E n \in 0 .. Len(times) :
           /\ \A i \in 1 .. n : times[i] < now - Window
           /\ \A i \in n + 1 .. Len(times) : times[i] >= now - Window
           /\ Pruned(times) = SubSeq(times, n + 1, Len(times))
<1> DEFINE Stops(n) == n < Len(times) => times[n + 1] >= now - Window
           S == {n \in 0 .. Len(times) : Stops(n)}
<1>1. Len(times) \in S /\ S \subseteq Nat /\ Len(times) \in Nat
  OBVIOUS
<1>2. PICK n \in S : \A m \in S : n <= m
  <2> HIDE DEF S
  <2> QED
    BY <1>1, LeastNumber
<1>3. \A i \in 1 .. n : times[i] < now - Window
  <2> SUFFICES ASSUME NEW i \in 1 .. n PROVE times[i] < now - Window
    OBVIOUS
  <2>1. n \in 0 .. Len(times) /\ i \in Nat /\ i - 1 \in Nat /\ i - 1 < n
    BY <1>1
  <2>2. i - 1 \notin S
    <3> HIDE DEF S
    <3> QED
      BY <1>2, <2>1
  <2>3. i - 1 \in 0 .. Len(times) /\ (i - 1) + 1 = i /\ times[i] \in Nat
    BY <1>1, <2>1
  <2> QED
    BY <2>2, <2>3, RateNumbers
<1>4. PICK g \in 0 .. Len(times) :
        /\ \A i \in 1 .. g : times[i] < now - Window
        /\ g < Len(times) => times[g + 1] >= now - Window
        /\ Pruned(times) = SubSeq(times, g + 1, Len(times))
  <2>1. \E m \in 0 .. Len(times) :
          /\ \A i \in 1 .. m : times[i] < now - Window
          /\ m < Len(times) => times[m + 1] >= now - Window
    BY <1>2, <1>3
  <2> QED
    BY <2>1 DEF Pruned
<1>5. ASSUME NEW i \in g + 1 .. Len(times)
      PROVE  times[i] >= now - Window
  <2>1. times[g + 1] >= now - Window /\ g + 1 \in 1 .. Len(times) /\ i \in 1 .. Len(times)
    BY <1>1, <1>4
  <2>2. times[g + 1] <= times[i] /\ times[g + 1] \in Nat /\ times[i] \in Nat
    BY <1>1, <2>1
  <2> QED
    BY <2>1, <2>2, RateNumbers
<1> QED
  BY <1>4, <1>5

\* A memory holds what it held, whatever becomes of requests elsewhere.
LEMMA HoldsStill ==
  ASSUME NEW old \in Seq(Request), NEW new \in Seq(Request), Extends(old, new),
         NEW p, NEW times, NEW t \in Int, NEW u \in Int, t <= u,
         NEW owner, Holds(owner, times, old, p, t),
         \A q \in DOMAIN new : new[q].store = "memory" /\ new[q].by = p
                               => q \in DOMAIN old /\ old[q].store = "memory"
  PROVE  Holds(owner, times, new, p, u)
<1>1. InMemory(new, p, u) \subseteq InMemory(old, p, t)
  <2> SUFFICES ASSUME NEW q \in DOMAIN new, new[q].store = "memory", new[q].by = p,
                      new[q].counted >= u
               PROVE  q \in InMemory(old, p, t)
    BY DEF InMemory
  <2>1. q \in DOMAIN old /\ old[q].store = "memory"
    OBVIOUS
  <2>2. old[q].by = p /\ old[q].counted = new[q].counted
    BY <2>1 DEF Extends
  <2>3. new[q].counted \in Nat
    BY RequestsFinite DEF Request
  <2> QED
    BY <2>1, <2>2, <2>3 DEF InMemory
<1> QED
  BY <1>1 DEF Holds, Extends

\* A request that a memory counts: it holds all those of the last window,
\* and lets the request through just when they are not too many.
LEMMA MemoryCounts ==
  ASSUME RateTypeOK, AllConsistent, MemoryHolds,
         NEW p \in Process, NEW new \in Seq(Request), Extends(req, new),
         NEW r \in DOMAIN new, NoneCounted(req, new, r),
         r \in DOMAIN req => req[r].store = "none",
         new[r].store = "memory", new[r].by = p, new[r].counted = now,
         new[r].allowed = WithinLimit(Len(Counted(p))),
         \A q \in DOMAIN new : new[q].counted <= now
  PROVE  /\ Counted(p) \in Seq(Nat)
         /\ \E owner : Holds(owner, Counted(p), new, p, now - Window)
         /\ \A i, j \in 1 .. Len(Counted(p)) : i <= j => Counted(p)[i] <= Counted(p)[j]
         /\ \A s \in Process, t \in Time : r \in MemoryLets(new, s, t)
                          => Cardinality(MemoryLets(new, s, t)) <= Limit
         /\ ~new[r].allowed => Cardinality(Causes(new, r)) >= Limit
<1> USE RateNumbers
<1> DEFINE times == bucket[p]
<1>1. times \in Seq(Nat) /\ now \in Nat /\ req \in Seq(Request)
  BY DEF RateTypeOK
<1>2. \A i, j \in 1 .. Len(times) : i <= j => times[i] <= times[j]
  BY DEF MemoryHolds
<1>3. PICK n \in 0 .. Len(times) :
        /\ \A i \in 1 .. n : times[i] < now - Window
        /\ \A i \in n + 1 .. Len(times) : times[i] >= now - Window
        /\ Pruned(times) = SubSeq(times, n + 1, Len(times))
  BY <1>1, <1>2, TimesPruned
<1> DEFINE left == Len(times) - n
           counts == Counted(p)
<1>4. /\ left \in Nat /\ counts \in Seq(Nat) /\ Len(counts) = left + 1
      /\ counts[left + 1] = now
      /\ \A i \in 1 .. left : /\ counts[i] = times[i + n]
                              /\ i + n \in n + 1 .. Len(times)
                              /\ i + n \in 1 .. Len(times)
  <2>1. /\ Pruned(times) \in Seq(Nat) /\ Len(Pruned(times)) = left /\ left \in Nat
        /\ \A i \in 1 .. left : Pruned(times)[i] = times[i + n]
    <3>1. Pruned(times) = SubSeq(times, n + 1, Len(times))
      BY <1>3
    <3> HIDE DEF times
    <3>2. n \in 0 .. Len(times) /\ times \in Seq(Nat) /\ Len(times) \in Nat
      BY <1>1, <1>3 DEF times
    <3>3. /\ SubSeq(times, n + 1, Len(times)) \in Seq(Nat)
          /\ Len(SubSeq(times, n + 1, Len(times))) = left
          /\ \A i \in 1 .. left : SubSeq(times, n + 1, Len(times))[i] = times[i + n]
      BY <3>2
    <3> QED
      BY <3>1, <3>2, <3>3
  <2>2. counts = Append(Pruned(times), now)
    BY DEF Counted
  <2>3. \A i \in 1 .. left : i + n \in n + 1 .. Len(times) /\ i + n \in 1 .. Len(times)
    BY <1>1, <1>3
  <2> HIDE DEF times, left, counts
  <2> QED
    BY <1>1, <2>1, <2>2, <2>3
<1>5. PICK own : Holds(own, times, req, p, now - Window)
  BY DEF MemoryHolds
<1> DEFINE owner == [i \in 1 .. left + 1 |-> IF i = left + 1 THEN r ELSE own[i + n]]
<1> HIDE DEF times, left, counts
<1>6. /\ owner[left + 1] = r
      /\ \A i \in 1 .. left : owner[i] = own[i + n]
  BY <1>4
<1>7. ASSUME NEW i \in 1 .. left
      PROVE  /\ owner[i] \in DOMAIN req \ {r}
             /\ new[owner[i]].store = "memory" /\ new[owner[i]].by = p
             /\ new[owner[i]].counted = counts[i]
             /\ counts[i] \in Nat /\ counts[i] >= now - Window /\ counts[i] <= now
  <2>1. /\ own[i + n] \in DOMAIN req /\ req[own[i + n]].store = "memory"
        /\ req[own[i + n]].by = p /\ req[own[i + n]].counted = counts[i]
    BY <1>4, <1>5 DEF Holds
  <2>2. counts[i] \in Nat /\ counts[i] >= now - Window
    <3>1. counts[i] = times[i + n] /\ i + n \in n + 1 .. Len(times)
      BY <1>4
    <3>2. times[i + n] >= now - Window
      BY <1>3, <3>1 DEF times
    <3>3. i \in 1 .. Len(counts)
      BY <1>4
    <3>4. counts[i] \in Nat
      BY <1>4, <3>3
    <3> QED
      BY <3>1, <3>2, <3>4
  <2>3. counts[i] <= now
    BY <2>1 DEF AllConsistent, Consistent
  <2> QED
    BY <1>6, <2>1, <2>2, <2>3 DEF Extends
<1>8. \A i, j \in 1 .. left + 1 : owner[i] = owner[j] => i = j
  <2>1. \A i, j \in 1 .. left : owner[i] = owner[j] => i = j
    <3> SUFFICES ASSUME NEW i \in 1 .. left, NEW j \in 1 .. left, owner[i] = owner[j]
                 PROVE  i = j
      OBVIOUS
    <3>1. i + n = j + n
      <4>1. /\ own[i + n] = own[j + n]
            /\ i + n \in 1 .. Len(times) /\ j + n \in 1 .. Len(times)
        BY <1>4, <1>6
      <4> QED
        BY <1>5, <4>1 DEF Holds
    <3> QED
      BY <1>1, <1>4, <3>1
  <2>2. \A i \in 1 .. left + 1 : i # left + 1 => i \in 1 .. left
    BY <1>4
  <2> QED
    BY <1>6, <1>7, <2>1, <2>2
<1>9. ASSUME NEW q \in InMemory(new, p, now - Window)
      PROVE  \E i \in 1 .. left + 1 : owner[i] = q
  <2>1. CASE q = r
    <3>1. left + 1 \in 1 .. left + 1
      BY <1>4
    <3> QED
      BY <1>6, <2>1, <3>1
  <2>2. CASE q # r
    <3>1. q \in DOMAIN req /\ req[q].store = "memory"
      BY <2>2 DEF InMemory, NoneCounted
    <3>2. q \in InMemory(req, p, now - Window)
      BY <3>1 DEF InMemory, Extends
    <3>3. PICK i \in 1 .. Len(times) : own[i] = q
      BY <1>5, <3>2 DEF Holds
    <3>4. times[i] >= now - Window /\ times[i] \in Nat
      BY <1>1, <1>5, <3>2, <3>3 DEF Holds, InMemory
    <3>5. i > n
      <4>1. i \in Int /\ n \in Int /\ i >= 1
        BY <1>1, <1>3
      <4>2. ~(times[i] < now - Window)
        BY <1>1, <3>4
      <4>3. ~(i <= n)
        <5>1. i <= n => i \in 1 .. n
          BY <4>1
        <5> QED
          BY <1>3, <4>2, <5>1
      <4> QED
        BY <4>1, <4>3
    <3>6. i - n \in 1 .. left /\ (i - n) + n = i
      BY <1>1, <3>5 DEF left
    <3>7. owner[i - n] = q /\ i - n \in 1 .. left + 1
      BY <1>4, <1>6, <3>3, <3>6
    <3> QED
      BY <3>7
  <2> QED
    BY <2>1, <2>2
<1>10. Holds(owner, counts, new, p, now - Window)
  <2>1. ASSUME NEW i \in 1 .. left + 1
        PROVE  /\ owner[i] \in DOMAIN new /\ new[owner[i]].store = "memory"
               /\ new[owner[i]].by = p /\ new[owner[i]].counted = counts[i]
    <3>1. CASE i = left + 1
      BY <1>4, <1>6, <3>1
    <3>2. CASE i # left + 1
      <4>1. i \in 1 .. left
        BY <1>4, <3>2
      <4> QED
        BY <1>7, <4>1 DEF Extends
    <3> QED
      BY <3>1, <3>2
  <2> HIDE DEF owner
  <2>2. owner \in [1 .. left + 1 -> DOMAIN new]
    BY <2>1 DEF owner
  <2> QED
    BY <1>4, <1>8, <1>9, <2>1, <2>2 DEF Holds
<1>11. \A i, j \in 1 .. left + 1 : i <= j => counts[i] <= counts[j]
  <2> SUFFICES ASSUME NEW i \in 1 .. left + 1, NEW j \in 1 .. left + 1, i <= j
               PROVE  counts[i] <= counts[j]
    OBVIOUS
  <2>1. CASE j = left + 1
    <3>1. CASE i = left + 1
      BY <1>1, <1>4, <2>1, <3>1
    <3>2. CASE i # left + 1
      <4>1. i \in 1 .. left
        BY <1>4, <3>2
      <4> QED
        BY <1>4, <1>7, <2>1, <4>1
    <3> QED
      BY <3>1, <3>2
  <2>2. CASE j # left + 1
    <3>1. i \in 1 .. left /\ j \in 1 .. left
      BY <1>4, <2>2
    <3>2. i + n \in 1 .. Len(times) /\ j + n \in 1 .. Len(times)
      BY <1>4, <3>1
    <3>3. i + n <= j + n
      BY <1>4, <3>1
    <3> QED
      BY <1>2, <1>4, <3>1, <3>2, <3>3 DEF times
  <2> QED
    BY <2>1, <2>2
<1> HIDE DEF owner
<1>12. ASSUME NEW s \in Process, NEW t \in Time, r \in MemoryLets(new, s, t)
       PROVE  Cardinality(MemoryLets(new, s, t)) <= Limit
  <2> DEFINE L == MemoryLets(new, s, t)
             place == [q \in L |-> CHOOSE i \in 1 .. left + 1 : owner[i] = q]
  <2>1. s = p /\ now \in t .. t + Window /\ left + 1 <= Limit
    BY <1>4, <1>12 DEF MemoryLets, WithinLimit, counts
  <2>2. L \subseteq InMemory(new, p, now - Window)
    <3>1. t >= now - Window /\ t \in Nat
      BY <1>1, <2>1
    <3>2. ASSUME NEW c \in t .. t + Window
          PROVE  c >= now - Window
      BY <1>1, <3>1
    <3> QED
      BY <2>1, <3>2 DEF MemoryLets, InMemory
  <2>3. \A q \in L : place[q] \in 1 .. left + 1 /\ owner[place[q]] = q
    BY <1>9, <2>2
  <2>4. place \in Injection(L, 1 .. left + 1)
    <3> HIDE DEF L
    <3>1. place \in [L -> 1 .. left + 1]
      BY <2>3
    <3> QED
      BY <2>3, <3>1 DEF Injection, IsInjective
  <2>5. IsFiniteSet(1 .. left + 1) /\ Cardinality(1 .. left + 1) = left + 1
    BY <1>4, FS_Interval
  <2>6. Cardinality(L) <= left + 1
    BY <2>4, <2>5, FS_Injection
  <2>7. Cardinality(L) \in Nat
    BY RequestsFinite DEF MemoryLets
  <2> QED
    BY <1>4, <2>1, <2>6, <2>7
<1>13. ASSUME ~new[r].allowed
       PROVE  Cardinality(Causes(new, r)) >= Limit
  <2> DEFINE C == Causes(new, r)
  <2>1. left >= Limit
    <3>1. ~(Len(counts) <= Limit)
      BY <1>13 DEF WithinLimit, counts
    <3> QED
      BY <1>4, <3>1
  <2>2. \A i \in 1 .. left : owner[i] \in C
    <3> SUFFICES ASSUME NEW i \in 1 .. left PROVE owner[i] \in C
      OBVIOUS
    <3>1. /\ new[owner[i]].counted = counts[i] /\ counts[i] \in Nat
          /\ counts[i] >= now - Window /\ counts[i] <= now
      BY <1>7
    <3>3. new[owner[i]].counted \in now - Window .. now
      BY <1>1, <3>1
    <3>2. owner[i] \in DOMAIN new \ {r}
      BY <1>7 DEF Extends
    <3> QED
      BY <1>7, <3>2, <3>3 DEF Causes
  <2>3. IsFiniteSet(C) /\ Cardinality(C) \in Nat
    BY RequestsFinite DEF Causes
  <2>4. [i \in 1 .. left |-> owner[i]] \in Injection(1 .. left, C)
    <3>1. \A i, j \in 1 .. left : owner[i] = owner[j] => i = j
      BY <1>4, <1>8
    <3> HIDE DEF C
    <3> QED
      BY <2>2, <3>1 DEF Injection, IsInjective
  <2>5. Cardinality(1 .. left) <= Cardinality(C)
    BY <2>3, <2>4, FS_Injection
  <2>6. Cardinality(1 .. left) = left
    BY <1>4, FS_Interval
  <2> QED
    BY <1>4, <2>1, <2>3, <2>5, <2>6
<1> QED
  BY <1>4, <1>10, <1>11, <1>12, <1>13 DEF counts

-----------------------------------------------------------------------------
LEMMA RateInitInv == RateInit => RateInv
<1> SUFFICES ASSUME RateInit PROVE RateInv
  OBVIOUS
<1> USE RateNumbers
<1>1. RateTypeOK
  BY FS_EmptySet DEF RateInit, RateTypeOK, Time
<1>2. AllConsistent /\ RedisInv
  BY DEF RateInit, AllConsistent, RedisInv, Present, Outlived, Owned, Fresh, Kept
<1>3. MemoryHolds
  <2> SUFFICES ASSUME NEW p \in Process
               PROVE  \E owner : Holds(owner, bucket[p], req, p, now - Window)
    BY DEF MemoryHolds, RateInit
  <2>1. Holds([i \in {} |-> 1], bucket[p], req, p, now - Window)
    BY DEF Holds, InMemory, RateInit
  <2> QED
    BY <2>1
<1>4. /\ \A t : RedisLets(req, t) = {}
      /\ \A p, t : MemoryLets(req, p, t) = {}
  BY DEF RateInit, RedisLets, MemoryLets
<1>5. RedisBudget(req) /\ MemoryBudget(req) /\ Caused(req)
  <2>1. Cardinality({}) <= Limit
    BY FS_EmptySet
  <2>2. RedisBudget(req) /\ MemoryBudget(req)
    BY <1>4, <2>1 DEF RedisBudget, MemoryBudget
  <2>3. DOMAIN req = {}
    BY DEF RateInit
  <2> QED
    BY <2>2, <2>3 DEF Caused
<1> QED
  BY <1>1, <1>2, <1>3, <1>5 DEF RateInv

\* What Redis holds is as it was as long as it executes nothing.
LEMMA RedisIdle ==
  ASSUME RedisInv, RateTypeOK, UNCHANGED <<now, zset, expires>>,
         Extends(req, req'),
         \A q \in DOMAIN req : req'[q].at = req[q].at,
         \A q \in DOMAIN req' \ DOMAIN req : req'[q].at \in {"remove", "not_asked"}
  PROVE  RedisInv'
<1>1. Kept' = Kept
  BY DEF Kept
<1>2. \A q \in DOMAIN req : MemberOf(req'[q]) = MemberOf(req[q]) /\ q \in DOMAIN req'
  BY DEF Extends, MemberOf
<1>3. \A e : Late(req, e) => Late(req', e)
  BY <1>2 DEF Late, Extends
<1>4. Present' /\ Outlived'
  BY <1>1, <1>2 DEF RedisInv, Present, Outlived, Added, Extends
<1>5. Owned'
  BY <1>1, <1>2 DEF RedisInv, Owned, Added
<1>6. Fresh'
  <2> SUFFICES ASSUME NEW r \in DOMAIN req', req'[r].at \in {"add", "count"}, NEW e \in Kept
               PROVE  e[1] > req'[r].sent - Window \/ Late(req', e)
    BY <1>1 DEF Fresh
  <2>1. r \in DOMAIN req /\ req[r].at \in {"add", "count"}
    OBVIOUS
  <2> QED
    BY <1>3, <2>1 DEF RedisInv, Fresh, Extends
<1> QED
  BY <1>4, <1>5, <1>6 DEF RedisInv

\* A request that is new.
LEMMA Appended ==
  ASSUME RateTypeOK, NEW x \in Request, req' = Append(req, x)
  PROVE  /\ req' \in Seq(Request) /\ DOMAIN req' = DOMAIN req \cup {Len(req) + 1}
         /\ Len(req) + 1 \notin DOMAIN req /\ req'[Len(req) + 1] = x
         /\ \A q \in DOMAIN req : req'[q] = req[q]
         /\ Extends(req, req')
<1>1. req \in Seq(Request) /\ Len(req) \in Nat /\ DOMAIN req = 1 .. Len(req)
  BY DEF RateTypeOK
<1>2. /\ req' \in Seq(Request) /\ Len(req') = Len(req) + 1
      /\ req'[Len(req) + 1] = x
      /\ \A q \in 1 .. Len(req) : req'[q] = req[q]
  BY <1>1
<1>3. DOMAIN req' = 1 .. Len(req) + 1
  BY <1>2
<1> QED
  BY <1>1, <1>2, <1>3 DEF Extends

\* A request of which something changes.
LEMMA Changed ==
  ASSUME RateTypeOK, NEW r \in DOMAIN req, NEW x \in Request,
         req' = [req EXCEPT ![r] = x],
         x.by = req[r].by, x.sent = req[r].sent, x.address = req[r].address,
         x.at = "not_asked" <=> req[r].at = "not_asked",
         req[r].store # "none" => /\ x.store = req[r].store /\ x.counted = req[r].counted
                                  /\ x.allowed = req[r].allowed
  PROVE  /\ req' \in Seq(Request) /\ DOMAIN req' = DOMAIN req
         /\ req'[r] = x /\ \A q \in DOMAIN req \ {r} : req'[q] = req[q]
         /\ Extends(req, req')
<1>1. req \in Seq(Request) /\ Len(req) \in Nat /\ DOMAIN req = 1 .. Len(req)
  BY DEF RateTypeOK
<1>2. req' \in Seq(Request) /\ DOMAIN req' = DOMAIN req
  BY <1>1
<1>3. req'[r] = x /\ \A q \in DOMAIN req \ {r} : req'[q] = req[q]
  BY <1>1
<1> QED
  BY <1>2, <1>3 DEF Extends

\* All memories hold what they held when none of them counts.
LEMMA MemoriesIdle ==
  ASSUME RateTypeOK, MemoryHolds, req' \in Seq(Request), Extends(req, req'),
         bucket' = bucket, now' \in Nat, now <= now',
         \A q \in DOMAIN req' : req'[q].store = "memory"
                               => q \in DOMAIN req /\ req[q].store = "memory"
  PROVE  MemoryHolds'
<1>1. now - Window \in Int /\ now' - Window \in Int /\ now - Window <= now' - Window
  <2>1. now \in Nat /\ Window \in Nat
    BY RateNumbers DEF RateTypeOK
  <2>2. \A a, b, w \in Nat : a <= b => a - w \in Int /\ b - w \in Int /\ a - w <= b - w
    OBVIOUS
  <2> QED
    BY ONLY <2>1, <2>2, now' \in Nat, now <= now'
<1>2. ASSUME NEW p \in Process
      PROVE  \E owner : Holds(owner, bucket[p], req', p, now' - Window)
  <2>1. PICK owner : Holds(owner, bucket[p], req, p, now - Window)
    BY DEF MemoryHolds
  <2>2. Holds(owner, bucket[p], req', p, now' - Window)
    BY <1>1, <2>1, HoldsStill DEF RateTypeOK
  <2> QED
    BY <2>2
<1> QED
  BY <1>2 DEF MemoryHolds

LEMMA SendKeeps ==
  ASSUME RateInv, NEW p \in Process, Send(p)
  PROVE  RateInv'
<1> USE RateNumbers
<1>1. PICK a \in Address :
        req' = Append(req, [by |-> p, sent |-> now, address |-> a, at |-> "remove",
                            store |-> "none", counted |-> 0, allowed |-> FALSE])
  BY DEF Send
<1> DEFINE x == [by |-> p, sent |-> now, address |-> a, at |-> "remove",
                 store |-> "none", counted |-> 0, allowed |-> FALSE]
<1>2. UNCHANGED <<now, zset, expires, bucket, disabled>> /\ now \in Nat
  BY DEF Send, RateInv, RateTypeOK
<1>3. x \in Request
  BY <1>2 DEF Request
<1>4. /\ req' \in Seq(Request) /\ DOMAIN req' = DOMAIN req \cup {Len(req) + 1}
      /\ Len(req) + 1 \notin DOMAIN req /\ req'[Len(req) + 1] = x
      /\ \A q \in DOMAIN req : req'[q] = req[q]
      /\ Extends(req, req')
  BY <1>1, <1>3, Appended DEF RateInv
<1>5. RateTypeOK' /\ AllConsistent'
  BY <1>2, <1>4 DEF RateInv, RateTypeOK, AllConsistent, Consistent
<1>6. RedisInv'
  BY <1>2, <1>4, RedisIdle DEF RateInv
<1>7. MemoryHolds'
  BY <1>2, <1>4, MemoriesIdle DEF RateInv
<1>8. RedisBudget(req') /\ MemoryBudget(req') /\ Caused(req')
  <2>1. NoneCounted(req, req', Len(req) + 1)
    BY <1>4 DEF NoneCounted
  <2>2. \A q \in DOMAIN req : req[q].store = "none" => ~req[q].allowed
    BY DEF RateInv, AllConsistent, Consistent
  <2>3. /\ \A t : Len(req) + 1 \notin RedisLets(req', t)
        /\ \A s, t : Len(req) + 1 \notin MemoryLets(req', s, t)
        /\ req'[Len(req) + 1].store = "none"
    BY <1>4 DEF RedisLets, MemoryLets
  <2>4. req \in Seq(Request) /\ RedisBudget(req) /\ MemoryBudget(req) /\ Caused(req)
    BY DEF RateInv, RateTypeOK
  <2> HIDE DEF x
  <2> QED
    BY <1>4, <2>1, <2>2, <2>3, <2>4, BudgetsStay
<1> QED
  BY <1>5, <1>6, <1>7, <1>8 DEF RateInv

\* A request that a memory counts, be it new or given up.
LEMMA MemoryStep ==
  ASSUME RateInv, NEW p \in Process, UNCHANGED <<now, zset, expires>>,
         disabled' \in [Process -> Nat],
         bucket' = [bucket EXCEPT ![p] = Counted(p)],
         req' \in Seq(Request), Extends(req, req'),
         NEW r \in DOMAIN req', NoneCounted(req, req', r),
         r \in DOMAIN req => req[r].store = "none",
         req'[r].store = "memory", req'[r].by = p, req'[r].counted = now,
         req'[r].allowed = WithinLimit(Len(Counted(p))),
         \A q \in DOMAIN req' : Consistent(req'[q], now),
         \A q \in DOMAIN req : req'[q].at = req[q].at,
         \A q \in DOMAIN req' \ DOMAIN req : req'[q].at \in {"remove", "not_asked"}
  PROVE  RateInv'
<1> USE RateNumbers
<1>1. /\ Counted(p) \in Seq(Nat)
      /\ \E owner : Holds(owner, Counted(p), req', p, now - Window)
      /\ \A i, j \in 1 .. Len(Counted(p)) : i <= j => Counted(p)[i] <= Counted(p)[j]
      /\ \A s \in Process, t \in Time : r \in MemoryLets(req', s, t)
                       => Cardinality(MemoryLets(req', s, t)) <= Limit
      /\ ~req'[r].allowed => Cardinality(Causes(req', r)) >= Limit
  <2>1. \A q \in DOMAIN req' : req'[q].counted <= now
    BY DEF Consistent
  <2> QED
    BY <2>1, MemoryCounts DEF RateInv
<1>2. bucket \in [Process -> Seq(Nat)] /\ now \in Nat
  BY DEF RateInv, RateTypeOK
<1>3. bucket'[p] = Counted(p) /\ \A s \in Process \ {p} : bucket'[s] = bucket[s]
  BY <1>2
<1>4. RateTypeOK' /\ AllConsistent'
  BY <1>1, <1>2 DEF RateInv, RateTypeOK, AllConsistent
<1>5. RedisInv'
  BY RedisIdle DEF RateInv
<1>6. MemoryHolds'
  <2> SUFFICES ASSUME NEW s \in Process \ {p}
               PROVE  /\ \E owner : Holds(owner, bucket[s], req', s, now - Window)
                      /\ \A i, j \in 1 .. Len(bucket[s]) : i <= j => bucket[s][i] <= bucket[s][j]
    BY <1>1, <1>3 DEF MemoryHolds
  <2>1. PICK owner : Holds(owner, bucket[s], req, s, now - Window)
    BY DEF RateInv, MemoryHolds
  <2>2. \A q \in DOMAIN req' : req'[q].store = "memory" /\ req'[q].by = s
                               => q \in DOMAIN req /\ req[q].store = "memory"
    BY DEF NoneCounted
  <2>3. Holds(owner, bucket[s], req', s, now - Window)
    <3>1. now - Window \in Int /\ now - Window <= now - Window /\ req \in Seq(Request)
      BY <1>2 DEF RateInv, RateTypeOK
    <3> QED
      BY <2>1, <2>2, <3>1, HoldsStill
  <2> QED
    BY <2>3 DEF RateInv, MemoryHolds
<1>7. RedisBudget(req') /\ MemoryBudget(req') /\ Caused(req')
  <2>1. \A q \in DOMAIN req : req[q].store = "none" => ~req[q].allowed
    BY DEF RateInv, AllConsistent, Consistent
  <2>2. \A t : r \notin RedisLets(req', t)
    BY DEF RedisLets
  <2> QED
    BY <1>1, <2>1, <2>2, BudgetsStay DEF RateInv, RateTypeOK
<1> QED
  BY <1>4, <1>5, <1>6, <1>7 DEF RateInv

LEMMA CountedTyped ==
  ASSUME RateInv, NEW p \in Process
  PROVE  WithinLimit(Len(Counted(p))) \in BOOLEAN
BY DEF WithinLimit

LEMMA CountLocallyKeeps ==
  ASSUME RateInv, NEW p \in Process, CountLocally(p)
  PROVE  RateInv'
<1> USE RateNumbers
<1> DEFINE x == [by |-> p, sent |-> now, address |-> NoAddress, at |-> "not_asked",
                 store |-> "memory", counted |-> now,
                 allowed |-> WithinLimit(Len(Counted(p)))]
           r == Len(req) + 1
<1>1. /\ req' = Append(req, x) /\ bucket' = [bucket EXCEPT ![p] = Counted(p)]
      /\ UNCHANGED <<now, zset, expires, disabled>> /\ now \in Nat
  BY DEF CountLocally, RateInv, RateTypeOK
<1>2. x \in Request
  BY <1>1, CountedTyped DEF Request
<1>3. /\ req' \in Seq(Request) /\ DOMAIN req' = DOMAIN req \cup {r}
      /\ r \notin DOMAIN req /\ req'[r] = x
      /\ \A q \in DOMAIN req : req'[q] = req[q]
      /\ Extends(req, req')
  BY <1>1, <1>2, Appended DEF RateInv
<1>4. NoneCounted(req, req', r)
  BY <1>3 DEF NoneCounted
<1>5. \A q \in DOMAIN req' : Consistent(req'[q], now)
  BY <1>1, <1>3 DEF RateInv, AllConsistent, Consistent
<1>6. disabled' \in [Process -> Nat]
  BY <1>1 DEF RateInv, RateTypeOK
<1>7. /\ req'[r].store = "memory" /\ req'[r].by = p /\ req'[r].counted = now
      /\ req'[r].allowed = WithinLimit(Len(Counted(p))) /\ req'[r].at = "not_asked"
  BY <1>3
<1> HIDE DEF x, r
<1> QED
  BY <1>1, <1>3, <1>4, <1>5, <1>6, <1>7, MemoryStep

LEMMA AbandonKeeps ==
  ASSUME RateInv, NEW r \in DOMAIN req, Abandon(r)
  PROVE  RateInv'
<1> USE RateNumbers
<1> DEFINE p == req[r].by
           x == [req[r] EXCEPT !.store = "memory", !.counted = now,
                               !.allowed = WithinLimit(Len(Counted(p)))]
<1>1. /\ req' = [req EXCEPT ![r] = x] /\ bucket' = [bucket EXCEPT ![p] = Counted(p)]
      /\ disabled' = [disabled EXCEPT ![p] = now + Cooldown]
      /\ UNCHANGED <<now, zset, expires>> /\ now \in Nat
      /\ req[r] \in Request /\ req[r].store = "none"
  <2>1. req \in Seq(Request) /\ now \in Nat
    BY DEF RateInv, RateTypeOK
  <2>2. req[r] \in Request
    BY <2>1, RequestsFinite
  <2>3. req' = [req EXCEPT ![r].store = "memory", ![r].counted = now,
                           ![r].allowed = WithinLimit(Len(Counted(p)))]
    BY DEF Abandon
  <2>4. req' = [req EXCEPT ![r] = x]
    BY <2>1, <2>2, <2>3, Zenon
  <2> QED
    BY <2>1, <2>2, <2>4 DEF Abandon, Waiting
<1>2. /\ x \in Request /\ p \in Process
      /\ x.by = p /\ x.sent = req[r].sent /\ x.address = req[r].address /\ x.at = req[r].at
      /\ x.store = "memory" /\ x.counted = now /\ x.allowed = WithinLimit(Len(Counted(p)))
  BY <1>1, CountedTyped DEF Request
<1> HIDE DEF x, p
<1>3. /\ req' \in Seq(Request) /\ DOMAIN req' = DOMAIN req
      /\ req'[r] = x /\ \A q \in DOMAIN req \ {r} : req'[q] = req[q]
      /\ Extends(req, req')
  BY <1>1, <1>2, Changed DEF RateInv, p
<1>4. NoneCounted(req, req', r)
  BY <1>3 DEF NoneCounted
<1>5. \A q \in DOMAIN req' : Consistent(req'[q], now)
  BY <1>1, <1>2, <1>3 DEF RateInv, AllConsistent, Consistent
<1>6. disabled' \in [Process -> Nat]
  BY <1>1, <1>2 DEF RateInv, RateTypeOK
<1>7. \A q \in DOMAIN req : req'[q].at = req[q].at
  BY <1>2, <1>3
<1> QED
  BY <1>1, <1>2, <1>3, <1>4, <1>5, <1>6, <1>7, MemoryStep

\* The set that a command leaves is the one that the next command finds.
LEMMA SetKept ==
  ASSUME RateInv, NEW S, Keeps(S), now' = now, IsFiniteSet(S),
         S \subseteq Nat \X (Address \cup {NoAddress})
  PROVE  /\ Kept' = S /\ zset' = S /\ expires' \in Nat
         /\ expires' \in {Never, expires}
<1> USE RateNumbers
<1>1. now \in Time /\ expires \in Nat
  BY DEF RateInv, RateTypeOK
<1>2. zset' = S /\ expires' = IF Kept = {} \/ S = {} THEN Never ELSE expires
  BY DEF Keeps
<1>3. expires' \in Nat /\ expires' \in {Never, expires}
  BY <1>1, <1>2
<1>4. Kept # {} => now < expires
  BY DEF Kept
<1>5. Kept' = IF now < expires' THEN S ELSE {}
  BY <1>2 DEF Kept
<1>6. now < Never
  BY <1>1 DEF Time
<1> QED
  BY <1>2, <1>3, <1>4, <1>5, <1>6

LEMMA KeptTyped ==
  ASSUME RateInv
  PROVE  IsFiniteSet(Kept) /\ Kept \subseteq Nat \X (Address \cup {NoAddress})
BY FS_EmptySet DEF RateInv, RateTypeOK, Kept

\* Redis executes a command of a request, and nobody has the answer yet.
LEMMA Advances ==
  ASSUME RateInv, NEW r \in DOMAIN req, req[r].at \in {"remove", "add", "count"},
         NEW a \in {"add", "count", "executed"}, a = "executed" => req[r].store # "none",
         req' = [req EXCEPT ![r] = [@ EXCEPT !.at = a]],
         UNCHANGED <<now, bucket, disabled>>
  PROVE  /\ req' \in Seq(Request) /\ DOMAIN req' = DOMAIN req /\ Extends(req, req')
         /\ req'[r].at = a /\ \A q \in DOMAIN req \ {r} : req'[q].at = req[q].at
         /\ AllConsistent' /\ MemoryHolds'
         /\ RedisBudget(req') /\ MemoryBudget(req') /\ Caused(req')
<1> USE RateNumbers
<1> DEFINE x == [req[r] EXCEPT !.at = a]
<1>1. req \in Seq(Request) /\ now \in Nat /\ req[r] \in Request
  BY RequestsFinite DEF RateInv, RateTypeOK
<1>2. /\ x \in Request /\ x.by = req[r].by /\ x.sent = req[r].sent
      /\ x.address = req[r].address /\ x.at = a /\ x.store = req[r].store
      /\ x.counted = req[r].counted /\ x.allowed = req[r].allowed
  BY <1>1 DEF Request
<1>3. req' = [req EXCEPT ![r] = x]
  OBVIOUS
<1> HIDE DEF x
<1>4. /\ req' \in Seq(Request) /\ DOMAIN req' = DOMAIN req
      /\ req'[r] = x /\ \A q \in DOMAIN req \ {r} : req'[q] = req[q]
      /\ Extends(req, req')
  BY <1>2, <1>3, Changed DEF RateInv
<1>5. \A q \in DOMAIN req : /\ req'[q].store = req[q].store /\ req'[q].allowed = req[q].allowed
                            /\ req'[q].counted = req[q].counted
  BY <1>2, <1>4
<1>6. AllConsistent'
  <2>1. \A q \in DOMAIN req : Consistent(req[q], now)
    BY DEF RateInv, AllConsistent
  <2>2. Consistent(x, now)
    BY <1>2, <2>1 DEF Consistent
  <2> QED
    BY <1>4, <2>1, <2>2 DEF AllConsistent
<1>7. MemoryHolds'
  BY <1>1, <1>4, <1>5, MemoriesIdle DEF RateInv
<1>8. RedisBudget(req') /\ MemoryBudget(req') /\ Caused(req')
  <2>1. NoneCounted(req, req', 0)
    BY <1>4, <1>5 DEF NoneCounted
  <2>2. \A q \in DOMAIN req : req[q].store = "none" => ~req[q].allowed
    BY DEF RateInv, AllConsistent, Consistent
  <2>3. 0 \notin DOMAIN req'
    BY <1>4, RequestsFinite
  <2>4. /\ \A t : 0 \notin RedisLets(req', t)
        /\ \A s, t : 0 \notin MemoryLets(req', s, t)
    BY <2>3 DEF RedisLets, MemoryLets
  <2>5. RedisBudget(req) /\ MemoryBudget(req) /\ Caused(req)
    BY DEF RateInv
  <2> QED
    BY <1>1, <1>4, <2>1, <2>2, <2>3, <2>4, <2>5, BudgetsStay
<1> QED
  BY <1>2, <1>4, <1>6, <1>7, <1>8

LEMMA RemoveOldKeeps ==
  ASSUME RateInv, NEW r \in DOMAIN req, RemoveOld(r)
  PROVE  RateInv'
<1> USE RateNumbers
<1> DEFINE S == {e \in Kept : e[1] > req[r].sent - Window}
<1>1. /\ Keeps(S) /\ UNCHANGED <<now, bucket, disabled>> /\ req[r].at = "remove"
      /\ req' = [req EXCEPT ![r] = [@ EXCEPT !.at = "add"]]
  BY DEF RemoveOld
<1>2. IsFiniteSet(S) /\ S \subseteq Nat \X (Address \cup {NoAddress}) /\ S \subseteq Kept
  BY KeptTyped, FS_Subset
<1>3. \A e \in Kept : e \in S <=> e[1] > req[r].sent - Window
  OBVIOUS
<1> HIDE DEF S
<1>4. Kept' = S /\ zset' = S /\ expires' \in Nat /\ expires' \in {Never, expires}
  BY <1>1, <1>2, SetKept
<1>5. /\ req' \in Seq(Request) /\ DOMAIN req' = DOMAIN req /\ Extends(req, req')
      /\ req'[r].at = "add" /\ \A q \in DOMAIN req \ {r} : req'[q].at = req[q].at
      /\ AllConsistent' /\ MemoryHolds'
      /\ RedisBudget(req') /\ MemoryBudget(req') /\ Caused(req')
  BY <1>1, Advances
<1>6. RateTypeOK'
  BY <1>1, <1>2, <1>4, <1>5 DEF RateInv, RateTypeOK
<1>7. \A q \in DOMAIN req : /\ req'[q].sent = req[q].sent /\ MemberOf(req'[q]) = MemberOf(req[q])
                            /\ req[q].sent \in Nat /\ req[q].sent <= now
  BY <1>5, RequestsFinite DEF Extends, MemberOf, Request, RateInv, RateTypeOK, AllConsistent, Consistent
<1>8. now \in Time
  BY DEF RateInv, RateTypeOK
<1>9. Present'
  <2> SUFFICES ASSUME NEW q \in DOMAIN req, Added(req'[q]), now < req[q].sent + Window
               PROVE  MemberOf(req[q]) \in S
    BY <1>1, <1>4, <1>5, <1>7 DEF Present
  <2>1. Added(req[q])
    BY <1>5 DEF Added
  <2>2. MemberOf(req[q]) \in Kept /\ MemberOf(req[q])[1] = req[q].sent
    BY <2>1 DEF RateInv, RedisInv, Present, MemberOf
  <2>3. req[q].sent > req[r].sent - Window
    <3>1. req[q].sent \in Nat /\ req[r].sent \in Nat /\ req[r].sent <= now /\ now \in Nat
      BY <1>7, <1>8
    <3>2. \A m, n, t, w \in Nat : t < m + w /\ n <= t => m > n - w
      OBVIOUS
    <3> QED
      BY ONLY <3>1, <3>2, RateNumbers, now < req[q].sent + Window
  <2> QED
    BY <1>3, <2>2, <2>3
<1>10. Outlived'
  <2> SUFFICES ASSUME NEW q \in DOMAIN req, req'[q].at = "executed"
               PROVE  expires' > req[q].sent + Window
    BY <1>5, <1>7 DEF Outlived
  <2>1. expires > req[q].sent + Window /\ expires \in Nat
    BY <1>5 DEF RateInv, RedisInv, Outlived, RateTypeOK
  <2>2. Never > req[q].sent + Window
    BY <1>7, <1>8 DEF Never, Time
  <2> QED
    BY <1>4, <2>1, <2>2
<1>11. Owned'
  BY <1>1, <1>2, <1>4, <1>5, <1>7 DEF RateInv, RedisInv, Owned, Added
<1>12. Fresh'
  <2> SUFFICES ASSUME NEW q \in DOMAIN req, req'[q].at \in {"add", "count"}, NEW e \in S
               PROVE  e[1] > req[q].sent - Window \/ Late(req', e)
    BY <1>4, <1>5, <1>7 DEF Fresh
  <2>1. CASE q = r
    BY <1>2, <1>3, <2>1
  <2>2. CASE q # r
    <3>1. e[1] > req[q].sent - Window \/ Late(req, e)
      BY <1>2, <1>5, <2>2 DEF RateInv, RedisInv, Fresh
    <3>2. Late(req, e) => Late(req', e)
      BY <1>5, <1>7 DEF Late, Extends
    <3> QED
      BY <3>1, <3>2
  <2> QED
    BY <2>1, <2>2
<1> QED
  BY <1>5, <1>6, <1>9, <1>10, <1>11, <1>12 DEF RateInv, RedisInv

LEMMA AddKeeps ==
  ASSUME RateInv, NEW r \in DOMAIN req, Add(r)
  PROVE  RateInv'
<1> USE RateNumbers
<1> DEFINE S == Kept \cup {MemberOf(req[r])}
<1>1. /\ Keeps(S) /\ UNCHANGED <<now, bucket, disabled>> /\ req[r].at = "add"
      /\ req' = [req EXCEPT ![r] = [@ EXCEPT !.at = "count"]]
  BY DEF Add, Member, MemberOf
<1>2. IsFiniteSet(S) /\ S \subseteq Nat \X (Address \cup {NoAddress})
  <2>1. req[r] \in Request
    BY RequestsFinite DEF RateInv, RateTypeOK
  <2>2. MemberOf(req[r]) \in Nat \X (Address \cup {NoAddress})
    BY <2>1 DEF Request, MemberOf
  <2> QED
    BY <2>2, KeptTyped, FS_AddElement
<1> HIDE DEF S
<1>4. Kept' = S /\ zset' = S /\ expires' \in Nat /\ expires' \in {Never, expires}
  BY <1>1, <1>2, SetKept
<1>5. /\ req' \in Seq(Request) /\ DOMAIN req' = DOMAIN req /\ Extends(req, req')
      /\ req'[r].at = "count" /\ \A q \in DOMAIN req \ {r} : req'[q].at = req[q].at
      /\ AllConsistent' /\ MemoryHolds'
      /\ RedisBudget(req') /\ MemoryBudget(req') /\ Caused(req')
  BY <1>1, Advances
<1>6. RateTypeOK'
  BY <1>1, <1>2, <1>4, <1>5 DEF RateInv, RateTypeOK
<1>7. \A q \in DOMAIN req : /\ req'[q].sent = req[q].sent /\ MemberOf(req'[q]) = MemberOf(req[q])
                            /\ req[q].sent \in Nat /\ req[q].sent <= now
  BY <1>5, RequestsFinite DEF Extends, MemberOf, Request, RateInv, RateTypeOK, AllConsistent, Consistent
<1>8. now \in Time
  BY DEF RateInv, RateTypeOK
<1>9. Present'
  <2> SUFFICES ASSUME NEW q \in DOMAIN req, Added(req'[q]), now < req[q].sent + Window
               PROVE  MemberOf(req[q]) \in S
    BY <1>1, <1>4, <1>5, <1>7 DEF Present
  <2>1. CASE q = r
    BY <2>1 DEF S
  <2>2. CASE q # r
    BY <1>5, <2>2 DEF Added, RateInv, RedisInv, Present, S
  <2> QED
    BY <2>1, <2>2
<1>10. Outlived'
  <2> SUFFICES ASSUME NEW q \in DOMAIN req, req'[q].at = "executed"
               PROVE  expires' > req[q].sent + Window
    BY <1>5, <1>7 DEF Outlived
  <2>1. expires > req[q].sent + Window /\ expires \in Nat
    BY <1>5 DEF RateInv, RedisInv, Outlived, RateTypeOK
  <2>2. Never > req[q].sent + Window
    BY <1>7, <1>8 DEF Never, Time
  <2> QED
    BY <1>4, <2>1, <2>2
<1>11. Owned'
  <2> SUFFICES ASSUME NEW e \in S
               PROVE  \E q \in DOMAIN req : Added(req'[q]) /\ MemberOf(req[q]) = e
    BY <1>4, <1>5, <1>7 DEF Owned
  <2>1. CASE e = MemberOf(req[r])
    BY <1>5, <2>1 DEF Added
  <2>2. CASE e \in Kept
    <3>1. PICK q \in DOMAIN req : Added(req[q]) /\ MemberOf(req[q]) = e
      BY <2>2 DEF RateInv, RedisInv, Owned
    <3>2. Added(req'[q])
      BY <1>5, <3>1 DEF Added
    <3> QED
      BY <3>1, <3>2
  <2> QED
    BY <2>1, <2>2 DEF S
<1>12. Fresh'
  <2> SUFFICES ASSUME NEW q \in DOMAIN req, req'[q].at \in {"add", "count"}, NEW e \in S
               PROVE  e[1] > req[q].sent - Window \/ Late(req', e)
    BY <1>4, <1>5, <1>7 DEF Fresh
  <2>1. Late(req, e) => Late(req', e)
    BY <1>5, <1>7 DEF Late, Extends
  <2>2. CASE e \in Kept
    <3>1. req[q].at \in {"add", "count"}
      BY <1>1, <1>5
    <3> QED
      BY <2>1, <2>2, <3>1 DEF RateInv, RedisInv, Fresh
  <2>3. CASE e = MemberOf(req[r])
    <3>1. Consistent(req[r], now) /\ req[r] \in Request
      BY RequestsFinite DEF RateInv, RateTypeOK, AllConsistent
    <3>2. CASE req[r].store = "none"
      <4>1. now <= req[r].sent + Delay
        BY <3>1, <3>2 DEF Consistent
      <4>2. req[r].sent > req[q].sent - Window
        <5>1. req[r].sent \in Nat /\ req[q].sent \in Nat /\ req[q].sent <= now
          BY <1>7
        <5>2. now \in Nat
          BY <1>8
        <5> DEFINE s == req[r].sent
                   t == req[q].sent
        <5>3. s \in Nat /\ t \in Nat /\ t <= now /\ now <= s + Delay
          BY <4>1, <5>1
        <5> HIDE DEF s, t
        <5>4. s > t - Window
          BY <5>2, <5>3
        <5> QED
          BY <5>4 DEF s, t
      <4> QED
        BY <2>3, <4>2 DEF MemberOf
    <3>3. CASE req[r].store = "memory"
      BY <1>1, <2>1, <2>3, <3>3 DEF Late
    <3> QED
      BY <1>1, <3>1, <3>2, <3>3 DEF Consistent, Request
  <2> QED
    BY <2>2, <2>3 DEF S
<1> QED
  BY <1>5, <1>6, <1>9, <1>10, <1>11, <1>12 DEF RateInv, RedisInv

\* A request that nobody waits for any more is counted all the same.
LEMMA CountKeepsSet ==
  ASSUME RateInv, NEW r \in DOMAIN req, Count(r)
  PROVE  /\ Kept' = Kept /\ zset' = Kept /\ expires' \in Nat
         /\ Kept # {} => expires' = now + Window + 1
         /\ Kept = {} => expires' = Never
<1> USE RateNumbers
<1>1. now \in Time /\ now \in Nat
  BY DEF RateInv, RateTypeOK
<1>2. now' = now /\ zset' = Kept /\ expires' = IF Kept = {} THEN Never ELSE now + Window + 1
  BY DEF Count
<1>3. Kept' = IF now < expires' THEN Kept ELSE {}
  BY <1>2 DEF Kept
<1> QED
  BY <1>1, <1>2, <1>3

\* What is true of the set when a request is counted.
LEMMA CountKeepsRedis ==
  ASSUME RateInv, NEW r \in DOMAIN req, Count(r),
         req' \in Seq(Request), DOMAIN req' = DOMAIN req, Extends(req, req'),
         req'[r].at = "executed",
         \A q \in DOMAIN req \ {r} : req'[q].at = req[q].at
  PROVE  RedisInv'
<1> USE RateNumbers
<1>1. /\ Kept' = Kept /\ expires' \in Nat
      /\ Kept # {} => expires' = now + Window + 1
      /\ Kept = {} => expires' = Never
  BY CountKeepsSet
<1>2. \A q \in DOMAIN req : /\ req'[q].sent = req[q].sent /\ MemberOf(req'[q]) = MemberOf(req[q])
                            /\ req[q].sent \in Nat /\ req[q].sent <= now
  BY RequestsFinite DEF Extends, MemberOf, Request, RateInv, RateTypeOK, AllConsistent, Consistent
<1>3. now \in Time /\ now' = now /\ req[r].at = "count"
  BY DEF RateInv, RateTypeOK, Count
<1>4. \A q \in DOMAIN req : Added(req'[q]) <=> Added(req[q])
  BY <1>3 DEF Added
<1>5. Present' /\ Owned'
  BY <1>1, <1>2, <1>3, <1>4 DEF RateInv, RedisInv, Present, Owned
<1>6. Outlived'
  <2> SUFFICES ASSUME NEW q \in DOMAIN req PROVE expires' > req[q].sent + Window
    BY <1>2 DEF Outlived
  <2>1. req[q].sent \in Nat /\ req[q].sent <= now /\ now + Window + 1 < Never /\ now \in Nat
    BY <1>2, <1>3
  <2> QED
    BY <1>1, <2>1
<1>7. Fresh'
  <2> SUFFICES ASSUME NEW q \in DOMAIN req, req'[q].at \in {"add", "count"}, NEW e \in Kept
               PROVE  e[1] > req[q].sent - Window \/ Late(req', e)
    BY <1>1, <1>2 DEF Fresh
  <2>1. Late(req, e) => Late(req', e)
    BY <1>2 DEF Late, Extends
  <2>2. req[q].at \in {"add", "count"}
    OBVIOUS
  <2> QED
    BY <2>1, <2>2 DEF RateInv, RedisInv, Fresh
<1> QED
  BY <1>5, <1>6, <1>7 DEF RedisInv

\* The requests that Redis lets through with r are all in the set.
LEMMA LetsAreMembers ==
  ASSUME RateInv, NEW r \in DOMAIN req, Count(r), req[r].store = "none",
         req' \in Seq(Request), DOMAIN req' = DOMAIN req, Extends(req, req'),
         \A q \in DOMAIN req \ {r} : req'[q] = req[q],
         NEW t \in Time, r \in RedisLets(req', t), Unique(req'),
         \A q \in DOMAIN req' : req'[q].store = "redis" => req'[q].at = "executed"
  PROVE  Cardinality(RedisLets(req', t)) <= Cardinality(Kept)
<1> USE RateNumbers
<1> DEFINE L == RedisLets(req', t)
           f == [q \in L |-> MemberOf(req'[q])]
<1>1. now \in Nat /\ t \in Nat
  BY DEF RateInv, RateTypeOK
<1>2. \A q \in DOMAIN req : req'[q].sent = req[q].sent /\ MemberOf(req'[q]) = MemberOf(req[q])
                            /\ req[q].sent \in Nat
  BY RequestsFinite DEF Extends, MemberOf, Request, RateInv, RateTypeOK
<1>3. now < t + Window
  <2>1. now <= req[r].sent + Delay
    BY DEF RateInv, AllConsistent, Consistent
  <2>2. req'[r].sent \in t .. t + Window - Delay - 1
    BY DEF RedisLets
  <2>3. \A d, n, s, u, w \in Nat : n <= s + d /\ s <= u + w - d - 1 => n < u + w
    OBVIOUS
  <2>4. req[r].sent <= t + Window - Delay - 1 /\ req[r].sent \in Nat
    BY <1>1, <1>2, <2>2
  <2> QED
    BY ONLY <1>1, <2>1, <2>3, <2>4, RateNumbers
<1>4. ASSUME NEW q \in L
      PROVE  MemberOf(req'[q]) \in Kept
  <2>1. q \in DOMAIN req /\ Added(req[q])
    BY DEF RedisLets, Count, Added
  <2>2. req'[q].sent \in t .. t + Window - Delay - 1
    BY DEF RedisLets
  <2>3. req[q].sent \in Nat /\ t <= req[q].sent
    BY <1>1, <1>2, <2>1, <2>2
  <2>4. now < req[q].sent + Window
    BY <1>1, <1>3, <2>3
  <2> QED
    BY <1>2, <2>1, <2>4 DEF RateInv, RedisInv, Present
<1>5. ASSUME NEW q \in L, NEW s \in L, MemberOf(req'[q]) = MemberOf(req'[s])
      PROVE  q = s
  BY <1>5 DEF RedisLets, Unique
<1>6. f \in Injection(L, Kept)
  <2> HIDE DEF L
  <2> QED
    BY <1>4, <1>5 DEF Injection, IsInjective
<1>7. IsFiniteSet(Kept)
  BY KeptTyped
<1> HIDE DEF L, f
<1> QED
  BY <1>6, <1>7, FS_Injection DEF L

\* A request that Redis refuses finds in the set those it is refused for.
LEMMA RefusedByRedis ==
  ASSUME RateInv, NEW r \in DOMAIN req, Count(r), Cardinality(Kept) > Limit,
         req' \in Seq(Request), DOMAIN req' = DOMAIN req, Extends(req, req'),
         \A q \in DOMAIN req \ {r} : req'[q] = req[q],
         req'[r].store = "redis"
  PROVE  Cardinality(Causes(req', r)) >= Limit
<1> USE RateNumbers
<1> DEFINE C == Causes(req', r)
           others == Kept \ {MemberOf(req[r])}
           Owner(e, q) == q \in C /\ MemberOf(req[q]) = e
           f == [e \in others |-> CHOOSE q \in C : MemberOf(req[q]) = e]
<1>1. ASSUME NEW e \in others
      PROVE  \E q \in C : MemberOf(req[q]) = e
  <2>1. e[1] > req[r].sent - Window \/ Late(req, e)
    BY DEF RateInv, RedisInv, Fresh, Count
  <2>2. CASE e[1] > req[r].sent - Window
    <3>1. PICK q \in DOMAIN req : Added(req[q]) /\ MemberOf(req[q]) = e
      BY DEF RateInv, RedisInv, Owned
    <3>2. q # r /\ req[q].sent > req[r].sent - Window /\ req[q].at # "not_asked"
      BY <2>2, <3>1 DEF MemberOf, Added
    <3>3. q \in C
      BY <3>2 DEF Causes, Extends
    <3> QED
      BY <3>1, <3>3
  <2>3. CASE Late(req, e)
    <3>1. PICK q \in DOMAIN req : /\ req[q].at # "not_asked" /\ req[q].store = "memory"
                                  /\ MemberOf(req[q]) = e
      BY <2>3 DEF Late
    <3>2. q \in C
      BY <3>1 DEF Causes, Extends
    <3> QED
      BY <3>1, <3>2
  <2> QED
    BY <2>1, <2>2, <2>3
<1>2. IsFiniteSet(C) /\ Cardinality(C) \in Nat
  BY RequestsFinite DEF Causes
<1> HIDE DEF C
<1>3. f \in Injection(others, C)
  <2> HIDE DEF others
  <2>1. \A e \in others : f[e] \in C /\ MemberOf(req[f[e]]) = e
    BY <1>1
  <2>2. f \in [others -> C]
    BY <2>1
  <2> QED
    BY <2>1, <2>2 DEF Injection, IsInjective
<1>4. Cardinality(others) <= Cardinality(C)
  <2> HIDE DEF others, f
  <2> QED
    BY <1>2, <1>3, FS_Injection
<1>5. /\ Cardinality(others) \in Nat /\ Cardinality(Kept) \in Nat
      /\ Cardinality(others) >= Cardinality(Kept) - 1
  <2>1. IsFiniteSet(Kept)
    BY KeptTyped
  <2>2. IsFiniteSet(others) /\ Cardinality(others) \in Nat /\ Cardinality(Kept) \in Nat
    BY <2>1, FS_Subset, FS_CardinalityType
  <2>3. \/ Cardinality(others) = Cardinality(Kept)
        \/ Cardinality(others) = Cardinality(Kept) - 1
    BY <2>1, FS_RemoveElement
  <2> HIDE DEF others
  <2> QED
    BY <2>2, <2>3
<1> QED
  BY <1>2, <1>4, <1>5 DEF C

LEMMA CountKeeps ==
  ASSUME RateInv, NEW r \in DOMAIN req, Count(r)
  PROVE  RateInv'
<1> USE RateNumbers
<1>1. /\ UNCHANGED <<now, bucket, disabled>> /\ req[r].at = "count"
      /\ req' = [req EXCEPT ![r] =
           IF r \in Waiting
             THEN [@ EXCEPT !.at = "executed", !.store = "redis",
                            !.allowed = WithinLimit(Cardinality(Kept))]
             ELSE [@ EXCEPT !.at = "executed"]]
  BY DEF Count
<1>2. /\ req \in Seq(Request) /\ now \in Nat /\ req[r] \in Request
      /\ Consistent(req[r], now)
  BY RequestsFinite DEF RateInv, RateTypeOK, AllConsistent
<1>3. zset' = Kept /\ expires' \in Nat
  BY CountKeepsSet
<1>4. CASE r \notin Waiting
  <2>1. req' = [req EXCEPT ![r] = [@ EXCEPT !.at = "executed"]] /\ req[r].store # "none"
    BY <1>1, <1>4 DEF Waiting
  <2>2. /\ req' \in Seq(Request) /\ DOMAIN req' = DOMAIN req /\ Extends(req, req')
        /\ req'[r].at = "executed" /\ \A q \in DOMAIN req \ {r} : req'[q].at = req[q].at
        /\ AllConsistent' /\ MemoryHolds'
        /\ RedisBudget(req') /\ MemoryBudget(req') /\ Caused(req')
    BY <1>1, <2>1, Advances
  <2>3. RedisInv'
    BY <2>2, CountKeepsRedis
  <2>4. RateTypeOK'
    BY <1>1, <1>3, <2>2, KeptTyped DEF RateInv, RateTypeOK
  <2> QED
    BY <2>2, <2>3, <2>4 DEF RateInv
<1>5. CASE r \in Waiting
  <2> DEFINE x == [req[r] EXCEPT !.at = "executed", !.store = "redis",
                                 !.allowed = WithinLimit(Cardinality(Kept))]
  <2>1. req' = [req EXCEPT ![r] = x] /\ req[r].store = "none"
    BY <1>1, <1>5 DEF Waiting
  <2>2. WithinLimit(Cardinality(Kept)) \in BOOLEAN
    BY DEF WithinLimit
  <2>3. /\ x \in Request /\ x.by = req[r].by /\ x.sent = req[r].sent
        /\ x.address = req[r].address /\ x.at = "executed" /\ x.store = "redis"
        /\ x.counted = req[r].counted /\ x.allowed = WithinLimit(Cardinality(Kept))
    BY <1>2, <2>2 DEF Request
  <2> HIDE DEF x
  <2>4. /\ req' \in Seq(Request) /\ DOMAIN req' = DOMAIN req
        /\ req'[r] = x /\ \A q \in DOMAIN req \ {r} : req'[q] = req[q]
        /\ Extends(req, req')
    BY <1>1, <2>1, <2>3, Changed DEF RateInv
  <2>5. AllConsistent'
    <3>1. \A q \in DOMAIN req : Consistent(req[q], now)
      BY DEF RateInv, AllConsistent
    <3>2. Consistent(x, now)
      BY <1>2, <2>3 DEF Consistent
    <3> QED
      BY <1>1, <2>4, <3>1, <3>2 DEF AllConsistent
  <2>6. MemoryHolds'
    <3>1. \A q \in DOMAIN req' : req'[q].store = "memory"
                                 => q \in DOMAIN req /\ req[q].store = "memory"
      BY <2>3, <2>4
    <3> QED
      BY <1>1, <1>2, <2>4, <3>1, MemoriesIdle DEF RateInv
  <2>7. RedisInv'
    BY <2>3, <2>4, CountKeepsRedis
  <2>8. RateTypeOK'
    BY <1>1, <1>3, <2>4, KeptTyped DEF RateInv, RateTypeOK
  <2>9. Cardinality(Kept) \in Nat
    BY KeptTyped, FS_CardinalityType
  <2>10. ASSUME NEW t \in Time, Unique(req'), r \in RedisLets(req', t)
         PROVE  Cardinality(RedisLets(req', t)) <= Limit
    <3>1. \A q \in DOMAIN req' : req'[q].store = "redis" => req'[q].at = "executed"
      BY <2>5 DEF AllConsistent, Consistent
    <3>2. Cardinality(RedisLets(req', t)) <= Cardinality(Kept)
      BY <2>1, <2>4, <2>10, <3>1, LetsAreMembers
    <3>3. Cardinality(Kept) <= Limit
      BY <2>3, <2>4, <2>10 DEF RedisLets, WithinLimit
    <3>4. Cardinality(RedisLets(req', t)) \in Nat
      BY <2>4, RequestsFinite DEF RedisLets
    <3> QED
      BY <2>9, <3>2, <3>3, <3>4
  <2>11. ~req'[r].allowed => Cardinality(Causes(req', r)) >= Limit
    <3>1. ~req'[r].allowed => Cardinality(Kept) > Limit
      <4>1. req'[r].allowed = (Cardinality(Kept) <= Limit)
        BY <2>3, <2>4 DEF WithinLimit
      <4>2. Cardinality(Kept) <= Limit \/ Cardinality(Kept) > Limit
        BY <2>9
      <4> QED
        BY <4>1, <4>2
    <3> QED
      BY <2>3, <2>4, <3>1, RefusedByRedis
  <2>12. RedisBudget(req') /\ MemoryBudget(req') /\ Caused(req')
    <3>1. NoneCounted(req, req', r)
      BY <2>4 DEF NoneCounted
    <3>2. \A q \in DOMAIN req : req[q].store = "none" => ~req[q].allowed
      BY DEF RateInv, AllConsistent, Consistent
    <3>3. \A s, t : r \notin MemoryLets(req', s, t)
      BY <2>3, <2>4 DEF MemoryLets
    <3>4. RedisBudget(req) /\ MemoryBudget(req) /\ Caused(req)
      BY DEF RateInv
    <3> QED
      BY <1>2, <2>4, <2>10, <2>11, <3>1, <3>2, <3>3, <3>4, BudgetsStay
  <2> QED
    BY <2>5, <2>6, <2>7, <2>8, <2>12 DEF RateInv
<1> QED
  BY <1>4, <1>5

LEMMA TickKeeps ==
  ASSUME RateInv, Tick
  PROVE  RateInv'
<1> USE RateNumbers
<1>1. /\ now < MaxNow /\ now' = now + 1
      /\ \A r \in DOMAIN req : req[r].at \notin {"add", "count"}
      /\ \A r \in Waiting : now < req[r].sent + Delay
      /\ UNCHANGED <<zset, expires, bucket, disabled, req>>
  BY DEF Tick
<1>2. now \in Nat /\ now' \in Nat /\ now' \in Time /\ req \in Seq(Request) /\ expires \in Nat
  BY <1>1 DEF RateInv, RateTypeOK, Time
<1>3. RateTypeOK'
  BY <1>1, <1>2 DEF RateInv, RateTypeOK
<1>4. AllConsistent'
  <2> SUFFICES ASSUME NEW r \in DOMAIN req PROVE Consistent(req[r], now + 1)
    BY <1>1 DEF AllConsistent
  <2>1. Consistent(req[r], now) /\ req[r] \in Request
    BY <1>2, RequestsFinite DEF RateInv, AllConsistent
  <2>2. req[r].store = "none" => now < req[r].sent + Delay
    BY <1>1 DEF Waiting
  <2> QED
    BY <1>2, <2>1, <2>2 DEF Consistent, Request
<1>5. Present'
  <2> SUFFICES ASSUME NEW r \in DOMAIN req, Added(req[r]), now + 1 < req[r].sent + Window
               PROVE  MemberOf(req[r]) \in Kept'
    BY <1>1 DEF Present
  <2>1. req[r] \in Request
    BY <1>2, RequestsFinite
  <2>2. MemberOf(req[r]) \in Kept
    BY <1>2, <2>1 DEF RateInv, RedisInv, Present, Request
  <2>3. req[r].at = "executed"
    BY <1>1 DEF Added
  <2>4. expires > req[r].sent + Window
    BY <2>3 DEF RateInv, RedisInv, Outlived
  <2>5. now + 1 < expires /\ now < expires
    BY <1>2, <2>1, <2>4 DEF Request
  <2> QED
    BY <1>1, <2>2, <2>5 DEF Kept
<1>6. Outlived' /\ Fresh'
  BY <1>1 DEF RateInv, RedisInv, Outlived, Fresh
<1>7. Kept' \subseteq Kept
  BY <1>1, <1>2 DEF Kept
<1>8. Owned'
  BY <1>1, <1>7 DEF RateInv, RedisInv, Owned
<1>9. MemoryHolds'
  <2>1. Extends(req, req')
    BY <1>1 DEF Extends
  <2> QED
    BY <1>1, <1>2, <2>1, MemoriesIdle DEF RateInv
<1> QED
  BY <1>1, <1>3, <1>4, <1>5, <1>6, <1>8, <1>9 DEF RateInv, RedisInv

LEMMA RateStepInv ==
  ASSUME RateInv, [RateNext]_limit_vars
  PROVE  RateInv'
<1>1. CASE Tick
  BY <1>1, TickKeeps
<1>2. ASSUME NEW p \in Process, Arrive(p)
      PROVE  RateInv'
  BY <1>2, SendKeeps, CountLocallyKeeps DEF Arrive
<1>3. ASSUME NEW r \in DOMAIN req, Abandon(r) \/ Execute(r)
      PROVE  RateInv'
  BY <1>3, AbandonKeeps, RemoveOldKeeps, AddKeeps, CountKeeps DEF Execute
<1>4. CASE UNCHANGED limit_vars
  <2>1. UNCHANGED <<now, zset, expires, bucket, disabled, req>>
    BY <1>4 DEF limit_vars
  <2> QED
    BY <2>1 DEF RateInv, RateTypeOK, AllConsistent, RedisInv, Present, Outlived,
                Owned, Fresh, MemoryHolds, Kept
<1> QED
  BY <1>1, <1>2, <1>3, <1>4 DEF RateNext

LEMMA RateInvImplies == RateInv => BudgetExact
<1> SUFFICES ASSUME RateInv PROVE BudgetExact
  OBVIOUS
<1>1. Budget
  <2>1. ASSUME UniquePerCall, NEW t \in Time
        PROVE  Cardinality({r \in ByRedis :
                  req[r].sent \in t .. t + Window - Delay - 1}) <= Limit
    <3>1. Unique(req)
      BY <2>1 DEF UniquePerCall, Unique, Member, MemberOf
    <3>2. RedisLets(req, t) = {r \in ByRedis : req[r].sent \in t .. t + Window - Delay - 1}
      BY DEF RedisLets, ByRedis, LetThrough
    <3> QED
      BY <3>1, <3>2 DEF RateInv, RedisBudget
  <2>2. ASSUME NEW p \in Process, NEW t \in Time
        PROVE  Cardinality({r \in ByMemory(p) : req[r].counted \in t .. t + Window}) <= Limit
    <3>1. MemoryLets(req, p, t) = {r \in ByMemory(p) : req[r].counted \in t .. t + Window}
      BY DEF MemoryLets, ByMemory, LetThrough
    <3> QED
      BY <3>1 DEF RateInv, MemoryBudget
  <2> QED
    BY <2>1, <2>2 DEF Budget
<1>2. RefusedForCause
  <2> SUFFICES ASSUME NEW r \in DOMAIN req \ (Waiting \cup LetThrough)
               PROVE  Cardinality(Causes(req, r)) >= Limit
    BY DEF RefusedForCause, Causes
  <2>1. req[r].store # "none" /\ ~req[r].allowed
    BY DEF Waiting, LetThrough
  <2> QED
    BY <2>1 DEF RateInv, Caused
<1> QED
  BY <1>1, <1>2 DEF BudgetExact

(* Neither Redis nor the memory of a process lets more requests through    *)
(* than the limit, and none refuses a request without as many others to    *)
(* refuse it for, however the commands of their pipelines mix and          *)
(* whichever processes give up (rate_limit.py).                            *)
THEOREM BudgetsAreExact == RateSpec => []BudgetExact
<1>1. RateInv /\ [RateNext]_limit_vars => RateInv'
  BY RateStepInv
<1> QED
  BY <1>1, RateInitInv, RateInvImplies, PTL DEF RateSpec

=============================================================================
