------------------------------ MODULE RateLimit ----------------------------
(***************************************************************************)
(* Counting requests in a sliding window (security/rate_limit.py), for one *)
(* key, which is a rule and an identity.  Each API process adds its        *)
(* request to a sorted set in Redis and reads the size of the set; when    *)
(* Redis fails it, it counts in its own memory until a cooldown is over    *)
(* (_FallbackStore, the default).  Nothing is a transaction: the commands  *)
(* of two pipelines mix, and those of a process that has given up may      *)
(* still be executed.                                                      *)
(*                                                                         *)
(* One tick is the resolution of the scores.  The clocks of the processes  *)
(* and of Redis are taken to agree.                                        *)
(***************************************************************************)
EXTENDS Integers, Sequences, FiniteSets

CONSTANTS
  MaxRequests, \* bound: requests with the key
  Process,  \* API processes, each with its _FallbackStore
  Address,  \* what id(object()) may return: the object is gone at once
  NoAddress,
  Limit, Window,
  Cooldown, \* ticks Redis is left alone after it failed
  Delay,    \* ticks an answer of Redis is waited for (socket_timeout)
  MaxNow    \* bound: ticks

ASSUME RateLimitAssumption ==
  /\ MaxRequests \in Nat /\ NoAddress \notin Address
  /\ Limit \in Nat \ {0} /\ Window \in Nat \ {0}
  /\ Cooldown \in Nat /\ MaxNow \in Nat
  /\ Delay \in 0 .. Window - 1

VARIABLES
  now,
  zset,      \* the sorted set: members, each with its score
  expires,   \* when Redis drops the set; Never when it has no such time
  bucket,    \* [Process -> Seq(time)], the deque of the memory store
  disabled,  \* [Process -> time], _disabled_until
  req        \* the requests in the order they have come; at is how far
             \* Redis is with the commands of one, and store where the
             \* process counted it: "none" as long as it waits

limit_vars == <<now, zset, expires, bucket, disabled, req>>

Time  == 0 .. MaxNow
Never == MaxNow + Window + 2

Waiting   == {r \in DOMAIN req : req[r].store = "none"}
Member(r) == <<req[r].sent, req[r].address>>

RateInit ==
  /\ now = 0
  /\ zset = {} /\ expires = Never
  /\ bucket = [p \in Process |-> << >>]
  /\ disabled = [p \in Process |-> 0]
  /\ req = << >>

-----------------------------------------------------------------------------
(* _MemoryStore.incr, which awaits nothing but a lock that is free: the    *)
(* first time goes as long as it is too old.                               *)
Pruned(times) ==
  LET gone == CHOOSE n \in 0 .. Len(times) :
        /\ \A i \in 1 .. n : times[i] < now - Window
        /\ n < Len(times) => times[n + 1] >= now - Window
  IN  SubSeq(times, gone + 1, Len(times))

Counted(p) == Append(Pruned(bucket[p]), now)

\* dispatch: whether the request goes on.
WithinLimit(count) == count <= Limit

(* _FallbackStore.incr: to Redis, unless it failed a while ago.            *)
Send(p) ==
  /\ Len(req) < MaxRequests
  /\ now >= disabled[p]
  /\ \E a \in Address :
       req' = Append(req, [by |-> p, sent |-> now, address |-> a,
                           at |-> "remove", store |-> "none",
                           counted |-> 0, allowed |-> FALSE])
  /\ UNCHANGED <<now, zset, expires, bucket, disabled>>

CountLocally(p) ==
  /\ Len(req) < MaxRequests
  /\ now < disabled[p]
  /\ bucket' = [bucket EXCEPT ![p] = Counted(p)]
  /\ req' = Append(req, [by |-> p, sent |-> now, address |-> NoAddress,
                         at |-> "not_asked", store |-> "memory",
                         counted |-> now,
                         allowed |-> WithinLimit(Len(Counted(p)))])
  /\ UNCHANGED <<now, zset, expires, disabled>>

(* The call failed or took too long: Redis is left alone, and the request  *)
(* is counted in memory.                                                   *)
Abandon(r) ==
  LET p == req[r].by IN
  /\ r \in Waiting
  /\ disabled' = [disabled EXCEPT ![p] = now + Cooldown]
  /\ bucket' = [bucket EXCEPT ![p] = Counted(p)]
  /\ req' = [req EXCEPT ![r].store = "memory", ![r].counted = now,
                        ![r].allowed = WithinLimit(Len(Counted(p)))]
  /\ UNCHANGED <<now, zset, expires>>

-----------------------------------------------------------------------------
(* The commands of a pipeline reach Redis in one write: other pipelines    *)
(* come between them, but no time passes.  They are executed even when     *)
(* the process has given up, or never.                                     *)

\* The set as a command of this tick finds it.
Kept == IF now < expires THEN zset ELSE {}

\* A set that becomes empty is gone, and with it the time it expires.
Keeps(set) ==
  /\ zset' = set
  /\ expires' = IF Kept = {} \/ set = {} THEN Never ELSE expires

\* Mutant of RemoveOld: nothing is too old.
RemoveNothing(r) ==
  /\ req[r].at = "remove"
  /\ Keeps(Kept)
  /\ req' = [req EXCEPT ![r].at = "add"]
  /\ UNCHANGED <<now, bucket, disabled>>

RemoveOld(r) ==
  /\ req[r].at = "remove"
  /\ Keeps({e \in Kept : e[1] > req[r].sent - Window})
  /\ req' = [req EXCEPT ![r].at = "add"]
  /\ UNCHANGED <<now, bucket, disabled>>

Add(r) ==
  /\ req[r].at = "add"
  /\ Keeps(Kept \cup {Member(r)})
  /\ req' = [req EXCEPT ![r].at = "count"]
  /\ UNCHANGED <<now, bucket, disabled>>

(* ZCARD and EXPIRE, and the answer: a count that decides at once, unless  *)
(* nobody waits for it any more.                                           *)
Count(r) ==
  /\ req[r].at = "count"
  /\ zset' = Kept
  /\ expires' = IF Kept = {} THEN Never ELSE now + Window + 1
  /\ req' = [req EXCEPT ![r] =
       IF r \in Waiting
         THEN [@ EXCEPT !.at = "executed", !.store = "redis",
                        !.allowed = WithinLimit(Cardinality(Kept))]
         ELSE [@ EXCEPT !.at = "executed"]]
  /\ UNCHANGED <<now, bucket, disabled>>

Tick ==
  /\ now < MaxNow
  /\ now' = now + 1
  /\ \A r \in DOMAIN req : req[r].at \notin {"add", "count"}
  /\ \A r \in Waiting : now < req[r].sent + Delay
  /\ UNCHANGED <<zset, expires, bucket, disabled, req>>

Arrive(p)  == Send(p) \/ CountLocally(p)
Execute(r) == RemoveOld(r) \/ Add(r) \/ Count(r)

RateNext ==
  \/ Tick
  \/ \E p \in Process : Arrive(p)
  \/ \E r \in DOMAIN req : Abandon(r) \/ Execute(r)

RateSpec == RateInit /\ [][RateNext]_limit_vars

-----------------------------------------------------------------------------
(* The requests Redis let through, and those the memory of p did.          *)
LetThrough  == {r \in DOMAIN req : req[r].allowed}
ByRedis     == {r \in LetThrough : req[r].store = "redis"}
ByMemory(p) == {r \in LetThrough : req[r].store = "memory" /\ req[r].by = p}

(* What the comment on rate_limit.py:144 says of members.  Nothing sees to *)
(* it: two requests of one tick may have one address.                      *)
UniquePerCall ==
  \A q, r \in DOMAIN req :
    /\ q # r
    /\ req[q].at # "not_asked" /\ req[r].at # "not_asked"
    => Member(q) # Member(r)

(* However pipelines mix and whatever is given up, Redis lets no more than *)
(* Limit requests through whose times lie closer together than the window, *)
(* less the time an answer may take, as long as members are unique; and    *)
(* the memory of a process lets no more through in a whole window.         *)
Budget ==
  /\ UniquePerCall =>
       \A t \in Time :
         Cardinality({r \in ByRedis :
                        req[r].sent \in t .. t + Window - Delay - 1}) <= Limit
  /\ \A p \in Process, t \in Time :
       Cardinality({r \in ByMemory(p) :
                      req[r].counted \in t .. t + Window}) <= Limit

(* A request is refused only because Limit others came within a window     *)
(* before it, counting those that came while it was on its way, and those  *)
(* whose process gave up, which Redis may have counted much later.         *)
RefusedForCause ==
  \A r \in DOMAIN req \ (Waiting \cup LetThrough) :
    LET others ==
      IF req[r].store = "redis"
        THEN {q \in DOMAIN req \ {r} :
                /\ req[q].at # "not_asked"
                /\ \/ req[q].sent > req[r].sent - Window
                   \/ req[q].store = "memory"}
        ELSE {q \in DOMAIN req \ {r} :
                /\ req[q].by = req[r].by /\ req[q].store = "memory"
                /\ req[q].counted \in req[r].counted - Window .. req[r].counted}
    IN Cardinality(others) >= Limit

(* Both: the limit lets neither too many through nor too few.              *)
BudgetExact == Budget /\ RefusedForCause

=============================================================================
