----------------------------- MODULE RateLimit ------------------------------
(***************************************************************************)
(* The message:send rate limiter of socketRateLimit.middleware.ts, over    *)
(* one life of the server process (the buckets are process memory).        *)
(* `accepted` and `refusedAt` are history: what the limiter answered.      *)
(***************************************************************************)
EXTENDS RateBucket, Sequences

CONSTANTS
    Users,      \* user ids
    MaxTime,    \* bound: the clock stops here
    MaxSends    \* bound: accepted sends recorded per user

ASSUME BoundAssumption == MaxTime \in Nat /\ MaxSends \in Nat

VARIABLES
    now,        \* Date.now()
    buckets,    \* the module-level Map
    accepted,   \* per user, the accepted sends in order: time and window
    refusedAt   \* per user, the times of refused sends

vars == <<now, buckets, accepted, refusedAt>>

Init ==
    /\ now = 0
    /\ buckets = [u \in Users |-> NoBucket]
    /\ accepted = [u \in Users |-> <<>>]
    /\ refusedAt = [u \in Users |-> {}]

Tick ==
    /\ now < MaxTime
    /\ now' = now + 1
    /\ UNCHANGED <<buckets, accepted, refusedAt>>

(* checkMessageRateLimit answers true and counts the send. *)
Accept(u) ==
    /\ Len(accepted[u]) < MaxSends
    /\ Allows(buckets[u], now)
    /\ buckets' = [buckets EXCEPT ![u] = Charge(@, now)]
    /\ accepted' = [accepted EXCEPT ![u] =
          Append(@, [at |-> now, window |-> buckets'[u].windowStart])]
    /\ UNCHANGED <<now, refusedAt>>

(* checkMessageRateLimit answers false and leaves the bucket alone. *)
Refuse(u) ==
    /\ ~Allows(buckets[u], now)
    /\ refusedAt' = [refusedAt EXCEPT ![u] = @ \cup {now}]
    /\ UNCHANGED <<now, buckets, accepted>>

Next == Tick \/ \E u \in Users : Accept(u) \/ Refuse(u)

Spec == Init /\ [][Next]_vars

-----------------------------------------------------------------------------

Send == [at : Nat, window : Nat]

(* Types of the limiter's state; a bucket never counts past the maximum. *)
TypeOK ==
    /\ now \in Nat
    /\ buckets \in [Users -> Bucket]
    /\ accepted \in [Users -> Seq(Send)]
    /\ refusedAt \in [Users -> SUBSET Nat]
    /\ \A u \in Users : buckets[u].count <= SendMax

(* What a fixed window promises: however the sends fall around a window's  *)
(* edge, 2 * SendMax accepted sends of a user always span a whole Window.   *)
BurstBound ==
    \A u \in Users : \A i \in 1 .. Len(accepted[u]) :
        i + 2 * SendMax - 1 <= Len(accepted[u]) =>
            accepted[u][i + 2 * SendMax - 1].at - accepted[u][i].at >= Window

(* A send is refused only when SendMax sends were accepted less than a     *)
(* Window before it: checkMessageRateLimit never refuses a slow sender.    *)
RefusedOnlyAfterBurst ==
    \A u \in Users : \A t \in refusedAt[u] :
        \E i \in 1 .. Len(accepted[u]) :
            /\ i + SendMax - 1 <= Len(accepted[u])
            /\ t - accepted[u][i].at < Window
            /\ accepted[u][i + SendMax - 1].at <= t

(* What socketRateLimit.middleware.ts:28 says, "sliding window:            *)
(* `socketRateLimitMax` sends per `socketRateLimitWindowMs`": no Window    *)
(* holds more than SendMax accepted sends.                                 *)
SlidingWindow ==
    \A u \in Users : \A i \in 1 .. Len(accepted[u]) :
        i + SendMax <= Len(accepted[u]) =>
            accepted[u][i + SendMax].at - accepted[u][i].at >= Window
=============================================================================
