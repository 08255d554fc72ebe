----------------------------- MODULE RateBucket -----------------------------
(***************************************************************************)
(* The per-user counter that checkMessageRateLimit keeps in its `buckets`  *)
(* map, as operators on one bucket.  Both the stand-alone limiter and the  *)
(* message pipeline use them.                                              *)
(***************************************************************************)
EXTENDS Integers

CONSTANTS
    SendMax,    \* env.socketRateLimitMax: messages allowed per window
    Window      \* env.socketRateLimitWindowMs: length of a window in ticks

(* `Number(...) || default` in env.ts never yields zero. *)
ASSUME RateAssumption == SendMax \in Nat \ {0} /\ Window \in Nat \ {0}

Bucket == [count : Nat, windowStart : Nat]

(* The user has no entry in the map; an entry always counts at least one. *)
NoBucket == [count |-> 0, windowStart |-> 0]

(* A slip the runs catch: the window ends a tick early. *)
ExpiredEarly(b, t) == b.count = 0 \/ t - b.windowStart >= Window - 1

Expired(b, t) == b.count = 0 \/ t - b.windowStart >= Window

(* A slip the runs catch: the comparison lets one send too many through. *)
AllowsOneMore(b, t) == Expired(b, t) \/ b.count <= SendMax

Allows(b, t) == Expired(b, t) \/ b.count < SendMax

(* A slip the runs catch: every send restarts the window. *)
ChargeRestarting(b, t) ==
    [count |-> IF Expired(b, t) THEN 1 ELSE b.count + 1, windowStart |-> t]

(* The bucket after an allowed send at time t. *)
Charge(b, t) ==
    IF Expired(b, t) THEN [count |-> 1, windowStart |-> t]
                     ELSE [b EXCEPT !.count = @ + 1]
=============================================================================
