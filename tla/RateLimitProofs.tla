-------------------------- MODULE RateLimitProofs ---------------------------
(***************************************************************************)
(* BurstBound and RefusedOnlyAfterBurst for every SendMax and Window.      *)
(***************************************************************************)
EXTENDS RateLimit, TLAPS

(* The accepted sends of one user, as the windows they fell in order them. *)
WindowsHold(acc) ==
    /\ \A i \in 1 .. Len(acc) :
          /\ acc[i].window <= acc[i].at
          /\ acc[i].at < acc[i].window + Window
    /\ \A i, j \in 1 .. Len(acc) : i < j =>
          \/ acc[i].window = acc[j].window
          \/ acc[i].window + Window <= acc[j].window
    /\ \A i \in 1 .. Len(acc) :
          i + SendMax <= Len(acc) => acc[i].window # acc[i + SendMax].window
    /\ \A i \in 1 .. Len(acc) :
          (i = 1 \/ acc[i - 1].window # acc[i].window) => acc[i].at = acc[i].window

(* The bucket describes exactly the last `count` accepted sends. *)
BucketHolds(b, acc, t) ==
    /\ b.count = 0 <=> acc = <<>>
    /\ b.count <= Len(acc)
    /\ b.windowStart <= t
    /\ \A i \in 1 .. Len(acc) :
          /\ acc[i].at <= t
          /\ acc[i].window <= b.windowStart
          /\ acc[i].window = b.windowStart <=> i > Len(acc) - b.count

IInv ==
    /\ TypeOK
    /\ \A u \in Users : WindowsHold(accepted[u])
    /\ \A u \in Users : BucketHolds(buckets[u], accepted[u], now)
    /\ RefusedOnlyAfterBurst

-----------------------------------------------------------------------------

(* An entry of a user's record. *)
LEMMA EntryTypes ==
    ASSUME NEW acc \in Seq(Send), NEW i \in 1 .. Len(acc)
    PROVE  acc[i] \in Send /\ acc[i].at \in Nat /\ acc[i].window \in Nat
<1>1. acc[i] \in Send
  OBVIOUS
<1>2. QED BY <1>1 DEF Send

(* Two entries lie in the same window or in windows a Window apart. *)
LEMMA EntryOrder ==
    ASSUME NEW acc \in Seq(Send), WindowsHold(acc),
           NEW i \in 1 .. Len(acc), NEW j \in 1 .. Len(acc), i < j
    PROVE  \/ acc[i].window = acc[j].window
           \/ acc[i].window + Window <= acc[j].window
BY DEF WindowsHold

(* SendMax entries further on another window has begun. *)
LEMMA EntryWindowFills ==
    ASSUME NEW acc \in Seq(Send), WindowsHold(acc),
           NEW i \in 1 .. Len(acc), NEW k \in 1 .. Len(acc), k = i + SendMax
    PROVE  acc[i].window + Window <= acc[k].window
<1>1. i < k /\ i + SendMax <= Len(acc)
  BY RateAssumption
<1>2. acc[i].window # acc[k].window
  BY <1>1 DEF WindowsHold
<1>3. QED BY <1>1, <1>2, EntryOrder

(* Recording one more allowed send keeps both facts: the bucket logic of   *)
(* checkMessageRateLimit on one user.                                      *)
LEMMA ChargeKeepsOrder ==
    ASSUME NEW acc \in Seq(Send), NEW b \in Bucket, NEW t \in Nat,
           WindowsHold(acc), BucketHolds(b, acc, t),
           b.count <= SendMax, Allows(b, t)
    PROVE  LET c == Charge(b, t)
               acc2 == Append(acc, [at |-> t, window |-> c.windowStart])
           IN  /\ c \in Bucket /\ c.count <= SendMax
               /\ acc2 \in Seq(Send)
               /\ WindowsHold(acc2)
               /\ BucketHolds(c, acc2, t)
<1> DEFINE c == Charge(b, t)
           e == [at |-> t, window |-> c.windowStart]
           acc2 == Append(acc, e)
           n == Len(acc)
<1>0. /\ b.count \in Nat /\ b.windowStart \in Nat /\ n \in Nat
      /\ b.count = 0 <=> n = 0
      /\ b.count <= n /\ b.windowStart <= t
      /\ SendMax \in Nat /\ SendMax >= 1 /\ Window \in Nat /\ Window >= 1
      /\ \A i \in 1 .. n : /\ acc[i] \in Send
                           /\ acc[i].at \in Nat /\ acc[i].window \in Nat
                           /\ acc[i].at <= t /\ acc[i].window <= b.windowStart
                           /\ acc[i].window = b.windowStart <=> i > n - b.count
  <2>1. acc = <<>> <=> n = 0
    OBVIOUS
  <2>2. \A i \in 1 .. n : acc[i] \in Send
    OBVIOUS
  <2>3. QED BY <2>1, <2>2, RateAssumption DEF BucketHolds, Bucket, Send
<1>1. /\ c \in Bucket /\ c.count \in Nat /\ c.windowStart \in Nat
      /\ c.count <= SendMax /\ c.count >= 1 /\ c.windowStart <= t
      /\ t < c.windowStart + Window
  <2>1. CASE Expired(b, t)
    <3>1. c = [count |-> 1, windowStart |-> t]
      BY <2>1 DEF Charge
    <3>2. QED BY <3>1, <1>0 DEF Bucket
  <2>2. CASE ~Expired(b, t)
    <3>1. /\ c = [b EXCEPT !.count = b.count + 1]
          /\ b.count < SendMax /\ t - b.windowStart < Window
      BY <2>2, <1>0 DEF Charge, Allows, Expired
    <3>2. QED BY <3>1, <1>0 DEF Bucket
  <2>3. QED BY <2>1, <2>2
<1>2. e \in Send
  BY <1>1 DEF Send
<1>3. /\ acc2 \in Seq(Send) /\ Len(acc2) = n + 1 /\ acc2[n + 1] = e
      /\ n \in Nat
      /\ \A i \in 1 .. n : acc2[i] = acc[i] /\ acc[i] \in Send
  BY <1>2
<1> HIDE DEF c, e, acc2
<1>4. ASSUME ~Expired(b, t)
      PROVE  /\ c.count = b.count + 1 /\ c.windowStart = b.windowStart
             /\ b.count >= 1 /\ n >= 1 /\ acc[n].window = b.windowStart
  <2>1. c.count = b.count + 1 /\ c.windowStart = b.windowStart /\ b.count # 0
    BY <1>4 DEF Charge, Expired, Bucket, c
  <2>2. b.count >= 1 /\ n >= 1 /\ n \in 1 .. n /\ n > n - b.count
    BY <2>1, <1>0
  <2>3. acc[n].window = b.windowStart
    BY <2>2, <1>0
  <2>4. QED BY <2>1, <2>2, <2>3
<1>5. ASSUME Expired(b, t)
      PROVE  /\ c.count = 1 /\ c.windowStart = t
             /\ \A i \in 1 .. n : acc[i].window + Window <= t
  <2>1. c.count = 1 /\ c.windowStart = t
    BY <1>5 DEF Charge, c
  <2>2. b.count = 0 \/ b.windowStart + Window <= t
    BY <1>5, <1>0 DEF Expired
  <2>3. ASSUME NEW i \in 1 .. n
        PROVE  acc[i].window + Window <= t
    <3>1. n # 0 /\ acc[i].window <= b.windowStart /\ acc[i].window \in Nat
      BY <1>0
    <3>2. b.windowStart + Window <= t
      BY <3>1, <2>2, <1>0
    <3>3. QED BY <3>1, <3>2, <1>0
  <2>4. QED BY <2>1, <2>3
<1>6. \A i \in 1 .. n :
         /\ acc[i].window = c.windowStart <=> i > n + 1 - c.count
         /\ \/ acc[i].window = c.windowStart
            \/ acc[i].window + Window <= c.windowStart
  <2>1. CASE Expired(b, t)
    BY <2>1, <1>0, <1>5
  <2>2. CASE ~Expired(b, t)
    <3>1. TAKE i \in 1 .. n
    <3>2. acc[i].window = c.windowStart <=> i > n + 1 - c.count
      BY <2>2, <1>0, <1>4
    <3>3. \/ acc[i].window = acc[n].window
          \/ acc[i].window + Window <= acc[n].window
      <4>1. CASE i = n
        BY <4>1
      <4>2. CASE i # n
        <5>1. i < n /\ n \in 1 .. Len(acc)
          BY <4>2, <1>0
        <5>2. QED BY <5>1 DEF WindowsHold
      <4>3. QED BY <4>1, <4>2
    <3>4. QED BY <2>2, <1>4, <3>2, <3>3
  <2>3. QED BY <2>1, <2>2
<1>7. e.at = t /\ e.window = c.windowStart
  BY DEF e
<1>8. WindowsHold(acc2)
  <2>1. ASSUME NEW i \in 1 .. n + 1
        PROVE  acc2[i].window <= acc2[i].at /\ acc2[i].at < acc2[i].window + Window
    <3>1. CASE i = n + 1
      BY <3>1, <1>1, <1>3, <1>7
    <3>2. CASE i # n + 1
      <4>1. i \in 1 .. n
        BY <3>2, <1>0
      <4>2. QED BY <4>1, <1>3 DEF WindowsHold
    <3>3. QED BY <3>1, <3>2
  <2>2. ASSUME NEW i \in 1 .. n + 1, NEW j \in 1 .. n + 1, i < j
        PROVE  \/ acc2[i].window = acc2[j].window
               \/ acc2[i].window + Window <= acc2[j].window
    <3>1. i \in 1 .. n
      BY <2>2, <1>0
    <3>2. CASE j = n + 1
      BY <3>1, <3>2, <1>3, <1>6, <1>7
    <3>3. CASE j # n + 1
      <4>1. j \in 1 .. n
        BY <3>3, <1>0
      <4>2. QED BY <2>2, <3>1, <4>1, <1>3 DEF WindowsHold
    <3>4. QED BY <3>2, <3>3
  <2>3. ASSUME NEW i \in 1 .. n + 1, i + SendMax <= n + 1
        PROVE  acc2[i].window # acc2[i + SendMax].window
    <3>1. i \in 1 .. n
      BY <2>3, <1>0
    <3>2. CASE i + SendMax = n + 1
      <4>1. ~(i > n + 1 - c.count)
        BY <3>1, <3>2, <1>0, <1>1
      <4>2. acc[i].window # c.windowStart
        BY <3>1, <4>1, <1>6
      <4>3. QED BY <3>1, <3>2, <4>2, <1>3, <1>7
    <3>3. CASE i + SendMax # n + 1
      <4> DEFINE k == i + SendMax
      <4>1. k \in Nat /\ k <= n + 1 /\ k # n + 1 /\ k >= 1
        BY <2>3, <3>3, RateAssumption
      <4>2. k \in 1 .. n
        BY <4>1, <1>3
      <4>3. acc[i].window # acc[k].window
        BY <3>1, <4>2 DEF WindowsHold
      <4> HIDE DEF k
      <4>4. acc2[i].window # acc2[k].window
        BY <3>1, <4>2, <4>3, <1>3
      <4>5. QED BY <4>4 DEF k
    <3>4. QED BY <3>2, <3>3
  <2>4. ASSUME NEW i \in 1 .. n + 1,
               i = 1 \/ acc2[i - 1].window # acc2[i].window
        PROVE  acc2[i].at = acc2[i].window
    <3>1. CASE i = n + 1
      <4>1. CASE Expired(b, t)
        BY <3>1, <4>1, <1>3, <1>5, <1>7
      <4>2. CASE ~Expired(b, t)
        <5>1. i # 1 /\ i - 1 = n /\ n \in 1 .. n
          BY <3>1, <4>2, <1>0, <1>4
        <5>2. acc2[i - 1].window = acc2[i].window
          BY <5>1, <3>1, <4>2, <1>3, <1>4, <1>7
        <5>3. QED BY <2>4, <5>1, <5>2
      <4>3. QED BY <4>1, <4>2
    <3>2. CASE i # n + 1
      <4>1. i \in 1 .. n /\ (i # 1 => i - 1 \in 1 .. n)
        BY <3>2, <1>0
      <4>2. QED BY <2>4, <4>1, <1>3 DEF WindowsHold
    <3>3. QED BY <3>1, <3>2
  <2>5. QED BY <2>1, <2>2, <2>3, <2>4, <1>3 DEF WindowsHold
<1>9. BucketHolds(c, acc2, t)
  <2>1. acc2 # <<>> /\ c.count # 0 /\ c.count <= n + 1
    <3>1. c.count <= n + 1
      <4>1. CASE Expired(b, t)
        BY <4>1, <1>5, <1>0
      <4>2. CASE ~Expired(b, t)
        BY <4>2, <1>4, <1>0
      <4>3. QED BY <4>1, <4>2
    <3>2. QED BY <3>1, <1>0, <1>1, <1>3
  <2>2. ASSUME NEW i \in 1 .. n + 1
        PROVE  /\ acc2[i].at <= t /\ acc2[i].window <= c.windowStart
               /\ acc2[i].window = c.windowStart <=> i > n + 1 - c.count
    <3>1. CASE i = n + 1
      BY <3>1, <1>0, <1>1, <1>3, <1>7
    <3>2. CASE i # n + 1
      <4>1. i \in 1 .. n
        BY <3>2, <1>0
      <4>2. acc2[i] = acc[i] /\ acc[i].at <= t
        BY <4>1, <1>0, <1>3
      <4>3. acc[i].window \in Nat
        BY <4>1, EntryTypes
      <4>4. acc[i].window <= c.windowStart
        BY <4>1, <4>3, <1>1, <1>6, RateAssumption
      <4>5. QED BY <4>1, <4>2, <4>4, <1>6
    <3>3. QED BY <3>1, <3>2
  <2>3. QED BY <2>1, <2>2, <1>1, <1>3 DEF BucketHolds
<1>10. QED BY <1>1, <1>3, <1>8, <1>9 DEF c, e, acc2

(* Time passing leaves a bucket's description true. *)
LEMMA BucketAges ==
    ASSUME NEW acc \in Seq(Send), NEW b \in Bucket, NEW t \in Nat,
           BucketHolds(b, acc, t), NEW t2 \in Nat, t2 >= t
    PROVE  BucketHolds(b, acc, t2)
<1>1. b.windowStart \in Nat
  BY DEF Bucket
<1>2. \A i \in 1 .. Len(acc) : acc[i].at <= t2
  BY EntryTypes DEF BucketHolds
<1>3. QED BY <1>1, <1>2 DEF BucketHolds

(* A refused send finds its justification in the record. *)
LEMMA RefusalIsJustified ==
    ASSUME NEW acc \in Seq(Send), NEW b \in Bucket, NEW t \in Nat,
           WindowsHold(acc), BucketHolds(b, acc, t),
           b.count <= SendMax, ~Allows(b, t)
    PROVE  \E i \in 1 .. Len(acc) :
              /\ i + SendMax - 1 <= Len(acc)
              /\ t - acc[i].at < Window
              /\ acc[i + SendMax - 1].at <= t
<1> DEFINE n == Len(acc)
           k == n - SendMax + 1
<1>1. /\ b.count \in Nat /\ b.windowStart \in Nat
      /\ b.count = SendMax /\ t - b.windowStart < Window
  BY RateAssumption DEF Allows, Expired, Bucket
<1>2. n \in Nat /\ SendMax <= n
  BY <1>1 DEF BucketHolds
<1>3. /\ k \in 1 .. n /\ k + SendMax - 1 = n /\ n \in 1 .. n
      /\ k > n - b.count
  BY <1>1, <1>2, RateAssumption
<1>4. acc[k].window = b.windowStart /\ acc[n].at <= t
  BY <1>3 DEF BucketHolds
<1>5. acc[k].window <= acc[k].at /\ acc[k].at \in Nat
  BY <1>3, EntryTypes DEF WindowsHold
<1> HIDE DEF k
<1>6. t - acc[k].at < Window
  BY <1>1, <1>4, <1>5, RateAssumption
<1>7. QED BY <1>3, <1>4, <1>6

(* Sends already recorded keep justifying a refusal. *)
LEMMA RefusalStaysJustified ==
    ASSUME NEW acc \in Seq(Send), NEW e \in Send, NEW t \in Nat,
           NEW i \in 1 .. Len(acc),
           i + SendMax - 1 <= Len(acc),
           t - acc[i].at < Window, acc[i + SendMax - 1].at <= t
    PROVE  \E k \in 1 .. Len(Append(acc, e)) :
              /\ k + SendMax - 1 <= Len(Append(acc, e))
              /\ t - Append(acc, e)[k].at < Window
              /\ Append(acc, e)[k + SendMax - 1].at <= t
BY RateAssumption

(* Two gaps of w between a and d leave at least one once a falls into the  *)
(* first of them.                                                          *)
LEMMA TwoGaps ==
    ASSUME NEW a \in Nat, NEW b \in Nat, NEW c \in Nat, NEW d \in Nat,
           NEW w \in Nat, NEW e \in Nat,
           a < b + w, b + w <= c, c + w <= e, e <= d
    PROVE  d - a >= w
OBVIOUS

(* 2 * SendMax entries span a Window: the first of them opens its window,  *)
(* or its predecessor shares that window and the burst reaches a third one. *)
LEMMA BurstSpansWindow ==
    ASSUME NEW acc \in Seq(Send), WindowsHold(acc),
           NEW i \in 1 .. Len(acc), i + 2 * SendMax - 1 <= Len(acc)
    PROVE  acc[i + 2 * SendMax - 1].at - acc[i].at >= Window
<1> DEFINE m == i + SendMax - 1
           l == i + SendMax
           k == i + 2 * SendMax - 1
<1>1. /\ m \in 1 .. Len(acc) /\ l \in 1 .. Len(acc) /\ k \in 1 .. Len(acc)
      /\ k = m + SendMax /\ l = i + SendMax /\ l <= k
      /\ i # 1 => i - 1 \in 1 .. Len(acc) /\ m = (i - 1) + SendMax
  BY RateAssumption
<1>2. Window \in Nat
  BY RateAssumption
<1>3. QED
  <2> HIDE DEF m, l, k
  <2> SUFFICES acc[k].at - acc[i].at >= Window
    BY DEF k
  <2>1. /\ acc[i].at \in Nat /\ acc[i].window \in Nat
        /\ acc[k].at \in Nat /\ acc[k].window \in Nat
        /\ acc[l].window \in Nat /\ acc[m].window \in Nat
    BY <1>1, EntryTypes
  <2>2. acc[k].window <= acc[k].at /\ acc[i].at < acc[i].window + Window
    BY <1>1 DEF WindowsHold
  <2>3. CASE acc[i].at = acc[i].window
    <3>1. acc[i].window + Window <= acc[l].window
      BY <1>1, EntryWindowFills
    <3>2. acc[l].window <= acc[k].window
      <4>1. CASE l = k
        BY <4>1, <2>1
      <4>2. CASE l < k
        BY <4>2, <1>1, <1>2, <2>1, EntryOrder
      <4>3. QED BY <4>1, <4>2, <1>1
    <3>3. acc[i].at + Window <= acc[k].at
      BY <1>2, <2>1, <2>2, <2>3, <3>1, <3>2
    <3>4. QED BY <1>2, <2>1, <3>3
  <2>4. CASE acc[i].at # acc[i].window
    <3>1. i # 1 /\ acc[i - 1].window = acc[i].window
      BY <2>4 DEF WindowsHold
    <3>2. acc[i - 1].window + Window <= acc[m].window
      BY <1>1, <3>1, EntryWindowFills
    <3>3. acc[m].window + Window <= acc[k].window
      BY <1>1, EntryWindowFills
    <3>4. acc[i].window + Window <= acc[m].window
      BY <3>1, <3>2
    <3>5. QED BY <1>2, <2>1, <2>2, <3>3, <3>4, TwoGaps
  <2>5. QED BY <2>3, <2>4

(* The inductive invariant of the limiter. *)
LEMMA Inductive == Spec => []IInv
<1>1. Init => IInv
  BY RateAssumption DEF Init, IInv, TypeOK, NoBucket, Bucket, WindowsHold,
     BucketHolds, RefusedOnlyAfterBurst
<1>2. IInv /\ [Next]_vars => IInv'
  <2> SUFFICES ASSUME IInv, [Next]_vars PROVE IInv'
    OBVIOUS
  <2> USE DEF IInv
  <2>1. CASE Tick
    <3>1. now' \in Nat /\ now' >= now /\ UNCHANGED <<buckets, accepted, refusedAt>>
      BY <2>1 DEF Tick, TypeOK
    <3>2. TypeOK'
      BY <3>1 DEF TypeOK
    <3>3. (\A u \in Users : WindowsHold(accepted[u]))'
      BY <3>1 DEF WindowsHold
    <3>4. ASSUME NEW u \in Users
          PROVE  BucketHolds(buckets[u], accepted[u], now)'
      <4>1. /\ accepted[u] \in Seq(Send) /\ buckets[u] \in Bucket
            /\ now \in Nat /\ BucketHolds(buckets[u], accepted[u], now)
        BY DEF TypeOK
      <4>2. BucketHolds(buckets[u], accepted[u], now')
        BY <3>1, <4>1, BucketAges
      <4>3. QED BY <3>1, <4>2 DEF BucketHolds
    <3>5. RefusedOnlyAfterBurst'
      BY <3>1 DEF RefusedOnlyAfterBurst
    <3>6. QED BY <3>2, <3>3, <3>4, <3>5
  <2>2. ASSUME NEW u \in Users, Accept(u)
        PROVE  IInv'
    <3> DEFINE b == buckets[u]
               c == Charge(b, now)
               e == [at |-> now, window |-> c.windowStart]
               acc2 == Append(accepted[u], e)
    <3>1. /\ accepted[u] \in Seq(Send) /\ b \in Bucket /\ now \in Nat
          /\ b.count <= SendMax /\ Allows(b, now)
          /\ WindowsHold(accepted[u]) /\ BucketHolds(b, accepted[u], now)
      BY <2>2 DEF Accept, TypeOK
    <3>2. /\ c \in Bucket /\ c.count <= SendMax /\ acc2 \in Seq(Send)
          /\ WindowsHold(acc2) /\ BucketHolds(c, acc2, now)
      BY <3>1, ChargeKeepsOrder
    <3>3. /\ buckets' = [buckets EXCEPT ![u] = c]
          /\ buckets'[u] = c
      BY <2>2 DEF Accept, TypeOK
    <3>4. /\ accepted' = [accepted EXCEPT ![u] = acc2]
          /\ UNCHANGED <<now, refusedAt>>
      BY <2>2, <3>3 DEF Accept
    <3>5. TypeOK'
      BY <3>2, <3>3, <3>4 DEF TypeOK
    <3>6. ASSUME NEW v \in Users
          PROVE  /\ WindowsHold(accepted[v])'
                 /\ BucketHolds(buckets[v], accepted[v], now)'
      <4>1. CASE v = u
        <5>1. accepted'[v] = acc2 /\ buckets'[v] = c /\ now' = now
          BY <4>1, <3>3, <3>4 DEF TypeOK
        <5> HIDE DEF acc2, c
        <5>2. WindowsHold(accepted[v])'
          BY <5>1, <3>2 DEF WindowsHold
        <5>3. BucketHolds(buckets[v], accepted[v], now)'
          BY <5>1, <3>2 DEF BucketHolds
        <5>4. QED BY <5>2, <5>3
      <4>2. CASE v # u
        <5>1. /\ accepted'[v] = accepted[v] /\ buckets'[v] = buckets[v]
              /\ now' = now
          BY <4>2, <3>3, <3>4 DEF TypeOK
        <5>2. QED BY <5>1 DEF WindowsHold, BucketHolds
      <4>3. QED BY <4>1, <4>2
    <3>7. RefusedOnlyAfterBurst'
      <4>1. ASSUME NEW v \in Users, NEW t \in refusedAt[v]
            PROVE  \E i \in 1 .. Len(accepted'[v]) :
                      /\ i + SendMax - 1 <= Len(accepted'[v])
                      /\ t - accepted'[v][i].at < Window
                      /\ accepted'[v][i + SendMax - 1].at <= t
        <5>1. PICK i \in 1 .. Len(accepted[v]) :
                  /\ i + SendMax - 1 <= Len(accepted[v])
                  /\ t - accepted[v][i].at < Window
                  /\ accepted[v][i + SendMax - 1].at <= t
          BY DEF RefusedOnlyAfterBurst
        <5>2. CASE v = u
          <6>1. accepted'[v] = acc2
            BY <5>2, <3>4 DEF TypeOK
          <6>2. e \in Send /\ t \in Nat
            BY <3>1, <3>2 DEF Send, Bucket, TypeOK
          <6>3. QED BY <5>1, <5>2, <6>1, <6>2, <3>1, RefusalStaysJustified
        <5>3. CASE v # u
          BY <5>1, <5>3, <3>4 DEF TypeOK
        <5>4. QED BY <5>2, <5>3
      <4>2. QED BY <4>1, <3>4 DEF RefusedOnlyAfterBurst
    <3>8. QED BY <3>5, <3>6, <3>7
  <2>3. ASSUME NEW u \in Users, Refuse(u)
        PROVE  IInv'
    <3>1. /\ UNCHANGED <<now, buckets, accepted>>
          /\ refusedAt' = [refusedAt EXCEPT ![u] = @ \cup {now}]
          /\ ~Allows(buckets[u], now)
      BY <2>3 DEF Refuse
    <3>2. TypeOK'
      BY <3>1 DEF TypeOK
    <3>3. (/\ \A v \in Users : WindowsHold(accepted[v])
           /\ \A v \in Users : BucketHolds(buckets[v], accepted[v], now))'
      BY <3>1 DEF WindowsHold, BucketHolds
    <3>4. /\ accepted[u] \in Seq(Send) /\ buckets[u] \in Bucket /\ now \in Nat
          /\ WindowsHold(accepted[u])
          /\ BucketHolds(buckets[u], accepted[u], now)
          /\ buckets[u].count <= SendMax
      BY DEF TypeOK
    <3>5. RefusedOnlyAfterBurst'
      <4>1. ASSUME NEW v \in Users, NEW t \in refusedAt'[v]
            PROVE  \E i \in 1 .. Len(accepted[v]) :
                      /\ i + SendMax - 1 <= Len(accepted[v])
                      /\ t - accepted[v][i].at < Window
                      /\ accepted[v][i + SendMax - 1].at <= t
        <5>1. CASE t \in refusedAt[v]
          BY <5>1 DEF RefusedOnlyAfterBurst
        <5>2. CASE t \notin refusedAt[v]
          <6>1. v = u /\ t = now
            BY <5>2, <3>1 DEF TypeOK
          <6>2. QED BY <6>1, <3>1, <3>4, RefusalIsJustified
        <5>3. QED BY <5>1, <5>2
      <4>2. QED BY <4>1, <3>1 DEF RefusedOnlyAfterBurst
    <3>6. QED BY <3>2, <3>3, <3>5
  <2>4. CASE UNCHANGED vars
    BY <2>4 DEF vars, TypeOK, WindowsHold, BucketHolds, RefusedOnlyAfterBurst
  <2>5. QED BY <2>1, <2>2, <2>3, <2>4 DEF Next
<1>3. QED BY <1>1, <1>2, PTL DEF Spec

-----------------------------------------------------------------------------

(* The limiter's state keeps its types and no bucket counts past SendMax. *)
THEOREM TypeCorrect == Spec => []TypeOK
<1>1. IInv => TypeOK
  BY DEF IInv
<1>2. QED BY <1>1, Inductive, PTL

(* Any 2 * SendMax consecutive accepted sends of a user span a Window, for *)
(* every limit and window length.                                          *)
THEOREM BurstsAreBounded == Spec => []BurstBound
<1>1. IInv => BurstBound
  <2>1. ASSUME IInv, NEW u \in Users, NEW i \in 1 .. Len(accepted[u]),
               i + 2 * SendMax - 1 <= Len(accepted[u])
        PROVE  accepted[u][i + 2 * SendMax - 1].at - accepted[u][i].at >= Window
    <3>1. accepted[u] \in Seq(Send) /\ WindowsHold(accepted[u])
      BY <2>1 DEF IInv, TypeOK
    <3>2. QED BY <2>1, <3>1, BurstSpansWindow
  <2>2. QED BY <2>1 DEF BurstBound
<1>2. QED BY <1>1, Inductive, PTL

(* A refusal always has SendMax accepted sends within a Window before it.  *)
THEOREM RefusalsAreJustified == Spec => []RefusedOnlyAfterBurst
<1>1. IInv => RefusedOnlyAfterBurst
  BY DEF IInv
<1>2. QED BY <1>1, Inductive, PTL
=============================================================================
