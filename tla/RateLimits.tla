------------------------------ MODULE RateLimits ------------------------------
(***************************************************************************)
(* The two limiters of src/net/rate-limit.ts, which the relay, /mcp, the   *)
(* authorization server and the actions engine share: a token bucket and a *)
(* fixed window per key, in maps kept in last-use order, bounded, and      *)
(* cleared of stale entries a few at a time from their cold end.  A tick   *)
(* is the clock's unit; a bucket's level is counted in tokens times the    *)
(* window's ticks, so that a refill is a whole number.                     *)
(***************************************************************************)
EXTENDS Integers, Subsequences

CONSTANTS
  LimitKey,                 \* the keys: a node, a token, a target, an address
  BucketLimit, WindowLimit, \* requests per window
  WindowTicks,              \* windowMs
  MaxKeys, ColdBatch,       \* MAX_KEYS, COLD_BATCH
  TickMax                   \* bound on the clock
ASSUME LimitsAssumption ==
  /\ BucketLimit \in Nat \ {0} /\ WindowLimit \in Nat \ {0} /\ WindowTicks \in Nat \ {0}
  /\ MaxKeys \in Nat \ {0} /\ ColdBatch \in Nat /\ TickMax \in Nat

VARIABLES
  limiter,   \* which of the two this is
  tick,      \* the clock
  recent,    \* its RecentMap, the coldest entry first
  admitted,  \* per key: when requests were let through, the last window's
  refused,   \* per key: the tick a refused caller was told to wait for, or -1
  evicted    \* keys whose entry was dropped for room while it still counted
limitVars == <<limiter, tick, recent, admitted, refused, evicted>>

Entry(m, key, fresh) == IF \E i \in DOMAIN m : m[i].key = key THEN m[CHOOSE i \in DOMAIN m : m[i].key = key] ELSE fresh
ForgetColdAll(m, stale) == SubSeq(m, ColdBatch + 1, Len(m))
ForgetCold(m, stale) == Kept(m, {i \in DOMAIN m : i > ColdBatch \/ i \notin stale})
PutEntry(m, entry) ==
  LET others == Kept(m, {i \in DOMAIN m : m[i].key # entry.key})
      excess == IF Len(others) >= MaxKeys THEN Len(others) - MaxKeys + 1 ELSE 0
  IN Append(SubSeq(others, excess + 1, Len(others)), entry)
KeysOf(m) == {m[i].key : i \in DOMAIN m}

(* The token bucket: full at first, refilled evenly, one token a request. *)
FullLevel == BucketLimit * WindowTicks
RefilledPastFull(bucket, at) == [bucket EXCEPT !.level = @ + (at - bucket.at) * BucketLimit, !.at = at]
Refilled(bucket, at) ==
  LET level == bucket.level + (at - bucket.at) * BucketLimit
  IN [bucket EXCEPT !.level = IF level > FullLevel THEN FullLevel ELSE level, !.at = at]
IsFull(bucket, at) == Refilled(bucket, at).level >= FullLevel
FullOnes(m, at) == {i \in DOMAIN m : IsFull(m[i], at)}
BucketNow(m, key, at) == Refilled(Entry(ForgetCold(m, FullOnes(m, at)), key, [key |-> key, level |-> FullLevel, at |-> at]), at)
MayTake(m, key, at) == BucketNow(m, key, at).level >= WindowTicks
Taken(m, key, at) ==
  LET bucket == BucketNow(m, key, at)
  IN PutEntry(ForgetCold(m, FullOnes(m, at)), IF MayTake(m, key, at) THEN [bucket EXCEPT !.level = @ - WindowTicks] ELSE bucket)
CeilDiv(a, b) == (a + b - 1) \div b
BucketWaitFloor(m, key, at) == (WindowTicks - BucketNow(m, key, at).level) \div BucketLimit
BucketWait(m, key, at) == LET wait == CeilDiv(WindowTicks - BucketNow(m, key, at).level, BucketLimit) IN IF wait < 1 THEN 1 ELSE wait

(* The fixed window: from the first hit, WindowTicks long. *)
IsLiveLong(window, at) == window.startedAt + WindowTicks >= at
IsLive(window, at) == window.startedAt + WindowTicks > at
Expired(m, at) == {i \in DOMAIN m : ~IsLive(m[i], at)}
WindowNow(m, key, at) ==
  LET held == Entry(ForgetCold(m, Expired(m, at)), key, [key |-> key, startedAt |-> at, count |-> 0])
  IN IF IsLive(held, at) THEN held ELSE [key |-> key, startedAt |-> at, count |-> 0]
MayHit(m, key, at) == WindowNow(m, key, at).count < WindowLimit
\* The count stops one past the limit: nothing tells larger ones apart.
Counted(m, key, at) ==
  PutEntry(ForgetCold(m, Expired(m, at)), [WindowNow(m, key, at) EXCEPT !.count = IF @ > WindowLimit THEN @ ELSE @ + 1])
WindowWait(m, key, at) == WindowNow(m, key, at).startedAt + WindowTicks - at

LimitsInit ==
  /\ limiter \in {"bucket", "window"} /\ tick = 0 /\ recent = <<>> /\ evicted = {}
  /\ admitted = [k \in LimitKey |-> <<>>] /\ refused = [k \in LimitKey |-> -1]

Dropped(next, stale) == {recent[i].key : i \in DOMAIN recent \ stale} \ KeysOf(next)
LimitAnswered(key, allowed, wait) ==
  /\ admitted' = [admitted EXCEPT ![key] = IF allowed THEN Append(@, tick) ELSE @]
  /\ refused' = [refused EXCEPT ![key] = IF allowed THEN -1 ELSE tick + wait]
  /\ UNCHANGED <<limiter, tick>>
\* What came after a tick, of a list in the order of time.
Since(list, cutoff) == SubSeq(list, Cardinality({i \in DOMAIN list : list[i] <= cutoff}) + 1, Len(list))
Take(key) ==
  /\ limiter = "bucket" /\ Len(admitted[key]) <= 2 * BucketLimit
  /\ recent' = Taken(recent, key, tick)
  /\ evicted' = evicted \cup Dropped(recent', FullOnes(recent, tick))
  /\ LimitAnswered(key, MayTake(recent, key, tick), BucketWait(recent, key, tick))
Hit(key) ==
  /\ limiter = "window" /\ Len(admitted[key]) <= 2 * WindowLimit
  /\ recent' = Counted(recent, key, tick)
  /\ evicted' = evicted \cup Dropped(recent', Expired(recent, tick))
  /\ LimitAnswered(key, MayHit(recent, key, tick), WindowWait(recent, key, tick))
Tick ==
  /\ tick < TickMax /\ tick' = tick + 1
  /\ admitted' = [k \in LimitKey |-> Since(admitted[k], tick' - WindowTicks)]
  /\ UNCHANGED <<limiter, recent, refused, evicted>>
LimitsNext == Tick \/ \E k \in LimitKey : Take(k) \/ Hit(k)
LimitsSpec == LimitsInit /\ [][LimitsNext]_limitVars

-----------------------------------------------------------------------------
(* Properties. *)
LimitsTypeOK ==
  /\ tick \in 0..TickMax /\ Len(recent) <= MaxKeys
  /\ limiter = "bucket" => \A i \in DOMAIN recent : recent[i].level \in 0..FullLevel
(* No window of the clock sees more of one key than a burst and its refill, or two windows' worth, whatever keys come  *)
(* and go between and whatever the map forgets of them; only a key dropped for room starts over.                       *)
BoundedInWindow ==
  \A k \in LimitKey \ evicted :
    Len(admitted[k]) <= IF limiter = "bucket" THEN 2 * BucketLimit - 1 ELSE 2 * WindowLimit
(* A bucket refuses no key that was not let through a full limit within the last window. *)
RefusesOnlySpent == limiter = "bucket" => \A k \in LimitKey : refused[k] > tick => Len(admitted[k]) >= BucketLimit
(* Who waits as long as the refusal says is let through. *)
WaitIsEnough ==
  \A k \in LimitKey : refused[k] \in 0..tick => IF limiter = "bucket" THEN MayTake(recent, k, tick) ELSE MayHit(recent, k, tick)
(* The four, as one invariant of the module. *)
LimiterSound == LimitsTypeOK /\ BoundedInWindow /\ RefusesOnlySpent /\ WaitIsEnough
==============================================================================
