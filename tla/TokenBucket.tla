------------------------------ MODULE TokenBucket ------------------------------
(***************************************************************************)
(* RateLimiter, the token bucket before calls of CloudWatch.  acquire      *)
(* keeps its asyncio.Lock while it sleeps.  Time runs in halves of the     *)
(* time that one token takes, tokens are counted in halves.                *)
(***************************************************************************)
EXTENDS Integers

CONSTANTS
  Acquirers,   \* tasks that call acquire
  BucketRate,  \* RateLimiter.rate, in tokens
  MaxTicks     \* bound: length of the run

ASSUME BucketRateIsPositive == BucketRate \in Nat \ {0} /\ MaxTicks \in Nat

VARIABLES
  ticks,       \* the clock
  tokens,      \* RateLimiter.tokens
  lastUpdate,  \* RateLimiter.last_update
  waiting,     \* tasks that wait for the lock
  sleeping,    \* the task that sleeps with the lock, or none
  wakes,       \* when it wakes
  granted      \* history: tokens granted so far

bucketVars == <<ticks, tokens, lastUpdate, waiting, sleeping, wakes, granted>>

BucketTypeOK ==
  /\ ticks \in 0..MaxTicks /\ lastUpdate \in 0..ticks
  /\ tokens \in 0..2 * BucketRate
  /\ waiting \subseteq Acquirers /\ sleeping \subseteq Acquirers \ waiting
  /\ wakes \in 0..MaxTicks + 2 /\ granted \in Nat

BucketInit ==
  /\ ticks = 0 /\ tokens = 2 * BucketRate /\ lastUpdate = 0
  /\ waiting = {} /\ sleeping = {} /\ wakes = 0 /\ granted = 0

Acquire(a) ==
  /\ a \notin waiting \cup sleeping
  /\ waiting' = waiting \cup {a}
  /\ UNCHANGED <<ticks, tokens, lastUpdate, sleeping, wakes, granted>>

\* Mutant of Refilled: the time of the last refill is forgotten.
RefilledSinceStart ==
  LET sum == tokens + ticks IN IF sum < 2 * BucketRate THEN sum ELSE 2 * BucketRate

\* What the bucket holds by now, never more than it starts with.
Refilled ==
  LET sum == tokens + ticks - lastUpdate IN IF sum < 2 * BucketRate THEN sum ELSE 2 * BucketRate

\* acquire, with the lock: with a token the task goes on, otherwise it sleeps for the
\* rest of one.
Take(a) ==
  /\ a \in waiting /\ sleeping = {}
  /\ waiting' = waiting \ {a}
  /\ lastUpdate' = ticks
  /\ \/ /\ Refilled >= 2
        /\ tokens' = Refilled - 2 /\ granted' = granted + 1
        /\ UNCHANGED <<sleeping, wakes>>
     \/ /\ Refilled < 2
        /\ tokens' = Refilled
        /\ sleeping' = {a} /\ wakes' = ticks + 2 - Refilled
        /\ UNCHANGED granted
  /\ UNCHANGED ticks

\* The sleep is over.  last_update stays where it was before the sleep, so the time
\* slept is refilled once more by the next task.
WakeUp ==
  /\ sleeping # {} /\ ticks >= wakes
  /\ tokens' = 0 /\ sleeping' = {} /\ wakes' = 0 /\ granted' = granted + 1
  /\ UNCHANGED <<ticks, lastUpdate, waiting>>

TickBucket ==
  /\ ticks < MaxTicks
  /\ ticks' = ticks + 1
  /\ UNCHANGED <<tokens, lastUpdate, waiting, sleeping, wakes, granted>>

BucketNext ==
  \/ \E a \in Acquirers : Acquire(a) \/ Take(a)
  \/ WakeUp
  \/ TickBucket

BucketSpec == BucketInit /\ [][BucketNext]_bucketVars

-----------------------------------------------------------------------------
\* Beyond its first burst the bucket gives at most twice its rate, two tokens in the
\* time of one (ticks counts halves): the rate itself is not kept, see WakeUp.
TwiceTheRateIsKept == granted <= BucketRate + ticks
=============================================================================
