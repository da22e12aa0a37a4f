--------------------------- MODULE CircuitBreaker ---------------------------
(***************************************************************************)
(* The Redis circuit breaker of EnqueueHandler (handler/seckill.go): the   *)
(* number of failures and the time of the last one, two atomics that all   *)
(* calls read and write without a lock.  Times are ages in whole seconds,  *)
(* kept up to Duration, since nothing asks for more.                       *)
(***************************************************************************)
EXTENDS Naturals

CONSTANTS
  Callers,    \* clients, one call at a time each
  Threshold,  \* RedisFailureThreshold (5)
  Duration    \* RedisCircuitDuration (5 seconds)

ASSUME BreakerAssumption == Threshold \in Nat /\ Duration \in Nat \ {0}

VARIABLES
  count,     \* redisFailureCount, kept up to Threshold + 1
  age,       \* how long ago redisLastFailure was
  redisUp,   \* Redis answers
  at,        \* control of each call
  stamp,     \* age of the time a failed call has read and not stored yet
  answered   \* history: who has called Redis since the breaker opened

breakerVars == <<count, age, redisUp, at, stamp, answered>>

(* "ready": passed the breaker.  "failed", "counted", "stamping": an error *)
(* to record.                                                              *)
Control == {"idle", "loaded", "ready", "ok", "failed", "counted", "stamping", "rejected"}

BreakerTypeOK ==
  /\ count \in 0 .. Threshold + 1
  /\ age \in 0 .. Duration
  /\ redisUp \in BOOLEAN
  /\ at \in [Callers -> Control]
  /\ stamp \in [Callers -> 0 .. Duration]
  /\ answered \in [Callers -> 0 .. 2]

(* redisLastFailure is zero at first: 1970.                                *)
BreakerInit ==
  /\ count = 0 /\ age = Duration
  /\ redisUp = TRUE
  /\ at = [c \in Callers |-> "idle"]
  /\ stamp = [c \in Callers |-> 0]
  /\ answered = [c \in Callers |-> 0]

Older(a) == IF a < Duration THEN a + 1 ELSE a

(* The breaker turns calls away.                                           *)
Open == count > Threshold /\ age < Duration

Go(c, here, there) == at[c] = here /\ at' = [at EXCEPT ![c] = there]

(* The history starts again while the breaker is not open.                 *)
Note(calls) == answered' = IF Open' THEN calls ELSE [c \in Callers |-> 0]

-----------------------------------------------------------------------------

LoadCount(c) ==
  /\ Go(c, "idle", IF count > Threshold THEN "loaded" ELSE "ready")
  /\ UNCHANGED <<count, age, redisUp, stamp>>
  /\ Note(answered)

(* Mutant: the comparison is the wrong way round. *)
LoadTime_Swapped(c) ==
  /\ Go(c, "loaded", IF age < Duration THEN "ready" ELSE "rejected")
  /\ UNCHANGED <<count, age, redisUp, stamp>>
  /\ Note(answered)

(* Half-open: everybody who comes now passes.  The clock, read just before, *)
(* is taken to show the moment of the load.                                *)
LoadTime(c) ==
  /\ Go(c, "loaded", IF age < Duration THEN "rejected" ELSE "ready")
  /\ UNCHANGED <<count, age, redisUp, stamp>>
  /\ Note(answered)

(* Mutant: a rejection counts as a failure. *)
Reject_Stamps(c) ==
  /\ Go(c, "rejected", "idle")
  /\ age' = 0
  /\ UNCHANGED <<count, redisUp, stamp>>
  /\ Note(answered)

(* 503.                                                                    *)
Reject(c) ==
  /\ Go(c, "rejected", "idle")
  /\ UNCHANGED <<count, age, redisUp, stamp>>
  /\ Note(answered)

(* DeductInventory: any status is a success, and only an error counts.     *)
CallRedis(c) ==
  /\ Go(c, "ready", IF redisUp THEN "ok" ELSE "failed")
  /\ UNCHANGED <<count, age, redisUp, stamp>>
  /\ Note([answered EXCEPT ![c] = IF @ < 2 THEN @ + 1 ELSE @])

Reset(c) ==
  /\ Go(c, "ok", "idle")
  /\ count' = 0
  /\ UNCHANGED <<age, redisUp, stamp>>
  /\ Note(answered)

(* The count, then the time: in between they do not belong together.       *)
AddFailure(c) ==
  /\ Go(c, "failed", "counted")
  /\ count' = IF count > Threshold THEN count ELSE count + 1
  /\ UNCHANGED <<age, redisUp, stamp>>
  /\ Note(answered)

ReadClock(c) ==
  /\ Go(c, "counted", "stamping")
  /\ stamp' = [stamp EXCEPT ![c] = 0]
  /\ UNCHANGED <<count, age, redisUp>>
  /\ Note(answered)

(* The time read may have passed when it is stored.                        *)
StoreTime(c) ==
  /\ Go(c, "stamping", "idle")
  /\ age' = stamp[c]
  /\ stamp' = [stamp EXCEPT ![c] = 0]
  /\ UNCHANGED <<count, redisUp>>
  /\ Note(answered)

-----------------------------------------------------------------------------

Tick ==
  /\ age' = Older(age)
  /\ stamp' = [c \in Callers |-> IF at[c] = "stamping" THEN Older(stamp[c]) ELSE stamp[c]]
  /\ UNCHANGED <<count, redisUp, at>>
  /\ Note(answered)

RedisChanges ==
  /\ redisUp' = ~redisUp
  /\ UNCHANGED <<count, age, at, stamp>>
  /\ Note(answered)

Step(c) ==
  \/ LoadTime(c) \/ Reject(c) \/ CallRedis(c) \/ Reset(c)
  \/ AddFailure(c) \/ ReadClock(c) \/ StoreTime(c)

BreakerNext == (\E c \in Callers : LoadCount(c) \/ Step(c)) \/ Tick \/ RedisChanges

BreakerSpec == BreakerInit /\ [][BreakerNext]_breakerVars

(* A call that began ends, time passes; nobody has to call, Redis need not *)
(* come back.                                                              *)
BreakerFairSpec == BreakerSpec /\ WF_breakerVars(Tick) /\ \A c \in Callers : WF_breakerVars(Step(c))

-----------------------------------------------------------------------------
(* While the breaker stays open, Redis sees each client at most once: the  *)
(* call that was already past the check.  A check that is not one step with *)
(* the opening, a late time stamp and a concurrent reset change nothing.    *)
OpenShields == \A c \in Callers : answered[c] <= 1

(* Once Redis stays up, the breaker closes and nobody is turned away any   *)
(* more: rejected calls do not prolong the outage, and of the calls that    *)
(* fail late none leaves the count up for ever.                            *)
BreakerRecovers == <>[]redisUp => <>[](\A c \in Callers : at[c] # "rejected")

(* README: "If Redis fails 5 times consecutively", the breaker opens.       *)
FiveFailuresOpen == count >= Threshold /\ age < Duration => Open
=============================================================================
