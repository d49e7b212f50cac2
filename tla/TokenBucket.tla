------------------------------ MODULE TokenBucket ------------------------------
(***************************************************************************)
(* The rate limiter in front of POST /odds: token buckets kept in Redis by *)
(* a Lua script, and the coroutine that asks two of them, the bucket of    *)
(* its API key and then the global one.                                    *)
(*                                                                         *)
(* The script is atomic.  What surrounds it is not: a request reads the    *)
(* clock of Redis in one round trip and passes the reading to the script   *)
(* in another, so scripts may run in another order than their readings     *)
(* were taken; EVALSHA may fail with NOSCRIPT or for any other reason; a   *)
(* script may run and its reply be lost; Redis may lose a key.             *)
(*                                                                         *)
(* UNITS.  Time is in ticks, TicksPerSecond of them to the second (the     *)
(* code's tick is the millisecond).  Tokens are counted in grains, Cost of *)
(* them to the token, small enough for every bucket to gain a whole number *)
(* of them each tick: refill_per_sec is Refill[b] * TicksPerSecond / Cost. *)
(***************************************************************************)
EXTENDS Integers, FiniteSets

CONSTANTS
  Requests,       \* deliveries of POST /odds
  Buckets,        \* the Redis keys rl:odds_post:<api key>, rl:odds_post:global
  PerKey,         \* PerKey[r]: the bucket of the API key of r
  Global,         \* the bucket of all requests
  Capacity,       \* Capacity[b]: capacity in tokens
  Refill,         \* Refill[b]: the grains it gains in a tick
  TicksPerSecond,
  Cost,           \* the cost of a request, one token, in grains
  MaxClock,       \* bound on the clock
  MaxLost         \* bound on the number of keys Redis loses

(* The two dependencies of the route, in the order it lists them.          *)
Limiters == {"per_key", "global"}

ASSUME TokenBucketAssumption ==
  /\ IsFiniteSet(Requests)
  /\ PerKey \in [Requests -> Buckets]
  /\ Global \in Buckets
  /\ Capacity \in [Buckets -> Nat \ {0}]
  /\ Refill \in [Buckets -> Nat \ {0}]
  /\ TicksPerSecond \in Nat \ {0}
  /\ Cost \in Nat \ {0}
  /\ MaxClock \in Nat
  /\ MaxLost \in Nat

VARIABLES
  clock,    \* the clock of Redis
  bucket,   \* bucket[b]: the hash of key b with the time it expires at
  phase,    \* phase[r]: where the coroutine of r is
  stage,    \* stage[r]: the limiter it is asking
  now,      \* now[r]: the reading of the clock it took
  retry,    \* retry[r]: the Retry-After of a denial, in seconds
  taken,    \* taken[b]: history, the tokens b has given away
  lost,     \* lost[b]: history, how often Redis lost b
  rewound   \* rewound[b]: history, the ticks by which readings went backwards at b

requestVars == <<phase, stage, now, retry>>
historyVars == <<taken, lost, rewound>>
vars == <<clock, bucket, phase, stage, now, retry, taken, lost, rewound>>

Phases == {"idle",
           "time",      \* _ensure_script and _now_ms
           "evalsha",
           "eval",      \* the fallback after any exception
           "admitted", "denied", "failed"}

Decided == {"admitted", "denied", "failed"}

Full(b) == Capacity[b] * Cost

AtLeast(x, y) == IF x < y THEN y ELSE x
AtMost(x, y)  == IF x > y THEN y ELSE x
CeilDiv(x, y) == (x + y - 1) \div y

TypeOK ==
  /\ clock \in Nat
  /\ bucket \in [Buckets -> [tokens : Nat, ts : Nat, expireAt : Nat]]
  /\ phase \in [Requests -> Phases]
  /\ stage \in [Requests -> Limiters]
  /\ now \in [Requests -> Nat]
  /\ retry \in [Requests -> Nat]
  /\ taken \in [Buckets -> Nat]
  /\ lost \in [Buckets -> Nat]
  /\ rewound \in [Buckets -> Nat]

Init ==
  /\ clock = 0
  /\ bucket = [b \in Buckets |-> [tokens |-> Full(b), ts |-> 0, expireAt |-> 0]]
  /\ phase = [r \in Requests |-> "idle"]
  /\ stage = [r \in Requests |-> "per_key"]
  /\ now = [r \in Requests |-> 0]
  /\ retry = [r \in Requests |-> 0]
  /\ taken = [b \in Buckets |-> 0]
  /\ lost = [b \in Buckets |-> 0]
  /\ rewound = [b \in Buckets |-> 0]

-----------------------------------------------------------------------------
(* THE SCRIPT                                                              *)

BucketOf(r) == IF stage[r] = "per_key" THEN PerKey[r] ELSE Global

(* HMGET finds the key until it expires; an expired or lost key is absent, *)
(* whatever bucket[b] still says of it.                                    *)
Live(b) == clock < bucket[b].expireAt

(* The tokens there are at time t: those stored and those earned since.    *)
Available(b, t) ==
  IF Live(b)
  THEN AtMost(bucket[b].tokens + Refill[b] * AtLeast(t - bucket[b].ts, 0), Full(b))
  ELSE Full(b)

(* Mutants: rounded down.                                                  *)
ResetRoundedDown(b, tokens) ==
  AtLeast((Full(b) - tokens) \div (Refill[b] * TicksPerSecond), 1)
RetryAfterRoundedDown(b, tokens) == (Cost - tokens) \div (Refill[b] * TicksPerSecond)

(* Seconds until the bucket is full again, the TTL of its key.             *)
Reset(b, tokens) ==
  AtLeast(CeilDiv(Full(b) - tokens, Refill[b] * TicksPerSecond), 1)

RetryAfter(b, tokens) == CeilDiv(Cost - tokens, Refill[b] * TicksPerSecond)

Allowed(r) == Available(BucketOf(r), now[r]) >= Cost

(* Mutant: the cost is taken before it is compared.                        *)
LeftUnchecked(r) == Available(BucketOf(r), now[r]) - Cost

Left(r) == Available(BucketOf(r), now[r]) - (IF Allowed(r) THEN Cost ELSE 0)

(* The latest time the stored tokens account for.                          *)
AccountedUntil(b) == IF Live(b) THEN bucket[b].ts ELSE bucket[b].expireAt

(* Mutant: the time of the last refill is not saved.                       *)
RunScriptKeepingTs(r) ==
  LET b == BucketOf(r) IN
  /\ bucket' = [bucket EXCEPT ![b] =
                  [tokens   |-> Left(r),
                   ts       |-> IF Live(b) THEN @.ts ELSE now[r],
                   expireAt |-> clock + Reset(b, Left(r)) * TicksPerSecond]]
  /\ taken' = [taken EXCEPT ![b] = @ + (IF Allowed(r) THEN 1 ELSE 0)]
  /\ UNCHANGED <<lost, rewound>>

RunScript(r) ==
  LET b == BucketOf(r) IN
  /\ bucket' = [bucket EXCEPT ![b] =
                  [tokens   |-> Left(r),
                   ts       |-> now[r],
                   expireAt |-> clock + Reset(b, Left(r)) * TicksPerSecond]]
  /\ taken' = [taken EXCEPT ![b] = @ + (IF Allowed(r) THEN 1 ELSE 0)]
  /\ rewound' = [rewound EXCEPT ![b] = @ + AtLeast(AccountedUntil(b) - now[r], 0)]
  /\ UNCHANGED lost

-----------------------------------------------------------------------------
(* THE COROUTINE                                                           *)

Goto(r, p) == phase' = [phase EXCEPT ![r] = p]

Arrive(r) ==
  /\ phase[r] = "idle"
  /\ Goto(r, "time")
  /\ UNCHANGED <<clock, bucket, stage, now, retry, historyVars>>

(* The readings are taken before the script is sent.                       *)
ReadTime(r) ==
  /\ phase[r] = "time"
  /\ now' = [now EXCEPT ![r] = clock]
  /\ Goto(r, "evalsha")
  /\ UNCHANGED <<clock, bucket, stage, retry, historyVars>>

(* The reply of the script: on to the next limiter, into the handler, or   *)
(* out with 429.                                                           *)
Reply(r) ==
  IF Allowed(r)
  THEN /\ IF stage[r] = "per_key"
          THEN Goto(r, "time") /\ stage' = [stage EXCEPT ![r] = "global"]
          ELSE Goto(r, "admitted") /\ UNCHANGED stage
       /\ UNCHANGED retry
  ELSE /\ Goto(r, "denied")
       /\ retry' = [retry EXCEPT ![r] = AtLeast(RetryAfter(BucketOf(r), Left(r)), 1)]
       /\ UNCHANGED stage

EvalSha(r) ==
  /\ phase[r] = "evalsha"
  /\ RunScript(r)
  /\ Reply(r)
  /\ UNCHANGED <<clock, now>>

(* Mutants: open the gate when Redis fails; start over when it fails.      *)
EvalShaFailsOpen(r) ==
  /\ phase[r] = "evalsha"
  /\ IF stage[r] = "per_key"
     THEN Goto(r, "time") /\ stage' = [stage EXCEPT ![r] = "global"]
     ELSE Goto(r, "admitted") /\ UNCHANGED stage
  /\ UNCHANGED <<clock, bucket, now, retry, historyVars>>
EvalShaStartsOver(r) ==
  /\ phase[r] = "evalsha"
  /\ Goto(r, "time")
  /\ UNCHANGED <<clock, bucket, stage, now, retry, historyVars>>

(* EVALSHA raises: the script is unknown, or Redis was not reached ...     *)
EvalShaRaises(r) ==
  /\ phase[r] = "evalsha"
  /\ Goto(r, "eval")
  /\ UNCHANGED <<clock, bucket, stage, now, retry, historyVars>>

(* ... or the script ran and the reply did not arrive.                     *)
EvalShaReplyLost(r) ==
  /\ phase[r] = "evalsha"
  /\ RunScript(r)
  /\ Goto(r, "eval")
  /\ UNCHANGED <<clock, stage, now, retry>>

(* The fallback runs the script with the same reading of the clock.        *)
Eval(r) ==
  /\ phase[r] = "eval"
  /\ RunScript(r)
  /\ Reply(r)
  /\ UNCHANGED <<clock, now>>

EvalReplyLost(r) ==
  /\ phase[r] = "eval"
  /\ RunScript(r)
  /\ Goto(r, "failed")
  /\ UNCHANGED <<clock, stage, now, retry>>

(* Anywhere else an exception of the client ends the request with 500.     *)
RedisError(r) ==
  /\ phase[r] \in {"time", "eval"}
  /\ Goto(r, "failed")
  /\ UNCHANGED <<clock, bucket, stage, now, retry, historyVars>>

-----------------------------------------------------------------------------
(* REDIS                                                                   *)

Tick ==
  /\ clock < MaxClock
  /\ clock' = clock + 1
  /\ UNCHANGED <<bucket, requestVars, historyVars>>

(* A restart may lose the last writes, an eviction a key.                  *)
LoseKey(b) ==
  /\ Live(b)
  /\ lost[b] < MaxLost
  /\ bucket' = [bucket EXCEPT ![b] = [tokens |-> Full(b), ts |-> @.ts, expireAt |-> @.ts]]
  /\ lost' = [lost EXCEPT ![b] = @ + 1]
  /\ UNCHANGED <<clock, requestVars, taken, rewound>>

Quiescent ==
  /\ \A r \in Requests : phase[r] \in Decided
  /\ UNCHANGED vars

Step(r) ==
  \/ ReadTime(r)
  \/ EvalSha(r) \/ EvalShaRaises(r) \/ EvalShaReplyLost(r)
  \/ Eval(r)    \/ EvalReplyLost(r)
  \/ RedisError(r)

Next ==
  \/ \E r \in Requests : Arrive(r) \/ Step(r)
  \/ Tick
  \/ \E b \in Buckets : LoseKey(b)
  \/ Quiescent

Spec == Init /\ [][Next]_vars

(* Every await of a coroutine ends, with a reply or an exception; since no *)
(* coroutine awaits for ever again, it does not matter which ends first.   *)
FairSpec == Spec /\ WF_vars(\E r \in Requests : Step(r))

-----------------------------------------------------------------------------
(* PROPERTIES                                                              *)

(* The tokens a bucket gives away are its capacity and what it earns, up   *)
(* to two corrections: a lost key gives a full bucket back, and the time   *)
(* from a late reading to the one it overtakes is credited twice.          *)
AdmissionBound ==
  \A b \in Buckets :
    taken[b] * Cost <= Full(b) * (1 + lost[b]) + Refill[b] * (clock + rewound[b])

(* "TTL = tid tills hinken blir full igen": when a key has expired its     *)
(* bucket would be full, so that forgetting it gives no token away.        *)
ExpiryIsHarmless ==
  \A b \in Buckets :
    ~ Live(b) =>
      bucket[b].tokens + Refill[b] * (clock - bucket[b].ts) >= Full(b)

(* Requests that b has let through.                                        *)
LetThrough(b) ==
  Cardinality({r \in Requests : b = PerKey[r] /\ stage[r] = "global"})
    + Cardinality({r \in Requests : b = Global /\ phase[r] = "admitted"})

(* What a bucket is for, in the words of rate_limit_dependency:            *)
(* "capacity/refill_per_sec: hinkstorlek och påfyllning (tokens/sek)".     *)
(* AdmissionBound is what the code keeps of it.                            *)
AdmissionRate ==
  \A b \in Buckets :
    lost[b] = 0 => LetThrough(b) * Cost <= Full(b) + Refill[b] * clock

(* Nobody passes a bucket without paying it a token: an exception, a lost  *)
(* script or a lost reply never opens the gate.                            *)
PassersPay == \A b \in Buckets : LetThrough(b) <= taken[b]

(* A denied client that waits for the Retry-After it was given finds a     *)
(* token, if nobody took it; one second less would not have been enough,   *)
(* unless it is the least the header can say.                              *)
RetryAfterIsExact ==
  [][\A r \in Requests :
       phase[r] # "denied" /\ phase'[r] = "denied" =>
         LET b == BucketOf(r)
             After(s) == bucket'[b].tokens + Refill[b] * s * TicksPerSecond
         IN  /\ After(retry'[r]) >= Cost
             /\ retry'[r] > 1 => After(retry'[r] - 1) < Cost]_vars

(* Every request is admitted, denied or failed: no script is retried for   *)
(* ever, in the end nobody is waiting for one.                             *)
EveryRequestDecided ==
  <>[](\A r \in Requests : phase[r] \in Decided \cup {"idle"})

-----------------------------------------------------------------------------
(* THE INDUCTIVE INVARIANT                                                 *)

(* What was given away and what is stored never exceed what the bucket was *)
(* given: its capacity, and a refill up to the last reading.               *)
Budget(b) ==
  taken[b] * Cost + bucket[b].tokens
    <= Full(b) * (1 + lost[b]) + Refill[b] * (bucket[b].ts + rewound[b])

(* A key outlives the refill of its bucket.                                *)
Covered(b) ==
  /\ bucket[b].ts <= clock
  /\ bucket[b].ts <= bucket[b].expireAt
  /\ Refill[b] * (bucket[b].expireAt - bucket[b].ts) >= Full(b) - bucket[b].tokens

IInv ==
  /\ TypeOK
  /\ \A r \in Requests : now[r] <= clock
  /\ \A b \in Buckets : Budget(b) /\ Covered(b)

=============================================================================
