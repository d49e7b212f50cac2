--------------------------- MODULE TokenBucketProofs ---------------------------
(***************************************************************************)
(* Proofs about TokenBucket, for any buckets, capacities, rates and number *)
(* of requests, and with no bound on the clock.                            *)
(***************************************************************************)
EXTENDS TokenBucket, FiniteSetTheorems, TLAPS

(* ARITHMETIC                                                              *)

LEMMA Product == \A m, n \in Nat : m * n \in Nat
OBVIOUS

LEMMA Distributes == \A m, x, y \in Int : m * (x + y) = m * x + m * y
OBVIOUS

LEMMA OneMore == \A m, n \in Nat : (m + 1) * n = m * n + n
OBVIOUS

LEMMA Monotone ==
  ASSUME NEW m \in Nat, NEW x \in Int, NEW y \in Int, x <= y
  PROVE  m * x <= m * y
<1>1. m * y = m * x + m * (y - x)
  BY Distributes
<1>2. m * (y - x) \in Nat
  BY Product
<1> QED
  BY <1>1, <1>2

(* Rounding up covers what is divided.                                     *)
LEMMA CeilDivCovers ==
  ASSUME NEW x \in Nat, NEW y \in Nat \ {0}
  PROVE  CeilDiv(x, y) \in Nat /\ y * CeilDiv(x, y) >= x
<1> DEFINE n == x + y - 1
<1>1. n \in Nat
  OBVIOUS
<1>2. n \div y \in Int /\ n < y * (n \div y) + y
  BY <1>1
<1>3. n \div y >= 0
  BY <1>1
<1>4. y * (n \div y) \in Int
  BY <1>2
<1> QED
  BY <1>2, <1>3, <1>4 DEF CeilDiv

(* TYPES                                                                   *)

LEMMA ConstantTypes ==
  ASSUME NEW b \in Buckets
  PROVE  /\ Full(b) \in Nat /\ Full(b) >= Cost
         /\ Refill[b] \in Nat \ {0} /\ Refill[b] * TicksPerSecond \in Nat \ {0}
<1>1. Capacity[b] \in Nat \ {0} /\ Refill[b] \in Nat \ {0}
  BY TokenBucketAssumption
<1>2. Capacity[b] * Cost >= Cost
  BY <1>1, TokenBucketAssumption
<1>3. Refill[b] * TicksPerSecond > 0
  BY <1>1, TokenBucketAssumption
<1> QED
  BY <1>1, <1>2, <1>3, TokenBucketAssumption DEF Full

LEMMA ScriptTypes ==
  ASSUME TypeOK, NEW r \in Requests, NEW b \in Buckets, b = BucketOf(r)
  PROVE  /\ Available(b, now[r]) \in 0 .. Full(b)
         /\ Left(r) \in 0 .. Full(b)
         /\ Reset(b, Left(r)) \in Nat \ {0}
         /\ Full(b) - Left(r) <= Refill[b] * (Reset(b, Left(r)) * TicksPerSecond)
<1> USE ConstantTypes, TokenBucketAssumption
<1>1. bucket[b].tokens \in Nat /\ bucket[b].ts \in Nat /\ now[r] \in Nat
  BY DEF TypeOK
<1>2. AtLeast(now[r] - bucket[b].ts, 0) \in Nat
  BY <1>1 DEF AtLeast
<1>3. Refill[b] * AtLeast(now[r] - bucket[b].ts, 0) \in Nat
  BY <1>2, Product
<1>4. Available(b, now[r]) \in 0 .. Full(b)
  BY <1>1, <1>3 DEF Available, AtMost
<1>5. Left(r) \in 0 .. Full(b)
  BY <1>4 DEF Left, Allowed
<1> DEFINE x == Full(b) - Left(r)
           y == Refill[b] * TicksPerSecond
<1>6. x \in Nat /\ y \in Nat \ {0}
  BY <1>5
<1>7. CeilDiv(x, y) \in Nat /\ y * CeilDiv(x, y) >= x
  BY <1>6, CeilDivCovers
<1>8. Reset(b, Left(r)) \in Nat \ {0} /\ CeilDiv(x, y) <= Reset(b, Left(r))
  BY <1>7 DEF Reset, AtLeast
<1>9. y * CeilDiv(x, y) <= y * Reset(b, Left(r))
  BY <1>6, <1>7, <1>8, Monotone
<1>10. y * Reset(b, Left(r)) = Refill[b] * (Reset(b, Left(r)) * TicksPerSecond)
  BY <1>8
<1> QED
  BY <1>4, <1>5, <1>6, <1>7, <1>8, <1>9, <1>10

LEMMA BucketOfType ==
  ASSUME TypeOK, NEW r \in Requests
  PROVE  BucketOf(r) \in Buckets
BY TokenBucketAssumption DEF TypeOK, BucketOf

LEMMA RunScriptTypes ==
  ASSUME TypeOK, NEW r \in Requests, RunScript(r), UNCHANGED clock
  PROVE  /\ bucket' \in [Buckets -> [tokens : Nat, ts : Nat, expireAt : Nat]]
         /\ taken' \in [Buckets -> Nat]
         /\ lost' \in [Buckets -> Nat]
         /\ rewound' \in [Buckets -> Nat]
<1> DEFINE b == BucketOf(r)
<1>1. b \in Buckets
  BY BucketOfType
<1>2. Left(r) \in Nat /\ Reset(b, Left(r)) * TicksPerSecond \in Nat
  BY <1>1, ScriptTypes, ConstantTypes, TokenBucketAssumption
<1>3. AtLeast(AccountedUntil(b) - now[r], 0) \in Nat
  BY <1>1 DEF AtLeast, AccountedUntil, TypeOK
<1> QED
  BY <1>1, <1>2, <1>3 DEF RunScript, TypeOK

LEMMA ReplyTypes ==
  ASSUME TypeOK, NEW r \in Requests, Reply(r)
  PROVE  /\ phase' \in [Requests -> Phases]
         /\ stage' \in [Requests -> Limiters]
         /\ retry' \in [Requests -> Nat]
<1>1. Cost - Left(r) \in Nat \/ Allowed(r)
  <2> SUFFICES ASSUME ~ Allowed(r) PROVE Cost - Left(r) \in Nat
    OBVIOUS
  <2> QED
    BY BucketOfType, ScriptTypes, TokenBucketAssumption DEF Left, Allowed
<1>2. ~ Allowed(r) => AtLeast(RetryAfter(BucketOf(r), Left(r)), 1) \in Nat
  BY <1>1, BucketOfType, ConstantTypes, CeilDivCovers DEF RetryAfter, AtLeast
<1> QED
  BY <1>2 DEF Reply, Goto, TypeOK, Phases, Limiters

(* The grains of a bucket are never negative, and every time is one.       *)
THEOREM TypeInvariant == Spec => []TypeOK
<1>1. Init => TypeOK
  BY ConstantTypes, TokenBucketAssumption DEF Init, TypeOK, Phases, Limiters
<1>2. TypeOK /\ [Next]_vars => TypeOK'
  <2> SUFFICES ASSUME TypeOK, [Next]_vars PROVE TypeOK'
    OBVIOUS
  <2>1. ASSUME NEW r \in Requests, Arrive(r) \/ ReadTime(r) \/ EvalShaRaises(r) \/ RedisError(r)
        PROVE  TypeOK'
    <3>1. PICK p \in Phases : Goto(r, p)
      BY <2>1 DEF Arrive, ReadTime, EvalShaRaises, RedisError, Phases
    <3>2. UNCHANGED <<clock, bucket, stage, retry, historyVars>>
      BY <2>1 DEF Arrive, ReadTime, EvalShaRaises, RedisError
    <3>3. now' \in [Requests -> Nat]
      BY <2>1 DEF Arrive, ReadTime, EvalShaRaises, RedisError, TypeOK
    <3> QED
      BY <3>1, <3>2, <3>3 DEF TypeOK, Goto, historyVars
  <2>2. ASSUME NEW r \in Requests, EvalSha(r) \/ Eval(r) PROVE TypeOK'
    <3>1. RunScript(r) /\ Reply(r) /\ UNCHANGED <<clock, now>>
      BY <2>2 DEF EvalSha, Eval
    <3> QED
      BY <3>1, RunScriptTypes, ReplyTypes DEF TypeOK
  <2>3. ASSUME NEW r \in Requests, EvalShaReplyLost(r) \/ EvalReplyLost(r) PROVE TypeOK'
    <3>1. RunScript(r) /\ UNCHANGED <<clock, stage, now, retry>>
      BY <2>3 DEF EvalShaReplyLost, EvalReplyLost
    <3>2. phase' \in [Requests -> Phases]
      BY <2>3 DEF EvalShaReplyLost, EvalReplyLost, Goto, TypeOK, Phases
    <3> QED
      BY <3>1, <3>2, RunScriptTypes DEF TypeOK
  <2>4. CASE Tick
    BY <2>4 DEF Tick, TypeOK, requestVars, historyVars
  <2>5. ASSUME NEW b \in Buckets, LoseKey(b) PROVE TypeOK'
    BY <2>5, ConstantTypes DEF LoseKey, TypeOK, requestVars
  <2>6. CASE UNCHANGED vars
    BY <2>6 DEF vars, TypeOK
  <2> QED
    BY <2>1, <2>2, <2>3, <2>4, <2>5, <2>6 DEF Next, Step, Quiescent
<1>3. QED
  BY <1>1, <1>2, PTL DEF Spec

-----------------------------------------------------------------------------
(* THE BUDGET                                                              *)

(* The script accounts for exactly the time it credits: what it moves the  *)
(* last reading by, forwards as refill or backwards as history.            *)
LEMMA ScriptKeepsBudget ==
  ASSUME IInv, NEW r \in Requests, NEW b \in Buckets, b = BucketOf(r),
         RunScript(r), UNCHANGED clock
  PROVE  Budget(b)'
<1> DEFINE t   == bucket[b].tokens
           now_ms == now[r]
           A   == AccountedUntil(b)
           rw  == rewound[b]
           back == AtLeast(A - now_ms, 0)
           fwd  == AtLeast(now_ms - A, 0)
           cap == Full(b) * (1 + lost[b])
           R == Refill[b]
<1> USE ConstantTypes, TokenBucketAssumption
<1>1. /\ t \in Nat /\ now_ms \in Nat /\ A \in Nat /\ rw \in Nat /\ taken[b] \in Nat
      /\ lost[b] \in Nat /\ cap \in Nat /\ R \in Nat /\ bucket[b].ts \in Nat
      /\ bucket[b].expireAt \in Nat
  BY Product DEF IInv, TypeOK, AccountedUntil
<1>2. Available(b, now_ms) \in Nat /\ Left(r) \in Nat
  BY ScriptTypes DEF IInv
(* The grains given away and those that may now be given.                  *)
<1>3. taken[b] * Cost + Available(b, now_ms) <= cap + R * (A + rw) + R * fwd
  <2>1. fwd \in Nat /\ R * fwd \in Nat /\ taken[b] * Cost \in Nat /\ R * (A + rw) \in Nat
    BY <1>1, Product DEF AtLeast
  <2>2. CASE Live(b)
    <3>1. Available(b, now_ms) <= t + R * fwd
      BY <1>1, <2>1, <2>2 DEF Available, AtMost, AccountedUntil
    <3>2. taken[b] * Cost + t <= cap + R * (A + rw)
      BY <2>2 DEF IInv, Budget, AccountedUntil
    <3> QED
      BY <1>1, <1>2, <2>1, <3>1, <3>2
  <2>3. CASE ~ Live(b)
    <3>1. Available(b, now_ms) = Full(b) /\ A = bucket[b].expireAt
      BY <2>3 DEF Available, AccountedUntil
    <3>2. Full(b) - t <= R * (A - bucket[b].ts)
      BY <3>1 DEF IInv, Covered
    <3>3. taken[b] * Cost + t <= cap + R * (bucket[b].ts + rw)
      BY DEF IInv, Budget
    <3>4. R * (A + rw) = R * (bucket[b].ts + rw) + R * (A - bucket[b].ts)
      BY <1>1, Distributes
    <3>5. R * (A - bucket[b].ts) \in Int /\ R * (bucket[b].ts + rw) \in Int
      BY <1>1
    <3> QED
      BY <1>1, <2>1, <3>1, <3>2, <3>3, <3>4, <3>5
  <2> QED
    BY <2>2, <2>3
<1>4. R * (now_ms + (rw + back)) = R * (A + rw) + R * fwd
  <2>1. now_ms + (rw + back) = (A + rw) + fwd
    BY <1>1 DEF AtLeast
  <2> QED
    BY <1>1, <2>1, Distributes DEF AtLeast
<1>5. taken'[b] * Cost + Left(r) = taken[b] * Cost + Available(b, now_ms)
  <2>1. CASE Allowed(r)
    <3>1. taken'[b] = taken[b] + 1 /\ Left(r) = Available(b, now_ms) - Cost
      BY <2>1 DEF RunScript, IInv, TypeOK, Left
    <3>2. taken'[b] * Cost = taken[b] * Cost + Cost /\ taken[b] * Cost \in Nat
      <4>1. (taken[b] + 1) * Cost = taken[b] * Cost + Cost /\ taken[b] * Cost \in Nat
        BY <1>1, OneMore, Product
      <4> QED
        BY <3>1, <4>1, Zenon
    <3> QED
      BY <1>2, <3>1, <3>2
  <2>2. CASE ~ Allowed(r)
    <3>1. taken'[b] = taken[b] /\ Left(r) = Available(b, now_ms)
      BY <1>1, <1>2, <2>2 DEF RunScript, IInv, TypeOK, Left
    <3> QED
      BY <3>1
  <2> QED
    BY <2>1, <2>2
<1>6. /\ bucket'[b].tokens = Left(r) /\ bucket'[b].ts = now_ms
      /\ rewound'[b] = rw + back /\ lost' = lost
  BY DEF RunScript, IInv, TypeOK
<1>7. taken'[b] * Cost + bucket'[b].tokens
        <= cap + R * (bucket'[b].ts + rewound'[b])
  <2>1. /\ cap + R * (A + rw) + R * fwd = cap + R * (bucket'[b].ts + rewound'[b])
        /\ taken'[b] * Cost + bucket'[b].tokens = taken[b] * Cost + Available(b, now_ms)
    <3>1. R * (A + rw) \in Int /\ R * fwd \in Int
      BY <1>1 DEF AtLeast
    <3> QED
      BY <1>1, <1>4, <1>5, <1>6, <3>1
  <2> QED
    BY <1>3, <2>1
<1> QED
  BY <1>6, <1>7 DEF Budget, Full

LEMMA ScriptKeepsCover ==
  ASSUME IInv, NEW r \in Requests, NEW b \in Buckets, b = BucketOf(r),
         RunScript(r), UNCHANGED clock
  PROVE  Covered(b)'
<1> DEFINE ttl == Reset(b, Left(r)) * TicksPerSecond
<1> USE ConstantTypes, TokenBucketAssumption
<1>1. /\ bucket'[b].tokens = Left(r) /\ bucket'[b].ts = now[r]
      /\ bucket'[b].expireAt = clock + ttl
  BY DEF RunScript, IInv, TypeOK
<1>2. Full(b) - Left(r) <= Refill[b] * ttl /\ ttl \in Nat /\ Left(r) \in Nat
  BY ScriptTypes DEF IInv
<1>3. now[r] \in Nat /\ clock \in Nat /\ now[r] <= clock
  BY DEF IInv, TypeOK
<1>4. Refill[b] * ttl <= Refill[b] * (clock + ttl - now[r])
  BY <1>2, <1>3, Monotone
<1>5. Refill[b] * ttl \in Int /\ Refill[b] * (clock + ttl - now[r]) \in Int
  BY <1>2, <1>3
<1> QED
  BY <1>1, <1>2, <1>3, <1>4, <1>5 DEF Covered

(* The other buckets, and all of them in steps that run no script.         *)
LEMMA BucketKept ==
  ASSUME IInv, NEW b \in Buckets, clock' \in Nat, clock <= clock',
         bucket'[b] = bucket[b], taken'[b] = taken[b], lost'[b] = lost[b],
         rewound'[b] = rewound[b]
  PROVE  Budget(b)' /\ Covered(b)'
BY DEF IInv, TypeOK, Budget, Covered

LEMMA ScriptKeeps ==
  ASSUME IInv, TypeOK', NEW r \in Requests, RunScript(r), UNCHANGED <<clock, now>>
  PROVE  IInv'
<1>1. ASSUME NEW b \in Buckets PROVE Budget(b)' /\ Covered(b)'
  <2>1. CASE b = BucketOf(r)
    BY <2>1, ScriptKeepsBudget, ScriptKeepsCover
  <2>2. CASE b # BucketOf(r)
    <3>1. bucket'[b] = bucket[b] /\ taken'[b] = taken[b] /\ rewound'[b] = rewound[b]
      BY <2>2 DEF RunScript, IInv, TypeOK
    <3> QED
      BY <3>1, BucketKept DEF RunScript, IInv, TypeOK
  <2> QED
    BY <2>1, <2>2
<1> QED
  BY <1>1 DEF IInv

(* A lost key starts over with a full bucket, at the price of one capacity.*)
LEMMA LoseKeyKeeps ==
  ASSUME IInv, TypeOK', NEW k \in Buckets, LoseKey(k)
  PROVE  IInv'
<1> USE ConstantTypes
<1>1. ASSUME NEW b \in Buckets PROVE Budget(b)' /\ Covered(b)'
  <2>1. CASE b # k
    BY <2>1, BucketKept DEF LoseKey, IInv, TypeOK
  <2>2. CASE b = k
    <3>1. /\ bucket'[b] = [tokens |-> Full(b), ts |-> bucket[b].ts, expireAt |-> bucket[b].ts]
          /\ lost'[b] = lost[b] + 1 /\ taken' = taken /\ rewound' = rewound /\ clock' = clock
      BY <2>2 DEF LoseKey, IInv, TypeOK
    <3>2. /\ bucket[b].ts \in Nat /\ bucket[b].tokens \in Nat /\ taken[b] \in Nat
          /\ lost[b] \in Nat /\ rewound[b] \in Nat
      BY DEF IInv, TypeOK
    <3>3. Full(b) * (1 + (lost[b] + 1)) = Full(b) * (1 + lost[b]) + Full(b)
      BY <3>2
    <3>4. /\ taken[b] * Cost \in Nat /\ Full(b) * (1 + lost[b]) \in Nat
          /\ Refill[b] * (bucket[b].ts + rewound[b]) \in Nat
      BY <3>2, Product, TokenBucketAssumption
    <3>5. Budget(b)'
      BY <3>1, <3>2, <3>3, <3>4 DEF IInv, Budget
    <3>6. Covered(b)'
      BY <3>1, <3>2 DEF IInv, Covered
    <3> QED
      BY <3>5, <3>6
  <2> QED
    BY <2>1, <2>2
<1>2. \A r \in Requests : now'[r] <= clock'
  BY DEF LoseKey, requestVars, IInv
<1> QED
  BY <1>1, <1>2 DEF IInv

LEMMA InitIInv == Init => IInv
<1> SUFFICES ASSUME Init PROVE IInv
  OBVIOUS
<1>1. TypeOK
  BY ConstantTypes, TokenBucketAssumption DEF Init, TypeOK, Phases, Limiters
<1>2. ASSUME NEW b \in Buckets PROVE Budget(b) /\ Covered(b)
  BY ConstantTypes, TokenBucketAssumption DEF Init, Budget, Covered
<1> QED
  BY <1>1, <1>2 DEF Init, IInv

(* The inductive invariant holds in every behaviour.                       *)
THEOREM InductiveInvariant == Spec => []IInv
<1>1. IInv /\ TypeOK' /\ [Next]_vars => IInv'
  <2> SUFFICES ASSUME IInv, TypeOK', [Next]_vars PROVE IInv'
    OBVIOUS
  <2>1. ASSUME NEW r \in Requests,
               EvalSha(r) \/ Eval(r) \/ EvalShaReplyLost(r) \/ EvalReplyLost(r)
        PROVE  IInv'
    BY <2>1, ScriptKeeps DEF EvalSha, Eval, EvalShaReplyLost, EvalReplyLost
  <2>2. ASSUME NEW r \in Requests, Arrive(r) \/ ReadTime(r) \/ EvalShaRaises(r) \/ RedisError(r)
        PROVE  IInv'
    <3>1. UNCHANGED <<clock, bucket, historyVars>>
      BY <2>2 DEF Arrive, ReadTime, EvalShaRaises, RedisError
    <3>2. \A x \in Requests : now'[x] <= clock'
      BY <2>2 DEF IInv, TypeOK, Arrive, ReadTime, EvalShaRaises, RedisError
    <3> QED
      BY <3>1, <3>2, BucketKept DEF IInv, TypeOK, historyVars
  <2>3. CASE Tick
    <3>1. UNCHANGED <<bucket, requestVars, historyVars>> /\ clock' = clock + 1
      BY <2>3 DEF Tick
    <3> QED
      BY <3>1, BucketKept DEF IInv, TypeOK, requestVars, historyVars
  <2>4. ASSUME NEW b \in Buckets, LoseKey(b) PROVE IInv'
    BY <2>4, LoseKeyKeeps
  <2>5. CASE UNCHANGED vars
    BY <2>5, BucketKept DEF vars, IInv, TypeOK
  <2> QED
    BY <2>1, <2>2, <2>3, <2>4, <2>5 DEF Next, Step, Quiescent
<1>2. QED
  BY <1>1, InitIInv, TypeInvariant, PTL DEF Spec

(* A bucket gives away its capacity and its refill, plus a capacity for    *)
(* every lost key, plus the refill of the time by which readings arrived   *)
(* out of order.                                                           *)
THEOREM BoundedAdmission == Spec => []AdmissionBound
<1>1. IInv => AdmissionBound
  <2> SUFFICES ASSUME IInv, NEW b \in Buckets
               PROVE  taken[b] * Cost
                        <= Full(b) * (1 + lost[b]) + Refill[b] * (clock + rewound[b])
    BY DEF AdmissionBound
  <2> USE ConstantTypes, TokenBucketAssumption
  <2>1. /\ clock \in Nat /\ taken[b] \in Nat /\ lost[b] \in Nat /\ rewound[b] \in Nat
        /\ bucket[b].ts \in Nat /\ bucket[b].tokens \in Nat /\ bucket[b].ts <= clock
    BY DEF IInv, TypeOK, Covered
  <2>2. Refill[b] * (bucket[b].ts + rewound[b]) <= Refill[b] * (clock + rewound[b])
    BY <2>1, Monotone
  <2>3. /\ taken[b] * Cost \in Nat /\ Full(b) * (1 + lost[b]) \in Nat
        /\ Refill[b] * (bucket[b].ts + rewound[b]) \in Nat
        /\ Refill[b] * (clock + rewound[b]) \in Nat
    BY <2>1, Product
  <2> QED
    BY <2>1, <2>2, <2>3 DEF IInv, Budget
<1>2. QED
  BY <1>1, InductiveInvariant, PTL

(* A key expires only when its bucket would be full again.                 *)
THEOREM HarmlessExpiry == Spec => []ExpiryIsHarmless
<1>1. IInv => ExpiryIsHarmless
  <2> SUFFICES ASSUME IInv, NEW b \in Buckets, ~ Live(b)
               PROVE  bucket[b].tokens + Refill[b] * (clock - bucket[b].ts) >= Full(b)
    BY DEF ExpiryIsHarmless
  <2> USE ConstantTypes
  <2>1. /\ clock \in Nat /\ bucket[b].ts \in Nat /\ bucket[b].tokens \in Nat
        /\ bucket[b].expireAt \in Nat /\ bucket[b].expireAt <= clock
    BY DEF IInv, TypeOK, Live
  <2>2. Refill[b] * (bucket[b].expireAt - bucket[b].ts) <= Refill[b] * (clock - bucket[b].ts)
    BY <2>1, Monotone
  <2>3. /\ Refill[b] * (bucket[b].expireAt - bucket[b].ts) \in Int
        /\ Refill[b] * (clock - bucket[b].ts) \in Int
    BY <2>1
  <2> QED
    BY <2>1, <2>2, <2>3 DEF IInv, Covered
<1>2. QED
  BY <1>1, InductiveInvariant, PTL

-----------------------------------------------------------------------------
(* WHO PASSES                                                              *)

PassInv ==
  /\ TypeOK
  /\ \A r \in Requests : phase[r] = "admitted" => stage[r] = "global"
  /\ PassersPay

PastOwn(b)    == {r \in Requests : b = PerKey[r] /\ stage[r] = "global"}
PastGlobal(b) == {r \in Requests : b = Global /\ phase[r] = "admitted"}

LEMMA PassersAreFinite ==
  ASSUME NEW b \in Buckets
  PROVE  /\ IsFiniteSet(PastOwn(b)) /\ Cardinality(PastOwn(b)) \in Nat
         /\ IsFiniteSet(PastGlobal(b)) /\ Cardinality(PastGlobal(b)) \in Nat
<1>1. PastOwn(b) \subseteq Requests /\ PastGlobal(b) \subseteq Requests
  BY DEF PastOwn, PastGlobal
<1> QED
  BY <1>1, FS_Subset, FS_CardinalityType, TokenBucketAssumption

(* A step that lets nobody through, whatever it takes.                     *)
LEMMA NobodyPasses ==
  ASSUME PassInv, TypeOK', stage' = stage,
         \A r \in Requests : phase'[r] = "admitted" <=> phase[r] = "admitted",
         \A b \in Buckets : taken[b] <= taken'[b]
  PROVE  PassInv'
<1>1. ASSUME NEW b \in Buckets
      PROVE  LetThrough(b)' <= taken'[b]
  <2>1. PastOwn(b)' = PastOwn(b) /\ PastGlobal(b)' = PastGlobal(b)
    BY DEF PastOwn, PastGlobal
  <2>2. Cardinality(PastOwn(b)) + Cardinality(PastGlobal(b)) <= taken[b]
    BY DEF PassInv, PassersPay, LetThrough, PastOwn, PastGlobal
  <2>3. Cardinality(PastOwn(b)') + Cardinality(PastGlobal(b)') <= taken'[b]
    <3>1. taken[b] \in Nat /\ taken'[b] \in Nat
      BY DEF PassInv, TypeOK
    <3> QED
      BY <2>1, <2>2, <3>1, PassersAreFinite
  <2> QED
    BY <2>3 DEF LetThrough, PastOwn, PastGlobal
<1> QED
  BY <1>1 DEF PassInv, PassersPay

(* The script's "allowed" is a token taken, and one request let through.   *)
LEMMA ReplyPays ==
  ASSUME PassInv, TypeOK', NEW r \in Requests, phase[r] \in {"evalsha", "eval"},
         RunScript(r), Reply(r)
  PROVE  PassInv'
<1> DEFINE k == BucketOf(r)
<1>1. TypeOK /\ k \in Buckets
  BY BucketOfType DEF PassInv
<1>2. taken' = [taken EXCEPT ![k] = @ + (IF Allowed(r) THEN 1 ELSE 0)]
  BY DEF RunScript
<1>3. \A b \in Buckets : taken'[b] = IF b = k /\ Allowed(r) THEN taken[b] + 1 ELSE taken[b]
  BY <1>1, <1>2 DEF TypeOK
<1>4. CASE ~ Allowed(r)
  <2>1. stage' = stage /\ phase' = [phase EXCEPT ![r] = "denied"]
    BY <1>4 DEF Reply, Goto
  <2>2. \A p \in Requests : phase'[p] = "admitted" <=> phase[p] = "admitted"
    BY <1>1, <2>1 DEF TypeOK
  <2>3. \A b \in Buckets : taken[b] <= taken'[b]
    BY <1>1, <1>3, <1>4 DEF TypeOK
  <2> QED
    BY <2>1, <2>2, <2>3, NobodyPasses
<1>5. CASE Allowed(r)
  <2>1. \A b \in Buckets : taken'[b] = IF b = k THEN taken[b] + 1 ELSE taken[b]
    BY <1>3, <1>5
  <2>2. ASSUME NEW b \in Buckets
        PROVE  Cardinality(PastOwn(b)') + Cardinality(PastGlobal(b)')
                 = Cardinality(PastOwn(b)) + Cardinality(PastGlobal(b))
                   + (IF b = k THEN 1 ELSE 0)
    <3>1. CASE stage[r] = "per_key"
      <4>1. /\ phase' = [phase EXCEPT ![r] = "time"]
            /\ stage' = [stage EXCEPT ![r] = "global"] /\ k = PerKey[r]
        BY <1>5, <3>1 DEF Reply, Goto, BucketOf
      <4>2. PastGlobal(b)' = PastGlobal(b)
        BY <1>1, <4>1 DEF TypeOK, PastGlobal
      <4>3. PastOwn(b)' = IF b = k THEN PastOwn(b) \cup {r} ELSE PastOwn(b)
        BY <1>1, <4>1 DEF TypeOK, PastOwn
      <4>4. r \notin PastOwn(b)
        BY <3>1 DEF PastOwn
      <4>5. Cardinality(PastOwn(b)') = Cardinality(PastOwn(b)) + (IF b = k THEN 1 ELSE 0)
        <5>1. Cardinality(PastOwn(b) \cup {r}) = Cardinality(PastOwn(b)) + 1
          BY <4>4, PassersAreFinite, FS_AddElement
        <5>2. CASE b = k
          BY <4>3, <5>1, <5>2
        <5>3. CASE b # k
          BY <4>3, <5>3, PassersAreFinite
        <5> QED
          BY <5>2, <5>3
      <4> QED
        BY <4>2, <4>5, PassersAreFinite
    <3>2. CASE stage[r] = "global"
      <4>1. phase' = [phase EXCEPT ![r] = "admitted"] /\ stage' = stage /\ k = Global
        BY <1>5, <3>2 DEF Reply, Goto, BucketOf
      <4>2. PastOwn(b)' = PastOwn(b)
        BY <4>1 DEF PastOwn
      <4>3. PastGlobal(b)' = IF b = k THEN PastGlobal(b) \cup {r} ELSE PastGlobal(b)
        BY <1>1, <4>1 DEF TypeOK, PastGlobal
      <4>4. r \notin PastGlobal(b)
        BY DEF PastGlobal
      <4>5. Cardinality(PastGlobal(b)')
              = Cardinality(PastGlobal(b)) + (IF b = k THEN 1 ELSE 0)
        <5>1. Cardinality(PastGlobal(b) \cup {r}) = Cardinality(PastGlobal(b)) + 1
          BY <4>4, PassersAreFinite, FS_AddElement
        <5>2. CASE b = k
          BY <4>3, <5>1, <5>2
        <5>3. CASE b # k
          BY <4>3, <5>3, PassersAreFinite
        <5> QED
          BY <5>2, <5>3
      <4> QED
        BY <4>2, <4>5, PassersAreFinite
    <3> QED
      BY <1>1, <3>1, <3>2 DEF TypeOK, Limiters
  <2>3. ASSUME NEW b \in Buckets
        PROVE  LetThrough(b)' <= taken'[b]
    <3>1. Cardinality(PastOwn(b)) + Cardinality(PastGlobal(b)) <= taken[b]
      BY DEF PassInv, PassersPay, LetThrough, PastOwn, PastGlobal
    <3>2. taken[b] \in Nat
      BY <1>1 DEF TypeOK
    <3>3. Cardinality(PastOwn(b)') + Cardinality(PastGlobal(b)') <= taken'[b]
      BY <2>1, <2>2, <3>1, <3>2, PassersAreFinite
    <3> QED
      BY <3>3 DEF LetThrough, PastOwn, PastGlobal
  <2>4. \A p \in Requests : phase'[p] = "admitted" => stage'[p] = "global"
    BY <1>1, <1>5 DEF Reply, Goto, PassInv, TypeOK, Limiters
  <2> QED
    BY <2>3, <2>4 DEF PassInv, PassersPay
<1> QED
  BY <1>4, <1>5

(* No exception, lost script or lost reply opens the gate: whoever is past *)
(* a bucket has cost it a token, for any number of requests and retries.   *)
THEOREM NobodyPassesFree == Spec => []PassersPay
<1>1. Init => PassInv
  <2> SUFFICES ASSUME Init PROVE PassInv
    OBVIOUS
  <2>1. TypeOK
    BY InitIInv DEF IInv
  <2>2. ASSUME NEW b \in Buckets
        PROVE  LetThrough(b) <= taken[b]
    <3>1. PastOwn(b) = {} /\ PastGlobal(b) = {}
      BY DEF Init, PastOwn, PastGlobal
    <3>2. Cardinality(PastOwn(b)) = 0 /\ Cardinality(PastGlobal(b)) = 0 /\ taken[b] = 0
      BY <3>1, FS_EmptySet DEF Init
    <3> QED
      BY <3>2 DEF LetThrough, PastOwn, PastGlobal
  <2> QED
    BY <2>1, <2>2 DEF Init, PassInv, PassersPay
<1>2. PassInv /\ TypeOK' /\ [Next]_vars => PassInv'
  <2> SUFFICES ASSUME PassInv, TypeOK', [Next]_vars PROVE PassInv'
    OBVIOUS
  <2>1. ASSUME NEW r \in Requests, EvalSha(r) \/ Eval(r) PROVE PassInv'
    BY <2>1, ReplyPays DEF EvalSha, Eval
  <2>2. ASSUME NEW r \in Requests, EvalShaReplyLost(r) \/ EvalReplyLost(r) PROVE PassInv'
    <3>1. /\ stage' = stage /\ phase[r] \in {"evalsha", "eval"} /\ RunScript(r)
          /\ Goto(r, "eval") \/ Goto(r, "failed")
      BY <2>2 DEF EvalShaReplyLost, EvalReplyLost
    <3>2. \A p \in Requests : phase'[p] = "admitted" <=> phase[p] = "admitted"
      BY <3>1 DEF Goto, PassInv, TypeOK
    <3>3. \A b \in Buckets : taken[b] <= taken'[b]
      BY <3>1 DEF RunScript, PassInv, TypeOK
    <3> QED
      BY <3>1, <3>2, <3>3, NobodyPasses
  <2>3. ASSUME NEW r \in Requests, Arrive(r) \/ ReadTime(r) \/ EvalShaRaises(r) \/ RedisError(r)
        PROVE  PassInv'
    <3>1. /\ stage' = stage /\ taken' = taken /\ phase[r] # "admitted"
          /\ \E p \in Phases \ {"admitted"} : Goto(r, p)
      BY <2>3 DEF Arrive, ReadTime, EvalShaRaises, RedisError, historyVars, Phases
    <3>2. \A p \in Requests : phase'[p] = "admitted" <=> phase[p] = "admitted"
      BY <3>1 DEF Goto, PassInv, TypeOK
    <3>3. \A b \in Buckets : taken[b] <= taken'[b]
      BY <3>1 DEF PassInv, TypeOK
    <3> QED
      BY <3>1, <3>2, <3>3, NobodyPasses
  <2>4. ASSUME stage' = stage /\ phase' = phase /\ taken' = taken PROVE PassInv'
    <3>1. \A b \in Buckets : taken[b] <= taken'[b]
      BY <2>4 DEF PassInv, TypeOK
    <3> QED
      BY <2>4, <3>1, NobodyPasses
  <2>5. CASE Tick
    BY <2>4, <2>5 DEF Tick, requestVars, historyVars
  <2>6. ASSUME NEW b \in Buckets, LoseKey(b) PROVE PassInv'
    BY <2>4, <2>6 DEF LoseKey, requestVars
  <2>7. CASE UNCHANGED vars
    BY <2>4, <2>7 DEF vars
  <2> QED
    BY <2>1, <2>2, <2>3, <2>5, <2>6, <2>7 DEF Next, Step, Quiescent
<1>3. PassInv => PassersPay
  BY DEF PassInv
<1> QED
  BY <1>1, <1>2, <1>3, TypeInvariant, PTL DEF Spec

-----------------------------------------------------------------------------
(* RETRY-AFTER                                                             *)

(* Rounding up adds less than one divisor.                                 *)
LEMMA CeilDivTight ==
  ASSUME NEW x \in Nat, NEW y \in Nat \ {0}
  PROVE  y * (CeilDiv(x, y) - 1) < x
<1> DEFINE n == x + y - 1
           q == n \div y
<1>1. n \in Nat
  OBVIOUS
<1>2. q \in Int /\ y * q <= n
  BY <1>1
<1>3. y * (q - 1) = y * q - y /\ y * q \in Int
  BY <1>2
<1> QED
  BY <1>2, <1>3 DEF CeilDiv

(* What a denial says is what the script left: for all rates and           *)
(* capacities, the header is the least number of whole seconds after which *)
(* the bucket has a token again, or 1.                                     *)
THEOREM RetryAfterExact == Spec => RetryAfterIsExact
<1>1. ASSUME TypeOK, [Next]_vars, NEW r \in Requests,
             phase[r] # "denied", phase'[r] = "denied"
      PROVE  LET b == BucketOf(r)
                 After(s) == bucket'[b].tokens + Refill[b] * s * TicksPerSecond
             IN  /\ After(retry'[r]) >= Cost
                 /\ retry'[r] > 1 => After(retry'[r] - 1) < Cost
  <2> DEFINE b == BucketOf(r)
             y == Refill[b] * TicksPerSecond
             x == Cost - Left(r)
             c == CeilDiv(x, y)
             After(s) == bucket'[b].tokens + Refill[b] * s * TicksPerSecond
  <2>1. b \in Buckets
    BY <1>1, BucketOfType
  <2>2. EvalSha(r) \/ Eval(r)
    BY <1>1 DEF Next, Step, Arrive, ReadTime, EvalSha, EvalShaRaises, EvalShaReplyLost,
                Eval, EvalReplyLost, RedisError, Tick, LoseKey, Quiescent, vars, requestVars,
                Reply, Goto, TypeOK
  <2>3. RunScript(r) /\ Reply(r)
    BY <2>2 DEF EvalSha, Eval
  <2>4. ~ Allowed(r) /\ retry'[r] = AtLeast(c, 1)
    BY <1>1, <2>2, <2>3 DEF Reply, Goto, TypeOK, RetryAfter, EvalSha, Eval
  <2>5. Left(r) \in Nat /\ Left(r) < Cost /\ bucket'[b].tokens = Left(r)
    <3>1. Left(r) \in Nat /\ Left(r) < Cost
      BY <1>1, <2>1, <2>4, ScriptTypes, ConstantTypes, TokenBucketAssumption DEF Left, Allowed
    <3>2. bucket'[b].tokens = Left(r)
      BY <1>1, <2>1, <2>3 DEF RunScript, TypeOK
    <3> QED
      BY <3>1, <3>2
  <2>6. x \in Nat \ {0} /\ y \in Nat \ {0}
    BY <2>1, <2>5, ConstantTypes, TokenBucketAssumption
  <2>7. c \in Nat /\ y * c >= x /\ y * (c - 1) < x
    BY <2>6, CeilDivCovers, CeilDivTight
  <2>8. ASSUME NEW s \in Nat
        PROVE  After(s) = Left(r) + y * s /\ y * s \in Nat
    <3>1. Refill[b] * s * TicksPerSecond = y * s
      BY <2>1, <2>8, ConstantTypes, TokenBucketAssumption
    <3>2. y * s \in Nat
      BY <2>6, <2>8, Product
    <3> QED
      BY <2>5, <3>1, <3>2
  <2> HIDE DEF After, x, y, c
  <2>9. After(retry'[r]) >= Cost
    <3>1. retry'[r] \in Nat /\ c <= retry'[r]
      BY <2>4, <2>7 DEF AtLeast
    <3>2. y * c <= y * retry'[r]
      BY <2>6, <2>7, <3>1, Monotone
    <3>3. After(retry'[r]) = Left(r) + y * retry'[r] /\ y * retry'[r] \in Nat
      BY <2>8, <3>1
    <3>4. y * c \in Nat
      BY <2>6, <2>7, Product
    <3> QED
      BY <2>5, <2>6, <2>7, <3>2, <3>3, <3>4, TokenBucketAssumption DEF x
  <2>10. ASSUME retry'[r] > 1 PROVE After(retry'[r] - 1) < Cost
    <3>1. retry'[r] = c /\ c - 1 \in Nat
      BY <2>4, <2>7, <2>10 DEF AtLeast
    <3>2. After(c - 1) = Left(r) + y * (c - 1) /\ y * (c - 1) \in Nat
      BY <2>8, <3>1
    <3>3. After(c - 1) < Cost
      BY <2>5, <2>7, <3>2, TokenBucketAssumption DEF x
    <3> QED
      BY <3>1, <3>3
  <2> QED
    BY <2>9, <2>10 DEF After
<1>2. TypeOK /\ [Next]_vars =>
        [\A r \in Requests :
           phase[r] # "denied" /\ phase'[r] = "denied" =>
             LET b == BucketOf(r)
                 After(s) == bucket'[b].tokens + Refill[b] * s * TicksPerSecond
             IN  /\ After(retry'[r]) >= Cost
                 /\ retry'[r] > 1 => After(retry'[r] - 1) < Cost]_vars
  BY <1>1
<1> QED
  BY <1>2, TypeInvariant, PTL DEF Spec, RetryAfterIsExact

=============================================================================
