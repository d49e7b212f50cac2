---------------------------- MODULE BulkUpsertProofs ----------------------------
(***************************************************************************)
(* Proofs about BulkUpsert, for any number of requests and keys and any    *)
(* batches: what the loop over the rows computes, and that batches take    *)
(* effect one at a time, as AtomicBatches promises.                        *)
(***************************************************************************)
EXTENDS BulkUpsert, NaturalsLemmas

-----------------------------------------------------------------------------
(* THE LOOP                                                                *)

(* One pass of the loop, as tlapm sees the function kept of Norm.          *)
Pass(b, f, i) == IF i = 0 THEN <<>> ELSE Keep(b, f[i - 1], i)
IsLoop(b, f, n) == f = [i \in 0 .. n |-> Pass(b, f, i)]

(* The recursion of Norm defines a function.                               *)
LEMMA LoopExists ==
  ASSUME NEW b, NEW n \in Nat
  PROVE  \E f : IsLoop(b, f, n)
<1> DEFINE S == {m \in Nat : \E f : IsLoop(b, f, m)}
<1>1. 0 \in S
  <2>1. IsLoop(b, [i \in 0 .. 0 |-> <<>>], 0)
    BY DEF IsLoop, Pass
  <2> QED
    BY <2>1
<1>2. ASSUME NEW m \in Nat, m \in S PROVE m + 1 \in S
  <2>1. PICK f : IsLoop(b, f, m)
    BY <1>2
  <2> DEFINE g == [i \in 0 .. m + 1 |-> IF i <= m THEN f[i] ELSE Keep(b, f[m], m + 1)]
  <2>2. \A i \in 0 .. m + 1 : g[i] = Pass(b, g, i)
    <3> SUFFICES ASSUME NEW i \in 0 .. m + 1 PROVE g[i] = Pass(b, g, i)
      OBVIOUS
    <3>1. CASE i = m + 1
      BY <3>1 DEF Pass
    <3>2. CASE i # m + 1
      <4>1. i \in 0 .. m /\ (i # 0 => i - 1 \in 0 .. m)
        BY <3>2
      <4>2. f[i] = Pass(b, f, i)
        BY <2>1, <4>1 DEF IsLoop
      <4>3. g[i] = f[i] /\ (i # 0 => g[i - 1] = f[i - 1])
        BY <4>1
      <4> QED
        BY <4>2, <4>3 DEF Pass
    <3> QED
      BY <3>1, <3>2
  <2>3. IsLoop(b, g, m + 1)
    BY <2>2 DEF IsLoop
  <2> QED
    BY <2>3
<1> HIDE DEF S
<1>3. n \in S
  BY <1>1, <1>2, NaturalsAreInductive
<1> QED
  BY <1>3 DEF S

(* Norm is what is kept after the last row.                                *)
LEMMA NormIsLoop ==
  ASSUME NEW b, Len(b) \in Nat
  PROVE  \E f : Norm(b) = f[Len(b)] /\ IsLoop(b, f, Len(b))
<1> DEFINE P(f) == IsLoop(b, f, Len(b))
<1>1. \E f : P(f)
  BY LoopExists
<1>2. P(CHOOSE f : P(f))
  BY <1>1
<1>3. (CHOOSE f : P(f)) = CHOOSE f : f = [i \in 0 .. Len(b) |-> IF i = 0 THEN <<>> ELSE Keep(b, f[i - 1], i)]
  BY DEF IsLoop, Pass
<1> QED
  BY <1>2, <1>3 DEF Norm

(* What the loop has made of the first i rows of b: one row of each key    *)
(* that was named, the newest (of equals the later), in the order in which *)
(* the keys were first named.                                              *)
OneOfEach(b, s) == \A m, n \in DOMAIN s : b[s[m]].key = b[s[n]].key => m = n

AllNamed(b, s, i) == \A j \in 1 .. i : \E n \in DOMAIN s : b[s[n]].key = b[j].key

Younger(b, j, i) == b[j].at < b[i].at \/ (b[j].at = b[i].at /\ j < i)

NewestKept(b, s, i) ==
  \A n \in DOMAIN s, j \in 1 .. i :
    b[j].key = b[s[n]].key /\ j # s[n] => Younger(b, j, s[n])

NamedBefore(b, k, m, i) ==
  \E j \in 1 .. i : b[j].key = k /\ \A l \in 1 .. j : b[l].key # m

InOrder(b, s, i) ==
  \A m, n \in DOMAIN s : m < n => NamedBefore(b, b[s[m]].key, b[s[n]].key, i)

Deduplicated(b, s, i) ==
  /\ s \in Seq(1 .. i)
  /\ OneOfEach(b, s) /\ AllNamed(b, s, i) /\ NewestKept(b, s, i) /\ InOrder(b, s, i)

(* A row of a new key is appended.                                         *)
LEMMA KeepNew ==
  ASSUME NEW b \in Seq(Rows), NEW i \in Nat, i + 1 <= Len(b), NEW s, Deduplicated(b, s, i),
         {n \in DOMAIN s : b[s[n]].key = b[i + 1].key} = {}
  PROVE  Deduplicated(b, Keep(b, s, i + 1), i + 1)
<1> DEFINE t == Append(s, i + 1)
<1>1. Keep(b, s, i + 1) = t
  BY DEF Keep
<1>2. s \in Seq(1 .. i)
  BY DEF Deduplicated
<1>3. \A n \in DOMAIN s : b[s[n]].key # b[i + 1].key
  OBVIOUS
<1>4. /\ DOMAIN t = 1 .. Len(s) + 1 /\ DOMAIN s = 1 .. Len(s) /\ Len(s) \in Nat
      /\ t[Len(s) + 1] = i + 1 /\ \A n \in DOMAIN s : t[n] = s[n] /\ s[n] \in 1 .. i
  BY <1>2
<1>5. t \in Seq(1 .. i + 1)
  <2>1. s \in Seq(1 .. i + 1)
    BY <1>2, <1>4
  <2> QED
    BY <2>1
<1> HIDE DEF t
<1>6. OneOfEach(b, t)
  <2> SUFFICES ASSUME NEW m \in DOMAIN t, NEW n \in DOMAIN t, b[t[m]].key = b[t[n]].key
               PROVE  m = n
    BY DEF OneOfEach
  <2>1. CASE m \in DOMAIN s /\ n \in DOMAIN s
    BY <1>4, <2>1 DEF Deduplicated, OneOfEach
  <2>2. CASE m \notin DOMAIN s \/ n \notin DOMAIN s
    BY <1>3, <1>4, <2>2
  <2> QED
    BY <2>1, <2>2
<1>7. AllNamed(b, t, i + 1)
  <2> SUFFICES ASSUME NEW j \in 1 .. i + 1
               PROVE  \E n \in DOMAIN t : b[t[n]].key = b[j].key
    BY DEF AllNamed
  <2>1. CASE j = i + 1
    BY <1>4, <2>1
  <2>2. CASE j # i + 1
    <3>1. PICK n \in DOMAIN s : b[s[n]].key = b[j].key
      BY <2>2 DEF Deduplicated, AllNamed
    <3> QED
      BY <1>4, <3>1
  <2> QED
    BY <2>1, <2>2
<1>8. \A j \in 1 .. i : b[j].key # b[i + 1].key
  BY <1>3 DEF Deduplicated, AllNamed
<1>9. NewestKept(b, t, i + 1)
  <2> SUFFICES ASSUME NEW n \in DOMAIN t, NEW j \in 1 .. i + 1,
                      b[j].key = b[t[n]].key, j # t[n]
               PROVE  Younger(b, j, t[n])
    BY DEF NewestKept
  <2>1. n \in DOMAIN s
    BY <1>4, <1>8
  <2>2. j \in 1 .. i
    BY <1>3, <1>4, <2>1
  <2> QED
    BY <1>4, <2>1, <2>2 DEF Deduplicated, NewestKept
<1>10. InOrder(b, t, i + 1)
  <2> SUFFICES ASSUME NEW m \in DOMAIN t, NEW n \in DOMAIN t, m < n
               PROVE  NamedBefore(b, b[t[m]].key, b[t[n]].key, i + 1)
    BY DEF InOrder
  <2>1. m \in DOMAIN s /\ t[m] = s[m]
    BY <1>4
  <2>2. CASE n \in DOMAIN s
    <3>0. t[n] = s[n]
      BY <1>4, <2>2
    <3>1. NamedBefore(b, b[s[m]].key, b[s[n]].key, i)
      BY <2>1, <2>2 DEF Deduplicated, InOrder
    <3> QED
      BY <3>0, <2>1, <3>1 DEF NamedBefore
  <2>3. CASE n \notin DOMAIN s
    <3>1. t[n] = i + 1 /\ s[m] \in 1 .. i
      BY <1>4, <2>1, <2>3
    <3>2. \A l \in 1 .. s[m] : b[l].key # b[i + 1].key
      BY <1>8, <3>1
    <3> QED
      BY <2>1, <3>1, <3>2 DEF NamedBefore
  <2> QED
    BY <2>2, <2>3
<1> QED
  BY <1>1, <1>5, <1>6, <1>7, <1>9, <1>10 DEF Deduplicated

(* A row of a key that is there takes its place, if it is not older.       *)
LEMMA KeepAgain ==
  ASSUME NEW b \in Seq(Rows), NEW i \in Nat, i + 1 <= Len(b), NEW s, Deduplicated(b, s, i),
         NEW p \in DOMAIN s, b[s[p]].key = b[i + 1].key
  PROVE  Deduplicated(b, Keep(b, s, i + 1), i + 1)
<1> DEFINE t == [n \in DOMAIN s |-> IF n = p /\ b[i + 1].at >= b[s[n]].at THEN i + 1 ELSE s[n]]
<1>1. s \in Seq(1 .. i)
  BY DEF Deduplicated
<1>2. \A n \in DOMAIN s : b[s[n]].key = b[i + 1].key <=> n = p
  BY DEF Deduplicated, OneOfEach
<1>3. Keep(b, s, i + 1) = t
  BY <1>2 DEF Keep
<1>4. /\ DOMAIN t = DOMAIN s /\ DOMAIN s = 1 .. Len(s) /\ Len(s) \in Nat
      /\ \A n \in DOMAIN s : s[n] \in 1 .. i
  BY <1>1
<1>5. t \in Seq(1 .. i + 1)
  BY <1>4
<1>6. \A j \in 1 .. i + 1 : b[j].at \in Nat
  <2> TAKE j \in 1 .. i + 1
  <2>1. b[j] \in Rows
    OBVIOUS
  <2> QED
    BY <2>1 DEF Rows
<1>7. \A n \in DOMAIN s : b[t[n]].key = b[s[n]].key
  BY <1>2
<1>8. \A n \in DOMAIN s : n # p => t[n] = s[n]
  OBVIOUS
<1>9. t[p] = IF b[i + 1].at >= b[s[p]].at THEN i + 1 ELSE s[p]
  OBVIOUS
<1> HIDE DEF t
<1>10. OneOfEach(b, t)
  BY <1>4, <1>7 DEF Deduplicated, OneOfEach
<1>11. AllNamed(b, t, i + 1)
  <2> SUFFICES ASSUME NEW j \in 1 .. i + 1
               PROVE  \E n \in DOMAIN t : b[t[n]].key = b[j].key
    BY DEF AllNamed
  <2>1. CASE j = i + 1
    BY <1>4, <1>7, <2>1
  <2>2. CASE j # i + 1
    <3>1. PICK n \in DOMAIN s : b[s[n]].key = b[j].key
      BY <2>2 DEF Deduplicated, AllNamed
    <3> QED
      BY <1>4, <1>7, <3>1
  <2> QED
    BY <2>1, <2>2
<1>12. NewestKept(b, t, i + 1)
  <2> SUFFICES ASSUME NEW n \in DOMAIN s, NEW j \in 1 .. i + 1,
                      b[j].key = b[s[n]].key, j # t[n]
               PROVE  Younger(b, j, t[n])
    BY <1>4, <1>7 DEF NewestKept
  <2>1. j \in 1 .. i /\ j # s[n] => Younger(b, j, s[n])
    BY DEF Deduplicated, NewestKept
  <2>2. CASE n # p
    <3>1. j \in 1 .. i
      BY <1>2, <2>2
    <3> QED
      BY <1>8, <2>1, <2>2, <3>1
  <2>3. CASE n = p /\ t[p] = i + 1
    <3>1. j \in 1 .. i /\ b[i + 1].at >= b[s[p]].at
      BY <1>4, <1>9, <2>3
    <3> QED
      BY <1>4, <1>6, <2>1, <2>3, <3>1 DEF Younger
  <2>4. CASE n = p /\ t[p] # i + 1
    <3>1. t[p] = s[p] /\ ~ (b[i + 1].at >= b[s[p]].at)
      BY <1>9, <2>4
    <3> QED
      BY <1>4, <1>6, <2>1, <2>4, <3>1 DEF Younger
  <2> QED
    BY <2>2, <2>3, <2>4
<1>13. InOrder(b, t, i + 1)
  <2> SUFFICES ASSUME NEW m \in DOMAIN s, NEW n \in DOMAIN s, m < n
               PROVE  NamedBefore(b, b[s[m]].key, b[s[n]].key, i + 1)
    BY <1>4, <1>7 DEF InOrder
  <2>1. NamedBefore(b, b[s[m]].key, b[s[n]].key, i)
    BY DEF Deduplicated, InOrder
  <2> QED
    BY <2>1 DEF NamedBefore
<1> QED
  BY <1>3, <1>5, <1>10, <1>11, <1>12, <1>13 DEF Deduplicated

(* What bulk_upsert_predictions makes of any list of rows.                 *)
THEOREM NormKeepsNewest ==
  ASSUME NEW b \in Seq(Rows)
  PROVE  Deduplicated(b, Norm(b), Len(b))
<1>1. PICK f : Norm(b) = f[Len(b)] /\ IsLoop(b, f, Len(b))
  BY NormIsLoop
<1> DEFINE S == {i \in Nat : i <= Len(b) => Deduplicated(b, f[i], i)}
<1>2. 0 \in S
  <2>1. f[0] = <<>>
    BY <1>1 DEF IsLoop, Pass
  <2> QED
    <3>1. f[0] \in Seq(1 .. 0) /\ DOMAIN f[0] = {} /\ 1 .. 0 = {}
      BY <2>1
    <3> QED
      BY <3>1 DEF Deduplicated, OneOfEach, AllNamed, NewestKept, InOrder
<1>3. ASSUME NEW i \in Nat, i \in S PROVE i + 1 \in S
  <2> SUFFICES ASSUME i + 1 <= Len(b) PROVE Deduplicated(b, f[i + 1], i + 1)
    OBVIOUS
  <2>1. f[i + 1] = Keep(b, f[i], i + 1)
    BY <1>1 DEF IsLoop, Pass
  <2>2. Deduplicated(b, f[i], i)
    BY <1>3
  <2> QED
    BY <2>1, <2>2, KeepNew, KeepAgain
<1> HIDE DEF S
<1>4. Nat \subseteq S
  BY <1>2, <1>3, NaturalsAreInductive
<1> QED
  BY <1>1, <1>4 DEF S

-----------------------------------------------------------------------------
(* THE INVARIANT                                                           *)

Key(r, n) == Item(r, n).key

(* The keys that r has locked for which it has written the first row that  *)
(* anybody will see.                                                       *)
FirstOf(r) == {k \in Locked(r) : Committed(k) = {}}

(* A request on its way: it works on the rows its batch comes down to,     *)
(* has written none twice, none that its columns refuse, and has counted   *)
(* the new ones.                                                           *)
WellFormed(r) ==
  /\ phase[r] = "idle" => statement[r] = <<>> /\ written[r] = 0 /\ inserted[r] = 0
  /\ phase[r] # "idle" => written[r] = 0 \/ statement[r] = Statement(batch[r])
  /\ phase[r] = "open" => /\ statement[r] = Statement(batch[r])
                          /\ ~ Unknown(r)
                          /\ IsFiniteSet(Locked(r))
                          /\ inserted[r] = Cardinality(FirstOf(r))
  /\ phase[r] = "done" <=> outcome[r] # "pending"
  /\ \A n \in DOMAIN statement[r] : statement[r][n] \in DOMAIN Items(r)
  /\ \A n \in 1 .. written[r] : Item(r, n).flaw = "none"
  /\ \A m, n \in 1 .. written[r] : Key(r, m) = Key(r, n) => m = n

(* The log names transactions that are over, each of them once.            *)
LogInv ==
  /\ \A p \in DOMAIN log : /\ phase[log[p]] = "done"
                           /\ statement[log[p]] = Statement(batch[log[p]])
                           /\ written[log[p]] = Len(statement[log[p]])
  /\ \A p, q \in DOMAIN log : log[p] = log[q] => p = q

(* The versions of a key: whoever wrote the key has one version there, an  *)
(* open transaction has the last one, and the committed ones are in the    *)
(* order of the commits.                                                   *)
Writer(k, i) == versions[k][i][1]

WrittenBy(k) ==
  \A i \in DOMAIN versions[k] :
    \E n \in 1 .. written[Writer(k, i)] :
      /\ Key(Writer(k, i), n) = k
      /\ versions[k][i] = <<Writer(k, i), statement[Writer(k, i)][n]>>

WrittenOnce(k) ==
  /\ \A i, j \in DOMAIN versions[k] : Writer(k, i) = Writer(k, j) => i = j
  /\ \A r \in Requests : \A n \in 1 .. written[r] :
       Key(r, n) = k => \E i \in DOMAIN versions[k] : Writer(k, i) = r

OpenIsLast(k) ==
  \A i \in DOMAIN versions[k] : phase[Writer(k, i)] = "open" => i = Len(versions[k])

InLogOrder(k) ==
  \A i, j \in DOMAIN versions[k], p, q \in DOMAIN log :
    i < j /\ Writer(k, i) = log[p] /\ Writer(k, j) = log[q] => p < q

ChainInv(k) == WrittenBy(k) /\ WrittenOnce(k) /\ OpenIsLast(k) /\ InLogOrder(k)

IInv ==
  /\ TypeOK
  /\ \A r \in Requests : WellFormed(r)
  /\ LogInv
  /\ \A k \in Keys : ChainInv(k)

-----------------------------------------------------------------------------
(* What the invariant says about rows and locks.                           *)

LEMMA StatementTypes ==
  ASSUME TypeOK, NEW r \in Requests
  PROVE  /\ Items(r) \in Seq(Rows)
         /\ Statement(batch[r]) \in Seq(DOMAIN Items(r))
         /\ batch[r].endpoint = "predictions" => Deduplicated(Items(r), Statement(batch[r]), Len(Items(r)))
<1>1. batch[r] \in Batches
  BY DEF TypeOK
<1>2. Items(r) \in Seq(Rows) /\ batch[r].endpoint \in {"odds", "predictions"}
  BY <1>1 DEF Items, Batches, Endpoints
<1>3. DOMAIN Items(r) = 1 .. Len(Items(r)) /\ Len(Items(r)) \in Nat
  BY <1>2
<1>4. CASE batch[r].endpoint = "odds"
  <2>1. Statement(batch[r]) = [i \in 1 .. Len(Items(r)) |-> i]
    BY <1>4 DEF Statement, Positions, Items
  <2> QED
    BY <1>2, <1>3, <1>4, <2>1
<1>5. CASE batch[r].endpoint = "predictions"
  <2>1. Statement(batch[r]) = Norm(Items(r))
    BY <1>5 DEF Statement, Items
  <2>2. Deduplicated(Items(r), Norm(Items(r)), Len(Items(r)))
    BY <1>2, NormKeepsNewest
  <2> QED
    BY <1>2, <1>3, <2>1, <2>2 DEF Deduplicated
<1> QED
  BY <1>2, <1>4, <1>5

(* What r wrote is a row of its batch.                                     *)
LEMMA ItemTypes ==
  ASSUME IInv, NEW r \in Requests, NEW n \in DOMAIN statement[r]
  PROVE  /\ statement[r][n] \in DOMAIN Items(r) /\ statement[r][n] \in Nat
         /\ Item(r, n) \in Rows /\ Key(r, n) \in Keys
<1>1. statement[r][n] \in DOMAIN Items(r) /\ Items(r) \in Seq(Rows)
  BY StatementTypes DEF IInv, WellFormed
<1>2. Item(r, n) \in Rows
  BY <1>1 DEF Item
<1> QED
  BY <1>1, <1>2 DEF Key, Rows

LEMMA ChainTypes ==
  ASSUME TypeOK, NEW k \in Keys
  PROVE  /\ versions[k] \in Seq(Requests \X Nat) /\ DOMAIN versions[k] = 1 .. Len(versions[k])
         /\ Len(versions[k]) \in Nat
         /\ \A i \in DOMAIN versions[k] : Writer(k, i) \in Requests
<1>1. versions[k] \in Seq(Requests \X Nat)
  BY DEF TypeOK
<1>2. \A i \in DOMAIN versions[k] : versions[k][i] \in Requests \X Nat
  BY <1>1
<1> QED
  BY <1>1, <1>2 DEF Writer

(* A key that r has locked has a version of r, the last one.               *)
LEMMA LockedLast ==
  ASSUME IInv, NEW r \in Requests, NEW k \in Locked(r)
  PROVE  /\ k \in Keys /\ phase[r] = "open"
         /\ Len(versions[k]) \in DOMAIN versions[k]
         /\ Writer(k, Len(versions[k])) = r
<1>1. phase[r] = "open"
  BY DEF Locked
<1>2. PICK n \in 1 .. written[r] : Key(r, n) = k
  BY <1>1 DEF Locked, Key
<1>3. n \in DOMAIN statement[r]
  BY <1>2 DEF IInv, TypeOK
<1>4. k \in Keys
  BY <1>2, <1>3, ItemTypes
<1>5. PICK i \in DOMAIN versions[k] : Writer(k, i) = r
  BY <1>2, <1>4 DEF IInv, ChainInv, WrittenOnce
<1>6. i = Len(versions[k])
  BY <1>1, <1>4, <1>5 DEF IInv, ChainInv, OpenIsLast
<1> QED
  BY <1>1, <1>4, <1>5, <1>6

(* Nobody else has it.                                                     *)
LEMMA LocksExclude ==
  ASSUME IInv, NEW r \in Requests, NEW o \in Requests, NEW k \in Locked(r), k \in Locked(o)
  PROVE  r = o
BY LockedLast

(* A version of an open transaction is one that it has locked.             *)
LEMMA WriterLocks ==
  ASSUME IInv, NEW k \in Keys, NEW i \in DOMAIN versions[k], phase[Writer(k, i)] = "open"
  PROVE  k \in Locked(Writer(k, i))
BY DEF IInv, ChainInv, WrittenBy, Locked, Key

-----------------------------------------------------------------------------
(* THE STEPS                                                               *)

LEMMA InitIInv ==
  Init => IInv
<1> SUFFICES ASSUME Init PROVE IInv
  OBVIOUS
<1>1. TypeOK
  BY BatchesAssumption DEF Init, TypeOK, Outcomes
<1>2. ASSUME NEW r \in Requests PROVE WellFormed(r)
  <2>1. /\ phase[r] = "idle" /\ outcome[r] = "pending" /\ statement[r] = <<>>
        /\ written[r] = 0 /\ inserted[r] = 0 /\ 1 .. 0 = {} /\ DOMAIN <<>> = {}
    BY DEF Init
  <2> QED
    BY <2>1 DEF WellFormed
<1>3. LogInv
  BY DEF Init, LogInv
<1>4. \A k \in Keys : ChainInv(k)
  BY DEF Init, ChainInv, WrittenBy, WrittenOnce, OpenIsLast, InLogOrder
<1> QED
  BY <1>1, <1>2, <1>3, <1>4 DEF IInv

(* A step that changes the phase of r alone leaves rows and locks of the   *)
(* others as they are.                                                     *)
LEMMA OthersKept ==
  ASSUME IInv, NEW r \in Requests, NEW p, phase' = [phase EXCEPT ![r] = p],
         UNCHANGED <<batch, statement, written, inserted, versions>>
  PROVE  /\ \A o \in Requests : \A n : Item(o, n)' = Item(o, n) /\ Key(o, n)' = Key(o, n)
         /\ \A o \in Requests : Items(o)' = Items(o)
         /\ \A o \in Requests \ {r} : phase'[o] = phase[o] /\ Locked(o)' = Locked(o)
         /\ phase'[r] = p
         /\ \A k, i : Writer(k, i)' = Writer(k, i)
<1>1. phase \in [Requests -> {"idle", "open", "done"}]
  BY DEF IInv, TypeOK
<1>2. \A o \in Requests : \A n : Item(o, n)' = Item(o, n) /\ Key(o, n)' = Key(o, n)
  BY DEF Item, Items, Key
<1>3. \A o \in Requests \ {r} : phase'[o] = phase[o]
  BY <1>1
<1>4. \A o \in Requests \ {r} : Locked(o)' = Locked(o)
  BY <1>2, <1>3 DEF Locked
<1> QED
  BY <1>1, <1>2, <1>3, <1>4 DEF Writer, Items

(* Versions by r are in no chain before it writes, and its end opens none; *)
(* what the end does to the log is for the caller to say.                  *)
LEMMA ChainsKept ==
  ASSUME IInv, NEW r \in Requests, NEW p \in {"open", "done"},
         phase' = [phase EXCEPT ![r] = p], p = "open" => phase[r] = "idle",
         UNCHANGED <<batch, written, versions>>,
         written[r] > 0 => statement'[r] = statement[r],
         \A o \in Requests \ {r} : statement'[o] = statement[o],
         NEW k \in Keys, UNCHANGED log \/ InLogOrder(k)'
  PROVE  ChainInv(k)'
<1>1. phase \in [Requests -> {"idle", "open", "done"}] /\ written \in [Requests -> Nat]
  BY DEF IInv, TypeOK
<1>2. \A o \in Requests : \A n \in 1 .. written[o] :
        statement'[o] = statement[o] /\ Item(o, n)' = Item(o, n) /\ Key(o, n)' = Key(o, n)
  BY <1>1 DEF Item, Items, Key
<1>3. \A i \in DOMAIN versions[k] : Writer(k, i)' = Writer(k, i) /\ Writer(k, i) \in Requests
  BY ChainTypes DEF IInv, Writer
<1>4. WrittenBy(k) /\ WrittenOnce(k) /\ OpenIsLast(k) /\ InLogOrder(k)
  BY DEF IInv, ChainInv
<1>5. WrittenBy(k)'
  <2> SUFFICES ASSUME NEW i \in DOMAIN versions[k]
               PROVE  \E n \in 1 .. written[Writer(k, i)] :
                        /\ Key(Writer(k, i), n)' = k
                        /\ versions[k][i] = <<Writer(k, i), statement'[Writer(k, i)][n]>>
    BY <1>3 DEF WrittenBy
  <2>1. PICK n \in 1 .. written[Writer(k, i)] :
          /\ Key(Writer(k, i), n) = k
          /\ versions[k][i] = <<Writer(k, i), statement[Writer(k, i)][n]>>
    BY <1>4 DEF WrittenBy
  <2> QED
    BY <1>2, <1>3, <2>1
<1>6. WrittenOnce(k)'
  BY <1>2, <1>3, <1>4 DEF WrittenOnce
<1>7. OpenIsLast(k)'
  <2> SUFFICES ASSUME NEW i \in DOMAIN versions[k], phase'[Writer(k, i)] = "open"
               PROVE  i = Len(versions[k])
    BY <1>3 DEF OpenIsLast
  <2>1. CASE Writer(k, i) # r
    BY <1>1, <1>3, <1>4, <2>1 DEF OpenIsLast
  <2>2. CASE Writer(k, i) = r
    <3>1. phase[r] = "idle"
      BY <1>1, <2>2
    <3>2. written[r] = 0
      BY <3>1 DEF IInv, WellFormed
    <3> QED
      BY <1>4, <2>2, <3>2 DEF WrittenBy
  <2> QED
    BY <2>1, <2>2
<1>8. InLogOrder(k)'
  BY <1>3, <1>4 DEF InLogOrder
<1> QED
  BY <1>5, <1>6, <1>7, <1>8 DEF ChainInv

LEMMA CommittedKept ==
  ASSUME UNCHANGED <<versions, log>>
  PROVE  \A k : Committed(k)' = Committed(k)
BY DEF Committed

(* A request ends and leaves nothing.                                      *)
LEMMA RollbackIInv ==
  ASSUME IInv, NEW r \in Requests, NEW how \in Outcomes \ {"pending"},
         phase[r] \in {"idle", "open"}, Rollback(r, how)
  PROVE  IInv'
<1>1. /\ phase' = [phase EXCEPT ![r] = "done"] /\ outcome' = [outcome EXCEPT ![r] = how]
      /\ UNCHANGED <<batch, statement, written, inserted, versions, log>>
  BY DEF Rollback, Answer
<1>2. TypeOK'
  BY <1>1 DEF IInv, TypeOK
<1>3. /\ \A o \in Requests : \A n : Item(o, n)' = Item(o, n) /\ Key(o, n)' = Key(o, n)
      /\ \A o \in Requests : Items(o)' = Items(o)
      /\ \A o \in Requests \ {r} : phase'[o] = phase[o] /\ Locked(o)' = Locked(o)
      /\ phase'[r] = "done"
  BY <1>1, OthersKept
<1>4. \A o \in Requests \ {r} : outcome'[o] = outcome[o]
  BY <1>1 DEF IInv, TypeOK
<1>5. outcome'[r] = how
  BY <1>1 DEF IInv, TypeOK
<1>6. \A o \in Requests : WellFormed(o)
  BY DEF IInv
<1>7. ASSUME NEW o \in Requests \ {r} PROVE WellFormed(o)'
  <2>1. FirstOf(o)' = FirstOf(o)
    BY <1>1, <1>3, CommittedKept DEF FirstOf
  <2>2. Unknown(o)' = Unknown(o)
    BY <1>3 DEF Unknown
  <2> QED
    BY <1>1, <1>3, <1>4, <1>6, <2>1, <2>2 DEF WellFormed
<1>8. WellFormed(r)'
  BY <1>1, <1>3, <1>5, <1>6 DEF WellFormed
<1>9. LogInv'
  BY <1>1, <1>3 DEF IInv, TypeOK, LogInv
<1>10. \A k \in Keys : ChainInv(k)'
  BY <1>1, ChainsKept
<1> QED
  BY <1>2, <1>7, <1>8, <1>9, <1>10 DEF IInv

LEMMA ExecuteIInv ==
  ASSUME IInv, NEW r \in Requests, Execute(r)
  PROVE  IInv'
<1>1. /\ phase[r] = "idle" /\ ~ Unknown(r)
      /\ phase' = [phase EXCEPT ![r] = "open"]
      /\ statement' = [statement EXCEPT ![r] = Statement(batch[r])]
      /\ UNCHANGED <<batch, written, inserted, versions, outcome, log>>
  BY DEF Execute
<1>2. written[r] = 0 /\ inserted[r] = 0 /\ outcome[r] = "pending"
  BY <1>1 DEF IInv, WellFormed, TypeOK
<1>3. statement'[r] = Statement(batch[r]) /\ \A o \in Requests \ {r} : statement'[o] = statement[o]
  BY <1>1 DEF IInv, TypeOK
<1>4. phase'[r] = "open" /\ \A o \in Requests \ {r} : phase'[o] = phase[o]
  BY <1>1 DEF IInv, TypeOK
<1>5. Statement(batch[r]) \in Seq(DOMAIN Items(r)) /\ Items(r) \in Seq(Rows)
  BY StatementTypes DEF IInv
<1>6. Statement(batch[r]) \in Seq(Nat) /\ Len(Statement(batch[r])) \in Nat
  BY <1>5
<1>7. TypeOK'
  <2>1. statement' \in [Requests -> Seq(Nat)]
    BY <1>1, <1>6 DEF IInv, TypeOK
  <2>2. phase' \in [Requests -> {"idle", "open", "done"}]
    BY <1>1 DEF IInv, TypeOK
  <2>3. ASSUME NEW o \in Requests
        PROVE  inserted[o] <= written[o] /\ written[o] <= Len(statement'[o])
    <3>1. CASE o = r
      BY <1>2, <1>3, <1>6, <3>1
    <3>2. CASE o # r
      BY <1>3, <3>2 DEF IInv, TypeOK
    <3> QED
      BY <3>1, <3>2
  <2> QED
    BY <1>1, <2>1, <2>2, <2>3 DEF IInv, TypeOK
<1>8. \A o \in Requests : WellFormed(o)
  BY DEF IInv
<1>9. ASSUME NEW o \in Requests \ {r} PROVE WellFormed(o)'
  <2>1. \A n : Item(o, n)' = Item(o, n) /\ Key(o, n)' = Key(o, n)
    BY <1>1, <1>3 DEF Item, Items, Key
  <2>2. Locked(o)' = Locked(o)
    <3>1. phase'[o] = phase[o] /\ written'[o] = written[o]
      BY <1>1, <1>4
    <3>2. \A n : Item(o, n)' = Item(o, n)
      BY <2>1
    <3> QED
      BY <3>1, <3>2 DEF Locked
  <2>3. FirstOf(o)' = FirstOf(o)
    BY <1>1, <2>2, CommittedKept DEF FirstOf
  <2>4. Unknown(o)' = Unknown(o) /\ Items(o)' = Items(o)
    BY <1>1 DEF Unknown, Items
  <2> QED
    BY <1>1, <1>3, <1>4, <1>8, <2>1, <2>2, <2>3, <2>4 DEF WellFormed
<1>10. WellFormed(r)'
  <2>1. Locked(r)' = {} /\ FirstOf(r)' = {}
    BY <1>1, <1>2 DEF Locked, FirstOf
  <2>2. ~ Unknown(r)'
    BY <1>1 DEF Unknown, Items
  <2>3. \A n \in DOMAIN statement'[r] : statement'[r][n] \in DOMAIN Items(r)'
    BY <1>1, <1>3, <1>5 DEF Items
  <2>4. IsFiniteSet({}) /\ Cardinality({}) = 0
    BY FS_EmptySet
  <2> QED
    BY <1>1, <1>2, <1>3, <1>4, <2>1, <2>2, <2>3, <2>4 DEF WellFormed
<1>11. LogInv'
  <2>1. \A p \in DOMAIN log : log[p] \in Requests \ {r}
    BY <1>1 DEF IInv, LogInv, TypeOK
  <2> QED
    BY <1>1, <1>3, <1>4, <2>1 DEF IInv, LogInv
<1>12. \A k \in Keys : ChainInv(k)'
  <2>1. "open" \in {"open", "done"} /\ ~ (written[r] > 0)
    BY <1>2
  <2> QED
    BY <1>1, <1>3, <2>1, ChainsKept
<1> QED
  BY <1>7, <1>9, <1>10, <1>11, <1>12 DEF IInv

(* A row that is not committed changes nothing that a reader sees.         *)
LEMMA WriteRowUnseen ==
  ASSUME IInv, NEW r \in Requests, WriteRow(r), NEW m \in Keys
  PROVE  Committed(m)' = Committed(m) /\ \A i \in Committed(m) : versions'[m][i] = versions[m][i]
<1>1. PICK k, v : /\ versions' = [versions EXCEPT ![k] = Append(@, <<r, v>>)]
                  /\ phase[r] = "open" /\ log' = log
  BY DEF WriteRow, HasNext
<1>2. versions[m] \in Seq(Requests \X Nat) /\ versions \in [Keys -> Seq(Requests \X Nat)]
  BY DEF IInv, TypeOK
<1>3. CASE m # k
  <2>1. versions'[m] = versions[m]
    BY <1>1, <1>2, <1>3
  <2> QED
    BY <1>1, <2>1 DEF Committed
<1>4. CASE m = k
  <2>1. versions'[m] = Append(versions[m], <<r, v>>)
    BY <1>1, <1>2, <1>4
  <2> DEFINE L == Len(versions[m])
  <2>2. /\ DOMAIN versions[m] = 1 .. L /\ L \in Nat /\ versions'[m][L + 1][1] = r
        /\ \A i \in 1 .. L : i \in DOMAIN versions'[m] /\ versions'[m][i] = versions[m][i]
        /\ \A i \in DOMAIN versions'[m] : i \in 1 .. L \/ i = L + 1
    BY <1>2, <2>1
  <2>3. r \notin ToSet(log)
    BY <1>1 DEF IInv, LogInv, ToSet
  <2> HIDE DEF L
  <2> QED
    BY <1>1, <2>2, <2>3 DEF Committed
<1> QED
  BY <1>3, <1>4

(* A row is appended to its chain, whose other writers have all ended.     *)
LEMMA WriteRowIInv ==
  ASSUME IInv, NEW r \in Requests, WriteRow(r)
  PROVE  IInv'
<1>0. PICK k, N, L : k = NextRow(r).key /\ N = written[r] + 1 /\ L = Len(versions[k])
  OBVIOUS
<1>1. /\ phase[r] = "open" /\ written[r] < Len(statement[r]) /\ HasNext(r)
      /\ NextRow(r).flaw = "none" /\ k \notin Locked(r) /\ Holders(r) = {}
      /\ versions' = [versions EXCEPT ![k] = Append(@, <<r, statement[r][N]>>)]
      /\ written' = [written EXCEPT ![r] = @ + 1]
      /\ inserted' = [inserted EXCEPT ![r] = @ + (IF Committed(k) = {} THEN 1 ELSE 0)]
      /\ UNCHANGED <<batch, statement, phase, outcome, log>>
  BY <1>0 DEF WriteRow, HasNext
<1>2. /\ written[r] \in Nat /\ inserted[r] \in Nat /\ statement[r] \in Seq(Nat)
      /\ inserted[r] <= written[r]
  BY DEF IInv, TypeOK
<1>3. N \in DOMAIN statement[r] /\ N \in Nat
  BY <1>0, <1>1, <1>2
<1>4. statement[r][N] \in Nat /\ k \in Keys /\ k = Key(r, N) /\ Item(r, N).flaw = "none"
  BY <1>0, <1>1, <1>3, ItemTypes DEF NextRow, Key
<1>5. versions[k] \in Seq(Requests \X Nat) /\ L \in Nat /\ DOMAIN versions[k] = 1 .. L
  BY <1>0, <1>4, ChainTypes DEF IInv
<1>6. versions \in [Keys -> Seq(Requests \X Nat)]
  BY DEF IInv, TypeOK
<1>7. /\ versions'[k] = Append(versions[k], <<r, statement[r][N]>>)
      /\ \A m \in Keys \ {k} : versions'[m] = versions[m]
  BY <1>1, <1>4, <1>6
<1>8. /\ DOMAIN versions'[k] = 1 .. L + 1 /\ Len(versions'[k]) = L + 1
      /\ versions'[k][L + 1] = <<r, statement[r][N]>>
      /\ \A i \in 1 .. L : versions'[k][i] = versions[k][i]
      /\ versions'[k] \in Seq(Requests \X Nat)
  BY <1>0, <1>4, <1>5, <1>7
<1>9. written'[r] = N /\ \A o \in Requests \ {r} : written'[o] = written[o]
  BY <1>0, <1>1 DEF IInv, TypeOK
<1>10. \A o, n : Item(o, n)' = Item(o, n) /\ Key(o, n)' = Key(o, n)
  BY <1>1 DEF Item, Items, Key
<1>11. TypeOK'
  <2>1. versions' \in [Keys -> Seq(Requests \X Nat)]
    BY <1>1, <1>4, <1>6, <1>7, <1>8
  <2>2. written' \in [Requests -> Nat]
    BY <1>1, <1>2, <1>9 DEF IInv, TypeOK
  <2>3. inserted' \in [Requests -> Nat] /\ inserted'[r] <= N
        /\ \A o \in Requests \ {r} : inserted'[o] = inserted[o]
    <3>1. PICK d \in {0, 1} : inserted' = [inserted EXCEPT ![r] = @ + d]
      BY <1>1
    <3>2. inserted \in [Requests -> Nat]
      BY DEF IInv, TypeOK
    <3> QED
      BY <1>0, <1>2, <3>1, <3>2
  <2>4. ASSUME NEW o \in Requests
        PROVE  inserted'[o] <= written'[o] /\ written'[o] <= Len(statement[o])
    <3>1. CASE o = r
      BY <1>0, <1>1, <1>2, <1>9, <2>3, <3>1
    <3>2. CASE o # r
      BY <1>9, <2>3, <3>2 DEF IInv, TypeOK
    <3> QED
      BY <3>1, <3>2
  <2> QED
    BY <1>1, <2>1, <2>2, <2>3, <2>4 DEF IInv, TypeOK
<1>12. \A i \in 1 .. L : phase[Writer(k, i)] # "open" /\ Writer(k, i) # r /\ Writer(k, i) \in Requests
  <2> SUFFICES ASSUME NEW i \in 1 .. L
               PROVE  phase[Writer(k, i)] # "open" /\ Writer(k, i) \in Requests
    BY <1>1
  <2>1. Writer(k, i) \in Requests
    BY <1>4, <1>5, ChainTypes DEF IInv
  <2>2. ASSUME phase[Writer(k, i)] = "open" PROVE FALSE
    <3>1. k \in Locked(Writer(k, i))
      BY <1>4, <1>5, <2>2, WriterLocks
    <3> QED
      BY <1>0, <1>1, <2>1, <3>1 DEF Holders
  <2> QED
    BY <2>1, <2>2
<1>13. r \notin ToSet(log)
  BY <1>1 DEF IInv, LogInv, ToSet
<1>14. \A m \in Keys : Committed(m)' = Committed(m)
  BY WriteRowUnseen
<1>15. Locked(r)' = Locked(r) \cup {k} /\ \A o \in Requests \ {r} : Locked(o)' = Locked(o)
  <2>1. \A o \in Requests \ {r} : Locked(o)' = Locked(o)
    BY <1>1, <1>9, <1>10 DEF Locked, Key
  <2>2. 1 .. N = (1 .. written[r]) \cup {N}
    BY <1>0, <1>2
  <2>3. Locked(r)' = {Key(r, n) : n \in 1 .. N}
    BY <1>1, <1>9, <1>10 DEF Locked, Key
  <2>4. Locked(r) = {Key(r, n) : n \in 1 .. written[r]}
    BY <1>1 DEF Locked, Key
  <2> QED
    BY <1>4, <2>1, <2>2, <2>3, <2>4
<1>16. \A o \in Requests : WellFormed(o)
  BY DEF IInv
<1>17. ASSUME NEW o \in Requests \ {r} PROVE WellFormed(o)'
  <2>1. \A m \in Locked(o) : m \in Keys
    BY LockedLast
  <2>2. FirstOf(o)' = FirstOf(o)
    BY <1>14, <1>15, <2>1 DEF FirstOf
  <2>3. Unknown(o)' = Unknown(o) /\ Items(o)' = Items(o)
    BY <1>1 DEF Unknown, Items
  <2>4. inserted'[o] = inserted[o]
    BY <1>1 DEF IInv, TypeOK
  <2> QED
    BY <1>1, <1>9, <1>10, <1>15, <1>16, <2>2, <2>3, <2>4 DEF WellFormed
<1>18. IsFiniteSet(Locked(r)') /\ inserted'[r] = Cardinality(FirstOf(r)')
  <2>1. \A m \in Locked(r) : m \in Keys
    BY LockedLast
  <2>2. FirstOf(r)' = {m \in Locked(r) \cup {k} : Committed(m) = {}}
    BY <1>4, <1>14, <1>15, <2>1 DEF FirstOf
  <2>3. IsFiniteSet(Locked(r)) /\ inserted[r] = Cardinality(FirstOf(r))
    BY <1>1, <1>16 DEF WellFormed
  <2>4. IsFiniteSet(Locked(r)')
    BY <1>15, <2>3, FS_AddElement
  <2>5. inserted'[r] = inserted[r] + (IF Committed(k) = {} THEN 1 ELSE 0)
    BY <1>1 DEF IInv, TypeOK
  <2>6. CASE Committed(k) = {}
    <3>1. FirstOf(r)' = FirstOf(r) \cup {k} /\ k \notin FirstOf(r)
      BY <1>1, <2>2, <2>6 DEF FirstOf
    <3>2. IsFiniteSet(FirstOf(r))
      BY <2>3, FS_Subset DEF FirstOf
    <3>3. Cardinality(FirstOf(r) \cup {k}) = Cardinality(FirstOf(r)) + 1
      BY <3>1, <3>2, FS_AddElement
    <3> QED
      BY <2>3, <2>4, <2>5, <2>6, <3>1, <3>3
  <2>7. CASE Committed(k) # {}
    <3>1. FirstOf(r)' = FirstOf(r)
      BY <2>2, <2>7 DEF FirstOf
    <3> QED
      BY <1>2, <2>3, <2>4, <2>5, <2>7, <3>1
  <2> QED
    BY <2>6, <2>7
<1>19. WellFormed(r)'
  <2>1. Unknown(r)' = Unknown(r) /\ Items(r)' = Items(r)
    BY <1>1 DEF Unknown, Items
  <2>2. 1 .. N = (1 .. written[r]) \cup {N}
    BY <1>0, <1>2
  <2>3. \A n \in 1 .. written[r] : Key(r, n) # Key(r, N)
    BY <1>1, <1>4 DEF Locked, Key
  <2>4. \A m, n \in 1 .. N : Key(r, m) = Key(r, n) => m = n
    BY <1>16, <2>2, <2>3 DEF WellFormed
  <2>5. \A n \in 1 .. N : Item(r, n).flaw = "none"
    BY <1>4, <1>16, <2>2 DEF WellFormed
  <2>6. /\ statement[r] = Statement(batch[r]) /\ ~ Unknown(r)
        /\ phase[r] = "done" <=> outcome[r] # "pending"
        /\ \A n \in DOMAIN statement[r] : statement[r][n] \in DOMAIN Items(r)
    BY <1>1, <1>16 DEF WellFormed
  <2>7. phase'[r] = "open" /\ outcome'[r] = outcome[r] /\ phase' = phase
    BY <1>1
  <2> QED
    BY <1>1, <1>9, <1>10, <1>18, <2>1, <2>4, <2>5, <2>6, <2>7 DEF WellFormed
<1>20. LogInv'
  <2>1. \A p \in DOMAIN log : log[p] \in Requests \ {r}
    BY <1>1 DEF IInv, LogInv, TypeOK
  <2> QED
    BY <1>1, <1>9, <2>1 DEF IInv, LogInv
<1>21. \A m \in Keys : WrittenBy(m) /\ WrittenOnce(m) /\ OpenIsLast(m) /\ InLogOrder(m)
  BY DEF IInv, ChainInv
<1>22. \A o \in Requests : \A n \in 1 .. written[o] : n \in 1 .. written'[o]
  BY <1>0, <1>2, <1>9
<1>23. ASSUME NEW m \in Keys \ {k} PROVE ChainInv(m)'
  <2>1. \A i \in DOMAIN versions[m] : Writer(m, i)' = Writer(m, i) /\ Writer(m, i) \in Requests
    BY <1>7, ChainTypes DEF IInv, Writer
  <2>2. WrittenBy(m)'
    BY <1>1, <1>7, <1>10, <1>21, <1>22, <2>1 DEF WrittenBy
  <2>3. \A o \in Requests : \A n \in 1 .. written'[o] : Key(o, n) = m => n \in 1 .. written[o]
    BY <1>0, <1>2, <1>4, <1>9
  <2>4. WrittenOnce(m)'
    BY <1>7, <1>10, <1>21, <2>1, <2>3 DEF WrittenOnce
  <2>5. OpenIsLast(m)' /\ InLogOrder(m)'
    BY <1>1, <1>7, <1>21, <2>1 DEF OpenIsLast, InLogOrder
  <2> QED
    BY <2>2, <2>4, <2>5 DEF ChainInv
<1>24. ChainInv(k)'
  <2>1. /\ \A i \in 1 .. L : Writer(k, i)' = Writer(k, i) /\ Writer(k, i) \in Requests \ {r}
        /\ Writer(k, L + 1)' = r
    <3>1. \A i \in 1 .. L : Writer(k, i)' = Writer(k, i)
      BY <1>5, <1>8 DEF Writer
    <3>2. Writer(k, L + 1)' = versions'[k][L + 1][1]
      BY DEF Writer
    <3> QED
      BY <1>8, <1>12, <3>1, <3>2
  <2>2. WrittenBy(k)'
    <3> SUFFICES ASSUME NEW i \in 1 .. L + 1
                 PROVE  \E n \in 1 .. written'[Writer(k, i)'] :
                          /\ Item(Writer(k, i)', n).key = k
                          /\ versions'[k][i] = <<Writer(k, i)', statement[Writer(k, i)'][n]>>
      <4>1. \A o, n : Key(o, n)' = Item(o, n).key /\ statement' = statement
        BY <1>1, <1>10 DEF Key
      <4> QED
        BY <1>8, <4>1 DEF WrittenBy
    <3>1. CASE i \in 1 .. L
      <4>1. PICK n \in 1 .. written[Writer(k, i)] :
              /\ Key(Writer(k, i), n) = k
              /\ versions[k][i] = <<Writer(k, i), statement[Writer(k, i)][n]>>
        <5>1. WrittenBy(k) /\ i \in DOMAIN versions[k]
          BY <1>4, <1>5, <1>21, <3>1
        <5> QED
          BY <5>1 DEF WrittenBy
      <4>2. Writer(k, i)' = Writer(k, i) /\ versions'[k][i] = versions[k][i]
        BY <1>8, <2>1, <3>1
      <4>3. n \in 1 .. written'[Writer(k, i)]
        BY <1>22, <2>1, <3>1
      <4> QED
        BY <4>1, <4>2, <4>3 DEF Key
    <3>2. CASE i = L + 1
      <4>1. N \in 1 .. written'[r] /\ Key(r, N) = k
        BY <1>0, <1>2, <1>4, <1>9, <1>10
      <4> QED
        BY <1>1, <1>8, <2>1, <3>2, <4>1 DEF Key
    <3> QED
      BY <1>5, <3>1, <3>2
  <2>3. WrittenOnce(k)'
    <3>1. \A i, j \in 1 .. L + 1 : Writer(k, i)' = Writer(k, j)' => i = j
      <4>1. \A i, j \in 1 .. L : Writer(k, i) = Writer(k, j) => i = j
        BY <1>4, <1>5, <1>21 DEF WrittenOnce
      <4>2. \A i \in 1 .. L + 1 : i \in 1 .. L \/ i = L + 1
        BY <1>5
      <4> QED
        BY <2>1, <4>1, <4>2
    <3>2. ASSUME NEW o \in Requests, NEW n \in 1 .. written'[o], Key(o, n) = k
          PROVE  \E i \in 1 .. L + 1 : Writer(k, i)' = o
      <4>1. CASE o = r
        BY <1>5, <2>1, <4>1
      <4>2. CASE o # r
        BY <1>4, <1>5, <1>9, <1>21, <2>1, <3>2, <4>2 DEF WrittenOnce
      <4> QED
        BY <4>1, <4>2
    <3> QED
      BY <1>8, <1>10, <3>1, <3>2 DEF WrittenOnce
  <2>4. OpenIsLast(k)'
    <3> SUFFICES ASSUME NEW i \in 1 .. L + 1, phase[Writer(k, i)'] = "open" PROVE i = L + 1
      BY <1>1, <1>8 DEF OpenIsLast
    <3> QED
      BY <1>5, <1>12, <2>1
  <2>5. InLogOrder(k)'
    <3>1. ASSUME NEW i \in 1 .. L + 1, NEW j \in 1 .. L + 1,
                 NEW p \in DOMAIN log, NEW q \in DOMAIN log, i < j,
                 Writer(k, i)' = log[p], Writer(k, j)' = log[q]
          PROVE  p < q
      <4>1. i \in 1 .. L /\ j \in 1 .. L
        <5>1. log[p] # r /\ log[q] # r
          BY <1>13 DEF ToSet
        <5>2. i # L + 1 /\ j # L + 1
          BY <2>1, <3>1, <5>1
        <5> QED
          BY <1>5, <5>2
      <4> QED
        BY <1>4, <1>5, <1>21, <2>1, <3>1, <4>1 DEF InLogOrder
    <3>2. DOMAIN versions'[k] = 1 .. L + 1 /\ log' = log
      BY <1>1, <1>8
    <3> QED
      BY <3>1, <3>2 DEF InLogOrder
  <2> QED
    BY <2>2, <2>3, <2>4, <2>5 DEF ChainInv
<1> QED
  BY <1>11, <1>17, <1>19, <1>20, <1>23, <1>24 DEF IInv

(* The versions of r become the last committed ones of their keys, and its *)
(* commit is the last of the log.                                          *)
LEMMA CommitIInv ==
  ASSUME IInv, NEW r \in Requests, NEW how \in Outcomes \ {"pending"},
         Executed(r), log' = Append(log, r), Answer(r, how),
         UNCHANGED <<batch, statement, written, inserted, versions>>
  PROVE  IInv'
<1>1. /\ phase[r] = "open" /\ written[r] = Len(statement[r])
      /\ phase' = [phase EXCEPT ![r] = "done"] /\ outcome' = [outcome EXCEPT ![r] = how]
  BY DEF Executed, Answer
<1>2. /\ log \in Seq(Requests) /\ Len(log) \in Nat /\ DOMAIN log = 1 .. Len(log)
      /\ \A p \in DOMAIN log : log[p] \in Requests
  BY DEF IInv, TypeOK
<1>3. /\ log' \in Seq(Requests) /\ DOMAIN log' = 1 .. Len(log) + 1 /\ log'[Len(log) + 1] = r
      /\ \A p \in DOMAIN log : log'[p] = log[p]
  BY <1>2
<1>4. TypeOK'
  BY <1>1, <1>3 DEF IInv, TypeOK
<1>5. /\ \A o \in Requests : \A n : Item(o, n)' = Item(o, n) /\ Key(o, n)' = Key(o, n)
      /\ \A o \in Requests : Items(o)' = Items(o)
      /\ \A o \in Requests \ {r} : phase'[o] = phase[o] /\ Locked(o)' = Locked(o)
      /\ phase'[r] = "done"
      /\ \A k, i : Writer(k, i)' = Writer(k, i)
  BY <1>1, OthersKept
<1>6. outcome'[r] = how /\ \A o \in Requests \ {r} : outcome'[o] = outcome[o]
  BY <1>1 DEF IInv, TypeOK
<1>7. \A p \in DOMAIN log : log[p] # r
  BY <1>1 DEF IInv, LogInv
<1>8. \A p \in DOMAIN log' : p \in DOMAIN log \/ p = Len(log) + 1
  BY <1>2, <1>3
<1>9. \A o : o \in ToSet(log)' <=> o \in ToSet(log) \/ o = r
  BY <1>2, <1>3, <1>8 DEF ToSet
<1>10. \A o \in Requests : WellFormed(o)
  BY DEF IInv
<1>11. ASSUME NEW o \in Requests \ {r} PROVE WellFormed(o)'
  <2>1. ASSUME NEW k \in Locked(o) PROVE Committed(k)' = Committed(k)
    <3>1. ASSUME NEW i \in DOMAIN versions[k], Writer(k, i) = r PROVE FALSE
      <4>1. k \in Locked(r)
        BY <1>1, <3>1, LockedLast, WriterLocks
      <4> QED
        BY <4>1, LocksExclude
    <3> QED
      BY <1>9, <3>1 DEF Committed, Writer
  <2>2. FirstOf(o)' = FirstOf(o)
    BY <1>5, <2>1 DEF FirstOf
  <2>3. Unknown(o)' = Unknown(o)
    BY <1>5 DEF Unknown
  <2> QED
    BY <1>5, <1>6, <1>10, <2>2, <2>3 DEF WellFormed
<1>12. WellFormed(r)'
  BY <1>1, <1>5, <1>6, <1>10 DEF WellFormed
<1>13. LogInv'
  <2>1. ASSUME NEW p \in DOMAIN log'
        PROVE  /\ phase'[log'[p]] = "done"
               /\ statement[log'[p]] = Statement(batch[log'[p]])
               /\ written[log'[p]] = Len(statement[log'[p]])
    <3>1. CASE p \in DOMAIN log
      BY <1>2, <1>3, <1>5, <1>7, <3>1 DEF IInv, LogInv
    <3>2. CASE p = Len(log) + 1
      BY <1>1, <1>3, <1>5, <1>10, <3>2 DEF WellFormed
    <3> QED
      BY <1>8, <3>1, <3>2
  <2>2. \A p, q \in DOMAIN log' : log'[p] = log'[q] => p = q
    BY <1>3, <1>7, <1>8 DEF IInv, LogInv
  <2> QED
    BY <2>1, <2>2 DEF LogInv
<1>14. ASSUME NEW k \in Keys PROVE ChainInv(k)'
  <2>1. /\ OpenIsLast(k) /\ InLogOrder(k) /\ Len(versions[k]) \in Nat
        /\ DOMAIN versions[k] = 1 .. Len(versions[k])
    BY ChainTypes DEF IInv, ChainInv
  <2>2. ASSUME NEW i \in DOMAIN versions[k], NEW j \in DOMAIN versions[k],
               NEW p \in DOMAIN log', NEW q \in DOMAIN log', i < j,
               Writer(k, i) = log'[p], Writer(k, j) = log'[q]
        PROVE  p < q
    <3>1. Writer(k, i) # r
      BY <1>1, <2>1, <2>2 DEF OpenIsLast
    <3>2. p \in DOMAIN log
      BY <1>3, <1>8, <2>2, <3>1
    <3>3. CASE q \in DOMAIN log
      BY <1>3, <2>1, <2>2, <3>2, <3>3 DEF InLogOrder
    <3>4. CASE q = Len(log) + 1
      BY <1>2, <3>2, <3>4
    <3> QED
      BY <1>8, <3>3, <3>4
  <2>3. InLogOrder(k)'
    BY <1>5, <2>2 DEF InLogOrder
  <2> QED
    BY <1>1, <2>3, ChainsKept
<1> QED
  BY <1>4, <1>11, <1>12, <1>13, <1>14 DEF IInv

(* A transaction that another one waits for, or that waits, is open.       *)
LEMMA DeadlockIsOpen ==
  ASSUME NEW r \in Requests, Deadlock(r)
  PROVE  phase[r] = "open"
BY DEF Deadlock, WaitCycle, Holders, HasNext

LEMMA NextIInv ==
  IInv /\ [Next]_vars => IInv'
<1> SUFFICES ASSUME IInv, [Next]_vars PROVE IInv'
  OBVIOUS
<1>1. CASE UNCHANGED vars
  <2>1. UNCHANGED <<batch, phase, statement, written, inserted, versions, outcome, log>>
    BY <1>1 DEF vars
  <2>2. \A r, n : Item(r, n)' = Item(r, n) /\ Key(r, n)' = Key(r, n)
    BY <2>1 DEF Item, Items, Key
  <2>3. \A r : Locked(r)' = Locked(r) /\ Unknown(r)' = Unknown(r) /\ Items(r)' = Items(r)
    BY <2>1, <2>2 DEF Locked, Unknown, Items
  <2>4. \A r : FirstOf(r)' = FirstOf(r)
    BY <2>1, <2>3, CommittedKept DEF FirstOf
  <2>5. \A r \in Requests : WellFormed(r)'
    BY <2>1, <2>2, <2>3, <2>4 DEF IInv, WellFormed
  <2>6. \A k \in Keys : ChainInv(k)'
    BY <2>1, <2>2 DEF IInv, ChainInv, WrittenBy, WrittenOnce, OpenIsLast, InLogOrder, Writer
  <2> QED
    BY <2>1, <2>5, <2>6 DEF IInv, TypeOK, LogInv
<1>2. CASE Quiescent
  BY <1>1, <1>2 DEF Quiescent
<1>3. ASSUME NEW r \in Requests, Arrive(r) \/ Step(r) \/ Fail(r) \/ CommitUnacknowledged(r)
      PROVE  IInv'
  <2>0. Outcomes \ {"pending"} = {"ok", "not_found", "check", "data", "mixed_times",
                                  "cardinality", "deadlock", "server"}
    BY DEF Outcomes
  <2>1. CASE NothingToDo(r)
    BY <2>0, <2>1, RollbackIInv DEF NothingToDo
  <2>2. CASE UnknownReference(r)
    BY <2>0, <2>2, RollbackIInv DEF UnknownReference
  <2>3. CASE MixedTimes(r)
    BY <2>0, <2>3, RollbackIInv DEF MixedTimes
  <2>4. CASE Execute(r)
    BY <2>4, ExecuteIInv
  <2>5. CASE RejectRow(r)
    <3>1. NextRow(r).flaw \in Outcomes \ {"pending"} /\ Rollback(r, NextRow(r).flaw)
      BY <2>0, <2>5 DEF RejectRow
    <3> QED
      BY <2>5, <3>1, RollbackIInv DEF RejectRow, HasNext
  <2>6. CASE SecondTime(r)
    BY <2>0, <2>6, RollbackIInv DEF SecondTime, HasNext
  <2>7. CASE WriteRow(r)
    BY <2>7, WriteRowIInv
  <2>8. CASE Deadlock(r)
    BY <2>0, <2>8, DeadlockIsOpen, RollbackIInv DEF Deadlock
  <2>9. CASE Fail(r)
    BY <2>0, <2>9, RollbackIInv DEF Fail
  <2>10. CASE Commit(r)
    BY <2>0, <2>10, CommitIInv DEF Commit
  <2>11. CASE CommitUnacknowledged(r)
    BY <2>0, <2>11, CommitIInv DEF CommitUnacknowledged
  <2> QED
    BY <1>3, <2>1, <2>2, <2>3, <2>4, <2>5, <2>6, <2>7, <2>8, <2>9, <2>10, <2>11 DEF Arrive, Step
<1> QED
  BY <1>1, <1>2, <1>3 DEF Next

(* Whatever batches interleave: requests write the rows that their batches *)
(* come down to, locks keep them off each other's keys, and the committed  *)
(* versions of a key are in the order of the commits.                      *)
THEOREM InductiveInvariant == Spec => []IInv
<1>1. Init => IInv
  BY InitIInv
<1>2. IInv /\ [Next]_vars => IInv'
  BY NextIInv
<1> QED
  BY <1>1, <1>2, PTL DEF Spec

(* The variables keep their types, and no statement has written more rows  *)
(* than it has nor counted more than it has written.                       *)
THEOREM TypeInvariant == Spec => []TypeOK
BY InductiveInvariant, PTL DEF IInv

-----------------------------------------------------------------------------
(* THE TABLE                                                               *)

(* Those who committed a row of k, as places in the log.                   *)
Writers(k) == {p \in DOMAIN log : \E n \in DOMAIN statement[log[p]] : Key(log[p], n) = k}

LEMMA GreatestIsMax ==
  ASSUME NEW S \in SUBSET Nat, NEW n \in S, \A m \in S : m <= n
  PROVE  Max(S) = n
<1>1. \A m \in S : (\A l \in S : m >= l) => m = n
  OBVIOUS
<1>2. \A l \in S : n >= l
  OBVIOUS
<1> QED
  BY <1>1, <1>2 DEF Max

(* The committed versions of a key are those of its writers.               *)
LEMMA CommittedByWriters ==
  ASSUME IInv, NEW k \in Keys
  PROVE  /\ \A i \in Committed(k) :
              \E p \in Writers(k) :
                /\ Writer(k, i) = log[p]
                /\ \E n \in DOMAIN statement[log[p]] :
                     Key(log[p], n) = k /\ versions[k][i] = <<log[p], statement[log[p]][n]>>
         /\ \A p \in Writers(k) : \E i \in Committed(k) : Writer(k, i) = log[p]
<1>1. \A p \in DOMAIN log : /\ log[p] \in Requests /\ written[log[p]] = Len(statement[log[p]])
                            /\ DOMAIN statement[log[p]] = 1 .. written[log[p]]
  BY DEF IInv, TypeOK, LogInv
<1>2. WrittenBy(k) /\ WrittenOnce(k)
  BY DEF IInv, ChainInv
<1>3. ASSUME NEW i \in Committed(k)
      PROVE  \E p \in Writers(k) :
               /\ Writer(k, i) = log[p]
               /\ \E n \in DOMAIN statement[log[p]] :
                    Key(log[p], n) = k /\ versions[k][i] = <<log[p], statement[log[p]][n]>>
  <2>1. PICK p \in DOMAIN log : Writer(k, i) = log[p]
    BY DEF Committed, Writer, ToSet
  <2>2. i \in DOMAIN versions[k]
    BY DEF Committed
  <2>3. PICK n \in 1 .. written[log[p]] :
          Key(log[p], n) = k /\ versions[k][i] = <<log[p], statement[log[p]][n]>>
    BY <1>2, <2>1, <2>2 DEF WrittenBy
  <2> QED
    BY <1>1, <2>1, <2>3 DEF Writers
<1>4. ASSUME NEW p \in Writers(k) PROVE \E i \in Committed(k) : Writer(k, i) = log[p]
  <2>1. PICK n \in 1 .. written[log[p]] : Key(log[p], n) = k
    BY <1>1 DEF Writers
  <2>2. p \in DOMAIN log /\ log[p] \in Requests
    BY <1>1 DEF Writers
  <2>3. PICK i \in DOMAIN versions[k] : Writer(k, i) = log[p]
    BY <1>2, <2>1, <2>2 DEF WrittenOnce
  <2>4. i \in Committed(k)
    BY <2>2, <2>3 DEF Committed, Writer, ToSet
  <2> QED
    BY <2>3, <2>4
<1> QED
  BY <1>3, <1>4

LEMMA IInvAtomic ==
  IInv => BatchesAreAtomic
<1> SUFFICES ASSUME IInv, NEW k \in Keys PROVE RowAfter(k) = Visible(k)
  BY DEF BatchesAreAtomic
<1>0. RowAfter(k) = IF Writers(k) = {} THEN <<>>
                    ELSE LET r == log[Max(Writers(k))]
                             n == CHOOSE m \in DOMAIN statement[r] : Key(r, m) = k
                         IN  <<r, statement[r][n]>>
  BY DEF RowAfter, Writers, Key
<1>1. CASE Writers(k) = {}
  <2>1. Committed(k) = {}
    BY <1>1, CommittedByWriters
  <2> QED
    BY <1>0, <1>1, <2>1 DEF Visible
<1>2. CASE Writers(k) # {}
  <2>1. Committed(k) # {}
    BY <1>2, CommittedByWriters
  <2>2. /\ Committed(k) \in SUBSET Nat /\ Len(versions[k]) \in Nat
        /\ \A i \in Committed(k) : i \in DOMAIN versions[k] /\ i <= Len(versions[k])
    BY ChainTypes DEF IInv, Committed
  <2>3. PICK i \in Committed(k) : \A j \in Committed(k) : j <= i
    BY <2>1, <2>2, GreatestNatural
  <2>4. Max(Committed(k)) = i
    BY <2>2, <2>3, GreatestIsMax
  <2>5. PICK p \in Writers(k) :
          /\ Writer(k, i) = log[p]
          /\ \E n \in DOMAIN statement[log[p]] :
               Key(log[p], n) = k /\ versions[k][i] = <<log[p], statement[log[p]][n]>>
    BY CommittedByWriters
  <2>6. Writers(k) \in SUBSET Nat /\ \A q \in Writers(k) : q \in DOMAIN log
    <3>1. log \in Seq(Requests) /\ \A q \in Writers(k) : q \in DOMAIN log
      BY DEF IInv, TypeOK, Writers
    <3>2. \A q \in DOMAIN log : q \in Nat
      BY <3>1
    <3> QED
      BY <3>1, <3>2
  <2>7. ASSUME NEW q \in Writers(k) PROVE q <= p
    <3>1. PICK j \in Committed(k) : Writer(k, j) = log[q]
      BY CommittedByWriters
    <3>2. CASE j = i
      BY <2>5, <2>6, <3>1, <3>2 DEF IInv, LogInv
    <3>3. CASE j # i
      <4>1. j < i
        BY <2>2, <2>3, <3>3
      <4>2. InLogOrder(k)
        BY DEF IInv, ChainInv
      <4>3. q < p
        BY <2>2, <2>5, <2>6, <3>1, <4>1, <4>2 DEF InLogOrder
      <4> QED
        BY <2>6, <4>3
    <3> QED
      BY <3>2, <3>3
  <2>8. Max(Writers(k)) = p
    BY <2>6, <2>7, GreatestIsMax
  <2>9. PICK n \in DOMAIN statement[log[p]] :
          Key(log[p], n) = k /\ versions[k][i] = <<log[p], statement[log[p]][n]>>
    BY <2>5
  <2>10. \A m \in DOMAIN statement[log[p]] : Key(log[p], m) = k => m = n
    <3>1. log[p] \in Requests /\ DOMAIN statement[log[p]] = 1 .. written[log[p]]
      BY <2>6 DEF IInv, TypeOK, LogInv
    <3> QED
      BY <2>9, <3>1 DEF IInv, WellFormed
  <2>11. (CHOOSE m \in DOMAIN statement[log[p]] : Key(log[p], m) = k) = n
    BY <2>9, <2>10
  <2> QED
    BY <1>0, <1>2, <2>1, <2>4, <2>8, <2>9, <2>11 DEF Visible
<1> QED
  BY <1>1, <1>2

(* What a reader sees of a key is what its last committed batch meant it   *)
(* to be, for any number of batches that interleave row by row.            *)
THEOREM BatchesAtomic == Spec => []BatchesAreAtomic
BY InductiveInvariant, IInvAtomic, PTL

-----------------------------------------------------------------------------
(* HOW REQUESTS END                                                        *)

LEMMA EndsAs ==
  ASSUME TypeOK, [Next]_vars, NEW r \in Requests
  PROVE  /\ batch' = batch
         /\ outcome'[r] = "cardinality" => outcome[r] = "cardinality" \/ SecondTime(r)
         /\ outcome'[r] = "deadlock" => outcome[r] = "deadlock" \/ Deadlock(r)
<1> DEFINE Goal == /\ batch' = batch
                   /\ outcome'[r] = "cardinality" => outcome[r] = "cardinality" \/ SecondTime(r)
                   /\ outcome'[r] = "deadlock" => outcome[r] = "deadlock" \/ Deadlock(r)
<1>0. outcome \in [Requests -> Outcomes]
  BY DEF TypeOK
<1>1. ASSUME NEW o \in Requests, NEW how, Answer(o, how),
             how = "cardinality" => SecondTime(o), how = "deadlock" => Deadlock(o),
             UNCHANGED batch
      PROVE  Goal
  <2>1. outcome'[r] = IF r = o THEN how ELSE outcome[r]
    BY <1>0, <1>1 DEF Answer
  <2> QED
    BY <1>1, <2>1
<1>2. ASSUME NEW o \in Requests, Arrive(o) \/ Step(o) \/ Fail(o) \/ CommitUnacknowledged(o)
      PROVE  Goal
  <2> HIDE DEF Goal
  <2>1. CASE NothingToDo(o)
    BY <1>1, <2>1 DEF NothingToDo, Rollback
  <2>2. CASE UnknownReference(o)
    BY <1>1, <2>2 DEF UnknownReference, Rollback
  <2>3. CASE MixedTimes(o)
    BY <1>1, <2>3 DEF MixedTimes, Rollback
  <2>4. CASE Execute(o)
    BY <2>4 DEF Execute, Goal
  <2>5. CASE RejectRow(o)
    BY <1>1, <2>5 DEF RejectRow, Rollback
  <2>6. CASE SecondTime(o)
    BY <1>1, <2>6 DEF SecondTime, Rollback
  <2>7. CASE WriteRow(o)
    BY <2>7 DEF WriteRow, Goal
  <2>8. CASE Deadlock(o)
    BY <1>1, <2>8 DEF Deadlock, Rollback
  <2>9. CASE Fail(o)
    BY <1>1, <2>9 DEF Fail, Rollback
  <2>10. CASE Commit(o)
    BY <1>1, <2>10 DEF Commit
  <2>11. CASE CommitUnacknowledged(o)
    BY <1>1, <2>11 DEF CommitUnacknowledged
  <2> QED
    BY <1>2, <2>1, <2>2, <2>3, <2>4, <2>5, <2>6, <2>7, <2>8, <2>9, <2>10, <2>11 DEF Arrive, Step
<1>3. CASE UNCHANGED vars \/ Quiescent
  BY <1>3 DEF vars, Quiescent
<1> QED
  BY <1>2, <1>3 DEF Next

(* A batch of predictions comes down to one row of each key, so that no    *)
(* row of its statement meets an earlier one.                              *)
LEMMA NoSecondPrediction ==
  ASSUME IInv, NEW r \in Requests, batch[r].endpoint = "predictions"
  PROVE  ~ SecondTime(r)
<1> SUFFICES ASSUME SecondTime(r) PROVE FALSE
  OBVIOUS
<1>1. phase[r] = "open" /\ written[r] < Len(statement[r]) /\ NextRow(r).key \in Locked(r)
  BY DEF SecondTime, HasNext
<1>2. statement[r] = Statement(batch[r]) /\ written[r] \in Nat /\ statement[r] \in Seq(Nat)
  BY <1>1 DEF IInv, TypeOK, WellFormed
<1>3. OneOfEach(Items(r), statement[r])
  BY <1>2, StatementTypes DEF IInv, Deduplicated
<1>4. PICK n \in 1 .. written[r] : Item(r, n).key = NextRow(r).key
  BY <1>1 DEF Locked
<1>5. n \in DOMAIN statement[r] /\ written[r] + 1 \in DOMAIN statement[r] /\ n # written[r] + 1
  BY <1>1, <1>2
<1> QED
  BY <1>3, <1>4, <1>5 DEF OneOfEach, NextRow, Item

(* However often a batch of predictions repeats a key, it never fails for  *)
(* touching a row twice.                                                   *)
THEOREM RepeatedPredictions == Spec => []RepeatedPredictionsAreUpserted
<1>1. Init => RepeatedPredictionsAreUpserted
  BY DEF Init, RepeatedPredictionsAreUpserted
<1>2. IInv /\ RepeatedPredictionsAreUpserted /\ [Next]_vars => RepeatedPredictionsAreUpserted'
  BY EndsAs, NoSecondPrediction DEF RepeatedPredictionsAreUpserted, IInv
<1> QED
  BY <1>1, <1>2, InductiveInvariant, PTL DEF Spec

-----------------------------------------------------------------------------
(* DEADLOCKS                                                               *)

LEMMA FirstRowIsFirst ==
  ASSUME TypeOK, NEW r \in Requests, NEW k \in Mentioned(batch[r])
  PROVE  /\ FirstRow(r, k) \in DOMAIN Items(r) /\ FirstRow(r, k) \in Nat
         /\ Items(r)[FirstRow(r, k)].key = k
         /\ \A j \in 1 .. FirstRow(r, k) - 1 : Items(r)[j].key # k
<1> DEFINE S == {i \in DOMAIN Items(r) : Items(r)[i].key = k}
<1>1. Items(r) \in Seq(Rows) /\ DOMAIN Items(r) = 1 .. Len(Items(r)) /\ Len(Items(r)) \in Nat
  BY StatementTypes
<1>2. S # {} /\ S \in SUBSET Nat
  BY <1>1 DEF Mentioned, Items
<1>3. PICK i \in S : \A j \in S : i <= j
  BY <1>2, LeastNatural
<1>4. /\ i \in DOMAIN Items(r) /\ Items(r)[i].key = k
      /\ \A j \in 1 .. i - 1 : Items(r)[j].key # k
  BY <1>1, <1>3
<1>5. /\ FirstRow(r, k) \in DOMAIN Items(r) /\ Items(r)[FirstRow(r, k)].key = k
      /\ \A j \in 1 .. FirstRow(r, k) - 1 : Items(r)[j].key # k
  BY <1>4 DEF FirstRow
<1> QED
  BY <1>1, <1>5

LEMMA NamedBeforeIsEarlier ==
  ASSUME TypeOK, NEW r \in Requests,
         NEW k \in Mentioned(batch[r]), NEW m \in Mentioned(batch[r]),
         NamedBefore(Items(r), k, m, Len(Items(r)))
  PROVE  FirstRow(r, k) < FirstRow(r, m)
<1>1. Items(r) \in Seq(Rows) /\ DOMAIN Items(r) = 1 .. Len(Items(r)) /\ Len(Items(r)) \in Nat
  BY StatementTypes
<1>2. PICK j \in 1 .. Len(Items(r)) : Items(r)[j].key = k /\ \A l \in 1 .. j : Items(r)[l].key # m
  BY DEF NamedBefore
<1>3. FirstRow(r, k) <= j
  BY <1>1, <1>2, FirstRowIsFirst
<1>4. j < FirstRow(r, m)
  BY <1>1, <1>2, FirstRowIsFirst
<1> QED
  BY <1>1, <1>3, <1>4, FirstRowIsFirst

(* A request that waits for a key it has not locked itself names the keys  *)
(* it has locked before that one: the loop keeps the order of the batch.   *)
LEMMA LockedInOrder ==
  ASSUME IInv, NEW r \in Requests, HasNext(r), NextRow(r).key \notin Locked(r),
         NEW k \in Locked(r)
  PROVE  /\ k \in Mentioned(batch[r]) /\ NextRow(r).key \in Mentioned(batch[r])
         /\ FirstRow(r, k) < FirstRow(r, NextRow(r).key)
<1>1. /\ phase[r] = "open" /\ written[r] < Len(statement[r]) /\ written[r] \in Nat
      /\ statement[r] \in Seq(Nat) /\ statement[r] = Statement(batch[r])
  BY DEF HasNext, IInv, TypeOK, WellFormed
<1>2. PICK n \in 1 .. written[r] : Key(r, n) = k
  BY DEF Locked, Key
<1>3. n \in DOMAIN statement[r] /\ written[r] + 1 \in DOMAIN statement[r] /\ n < written[r] + 1
  BY <1>1, <1>2
<1>4. /\ statement[r][n] \in DOMAIN Items(r) /\ Items(r)[statement[r][n]].key = k
      /\ statement[r][written[r] + 1] \in DOMAIN Items(r)
      /\ Items(r)[statement[r][written[r] + 1]].key = NextRow(r).key
  BY <1>2, <1>3, ItemTypes DEF Key, Item, NextRow
<1>5. k \in Mentioned(batch[r]) /\ NextRow(r).key \in Mentioned(batch[r])
  BY <1>4 DEF Mentioned, Items
<1>6. NamedBefore(Items(r), k, NextRow(r).key, Len(Items(r)))
  <2>1. CASE batch[r].endpoint = "predictions"
    <3>1. InOrder(Items(r), statement[r], Len(Items(r)))
      BY <1>1, <2>1, StatementTypes DEF IInv, Deduplicated
    <3> QED
      BY <1>3, <1>4, <3>1 DEF InOrder
  <2>2. CASE batch[r].endpoint = "odds"
    <3>1. Items(r) \in Seq(Rows) /\ statement[r] = [i \in 1 .. Len(Items(r)) |-> i]
      BY <1>1, <2>2, StatementTypes DEF IInv, Statement, Positions, Items
    <3>2. n \in 1 .. Len(Items(r)) /\ \A l \in 1 .. n : statement[r][l] = l
      BY <1>3, <3>1
    <3>3. \A l \in 1 .. n : Key(r, l) # NextRow(r).key
      BY <1>1, <1>2 DEF Locked, Key
    <3>4. \A l \in 1 .. n : Items(r)[l].key # NextRow(r).key
      BY <3>2, <3>3 DEF Key, Item
    <3> QED
      BY <1>4, <3>2, <3>4 DEF NamedBefore
  <2>3. batch[r].endpoint \in {"odds", "predictions"}
    BY DEF IInv, TypeOK, Batches, Endpoints
  <2> QED
    BY <2>1, <2>2, <2>3
<1> QED
  BY <1>5, <1>6, NamedBeforeIsEarlier DEF IInv

(* In a cycle of waits every key that somebody waits for is held by one    *)
(* who waits for a later key: with finitely many keys, in no common order. *)
LEMMA OrderedBatchesFormNoCycle ==
  ASSUME IInv, CommonOrder, NEW S \in SUBSET Requests, WaitCycle(S)
  PROVE  FALSE
<1> DEFINE awaited(r) == NextRow(r).key
<1>1. PICK rank \in [Keys -> 1 .. Cardinality(Keys)] :
        \A r \in Requests : \A k, m \in Mentioned(batch[r]) :
          FirstRow(r, k) < FirstRow(r, m) => rank[k] < rank[m]
  BY DEF CommonOrder
<1>2. Cardinality(Keys) \in Nat
  BY BatchesAssumption, FS_CardinalityType
<1>3. ASSUME NEW r \in S
      PROVE  HasNext(r) /\ \E o \in S \ {r} : awaited(r) \in Locked(o)
  BY DEF WaitCycle, Holders
<1>4. ASSUME NEW r \in S PROVE awaited(r) \in Keys
  BY <1>3, LockedLast
<1>5. ASSUME NEW r \in S PROVE \E o \in S : rank[awaited(r)] < rank[awaited(o)]
  <2>1. PICK o \in S : o # r /\ awaited(r) \in Locked(o)
    BY <1>3
  <2>2. PICK q \in S : q # o /\ awaited(o) \in Locked(q)
    BY <1>3
  <2>3. awaited(o) \notin Locked(o)
    BY <2>2, LocksExclude
  <2>4. HasNext(o)
    BY <1>3
  <2>5. /\ awaited(r) \in Mentioned(batch[o]) /\ awaited(o) \in Mentioned(batch[o])
        /\ FirstRow(o, awaited(r)) < FirstRow(o, awaited(o))
    BY <2>1, <2>3, <2>4, LockedInOrder
  <2> QED
    BY <1>1, <2>5
<1> DEFINE T == {rank[awaited(r)] : r \in S}
<1>6. T \in SUBSET Nat /\ T # {} /\ \A n \in T : n <= Cardinality(Keys)
  BY <1>1, <1>2, <1>4 DEF WaitCycle
<1>7. PICK n \in T : \A m \in T : m <= n
  BY <1>2, <1>6, GreatestNatural
<1>8. PICK r \in S : n = rank[awaited(r)]
  BY <1>7
<1>9. PICK o \in S : n < rank[awaited(o)]
  BY <1>5, <1>8
<1>10. PICK m \in T : m = rank[awaited(o)]
  OBVIOUS
<1>11. m \in Nat /\ n \in Nat /\ m <= n
  BY <1>6, <1>7
<1> HIDE DEF T, awaited
<1>12. n < m
  BY <1>9, <1>10
<1> QED
  BY <1>11, <1>12

(* Batches that name their keys in one common order never deadlock,        *)
(* however many there are and whatever the loop removes from them.         *)
THEOREM OrderedBatches == Spec => []OrderedBatchesNeverDeadlock
<1>1. Init => OrderedBatchesNeverDeadlock
  BY DEF Init, OrderedBatchesNeverDeadlock
<1>2. IInv /\ OrderedBatchesNeverDeadlock /\ [Next]_vars => OrderedBatchesNeverDeadlock'
  <2> SUFFICES ASSUME IInv, OrderedBatchesNeverDeadlock, [Next]_vars,
                      NEW r \in Requests, outcome'[r] = "deadlock", CommonOrder'
               PROVE  FALSE
    BY DEF OrderedBatchesNeverDeadlock
  <2>1. batch' = batch /\ (outcome[r] = "deadlock" \/ Deadlock(r))
    BY EndsAs DEF IInv
  <2>2. CommonOrder
    BY <2>1 DEF CommonOrder, FirstRow, Items
  <2>3. CASE outcome[r] = "deadlock"
    BY <2>2, <2>3 DEF OrderedBatchesNeverDeadlock
  <2>4. CASE Deadlock(r)
    BY <2>2, <2>4, OrderedBatchesFormNoCycle DEF Deadlock
  <2> QED
    BY <2>1, <2>3, <2>4
<1> QED
  BY <1>1, <1>2, InductiveInvariant, PTL DEF Spec

-----------------------------------------------------------------------------
(* THE PROMISE                                                             *)

(* AtomicBatches reads the bodies as BulkUpsert does.                      *)
LEMMA SameBodies ==
  /\ \A r : Promise!Items(r) = Items(r) /\ (Promise!Unknown(r) <=> Unknown(r))
  /\ \A b : Promise!Mentioned(b) = Mentioned(b)
  /\ Promise!NoRow = <<>> /\ Promise!Unanswered = 0 /\ Promise!Flaws = Flaws
BY DEF Promise!Mentioned, Mentioned, Promise!Flaws, Flaws,
       Promise!Items, Items, Promise!Unknown, Unknown, Promise!NoRow, Promise!Unanswered

LEMMA StatusCodes ==
  /\ StatusOf("pending") = 0 /\ StatusOf("ok") = 200
  /\ StatusOf("not_found") = 404 /\ StatusOf("check") = 400
  /\ \A how \in {"data", "mixed_times", "cardinality", "deadlock", "server"} : StatusOf(how) = 500
BY DEF StatusOf

LEMMA BodyTypes ==
  ASSUME IInv, NEW r \in Requests
  PROVE  /\ Items(r) \in Seq(Rows) /\ DOMAIN Items(r) = 1 .. Len(Items(r)) /\ Len(Items(r)) \in Nat
         /\ batch[r].endpoint \in {"odds", "predictions"}
<1>1. batch[r].endpoint \in {"odds", "predictions"}
  BY DEF IInv, TypeOK, Batches, Endpoints
<1>2. Items(r) \in Seq(Rows)
  BY StatementTypes DEF IInv
<1> QED
  BY <1>1, <1>2

LEMMA SameCount ==
  \A S : Promise!Cardinality(S) = Cardinality(S)
BY DEF Promise!Cardinality, Cardinality, Promise!IsFiniteSet, IsFiniteSet

(* The rows of a statement are those that the promise means: each is the   *)
(* newest row of its key, unless odds name the key twice.                  *)
LEMMA StatementIsNewest ==
  ASSUME IInv, NEW r \in Requests, phase[r] = "open", NEW n \in DOMAIN statement[r],
         \/ batch[r].endpoint = "predictions"
         \/ \A m \in DOMAIN statement[r] : Key(r, m) = Key(r, n) => m = n
  PROVE  Promise!Newest(r, Key(r, n)) = statement[r][n]
<1> DEFINE i == statement[r][n]
           Fits(j) == /\ Items(r)[j].key = Key(r, n)
                      /\ \A l \in DOMAIN Items(r) \ {j} :
                           Items(r)[l].key = Key(r, n) =>
                             \/ Items(r)[l].at < Items(r)[j].at
                             \/ Items(r)[l].at = Items(r)[j].at /\ l < j
<1>1. statement[r] = Statement(batch[r])
  BY DEF IInv, WellFormed
<1>2. /\ Items(r) \in Seq(Rows) /\ DOMAIN Items(r) = 1 .. Len(Items(r)) /\ Len(Items(r)) \in Nat
      /\ batch[r].endpoint \in {"odds", "predictions"}
  BY BodyTypes
<1>3. i \in DOMAIN Items(r) /\ Items(r)[i].key = Key(r, n)
  BY ItemTypes DEF Key, Item
<1>4. \A l \in DOMAIN Items(r) : Items(r)[l].at \in Nat
  <2> TAKE l \in DOMAIN Items(r)
  <2>1. Items(r)[l] \in Rows
    BY <1>2
  <2> QED
    BY <2>1 DEF Rows
<1>5. ASSUME NEW l \in DOMAIN Items(r) \ {i}, Items(r)[l].key = Key(r, n)
      PROVE  Younger(Items(r), l, i)
  <2>1. CASE batch[r].endpoint = "predictions"
    <3>1. NewestKept(Items(r), statement[r], Len(Items(r)))
      BY <1>1, <2>1, StatementTypes DEF IInv, Deduplicated
    <3> QED
      BY <1>2, <1>3, <1>5, <3>1 DEF NewestKept
  <2>2. CASE batch[r].endpoint = "odds"
    <3>1. statement[r] = [j \in 1 .. Len(Items(r)) |-> j]
      BY <1>1, <2>2 DEF Statement, Positions, Items
    <3>2. l \in DOMAIN statement[r] /\ Key(r, l) = Key(r, n) /\ i = n
      BY <1>2, <1>5, <3>1 DEF Key, Item
    <3> QED
      BY <1>5, <2>2, <3>2
  <2> QED
    BY <1>2, <2>1, <2>2
<1>6. Fits(i)
  BY <1>3, <1>5 DEF Younger
<1>7. \A j \in DOMAIN Items(r) : Fits(j) => j = i
  <2> SUFFICES ASSUME NEW j \in DOMAIN Items(r), Fits(j), j # i PROVE FALSE
    OBVIOUS
  <2>1. Younger(Items(r), i, j)
    BY <1>3 DEF Younger
  <2>2. Younger(Items(r), j, i)
    BY <1>5
  <2>3. i \in Nat /\ j \in Nat /\ Items(r)[i].at \in Nat /\ Items(r)[j].at \in Nat
    BY <1>2, <1>3, <1>4
  <2> QED
    BY <2>1, <2>2, <2>3 DEF Younger
<1>8. Promise!Newest(r, Key(r, n)) = CHOOSE j \in DOMAIN Items(r) : Fits(j)
  BY SameBodies DEF Promise!Newest
<1> HIDE DEF Fits, i
<1>9. (CHOOSE j \in DOMAIN Items(r) : Fits(j)) = i
  BY <1>3, <1>6, <1>7
<1> QED
  BY <1>8, <1>9 DEF i

(* Every key of the batch has a row in the statement.                      *)
LEMMA StatementNamesAll ==
  ASSUME IInv, NEW r \in Requests, phase[r] = "open", NEW k \in Mentioned(batch[r])
  PROVE  \E n \in DOMAIN statement[r] : Key(r, n) = k
<1>1. statement[r] = Statement(batch[r])
  BY DEF IInv, WellFormed
<1>2. /\ Items(r) \in Seq(Rows) /\ DOMAIN Items(r) = 1 .. Len(Items(r)) /\ Len(Items(r)) \in Nat
      /\ batch[r].endpoint \in {"odds", "predictions"}
  BY BodyTypes
<1>3. PICK j \in 1 .. Len(Items(r)) : Items(r)[j].key = k
  BY <1>2 DEF Mentioned, Items
<1>4. CASE batch[r].endpoint = "predictions"
  <2>1. AllNamed(Items(r), statement[r], Len(Items(r)))
    BY <1>1, <1>4, StatementTypes DEF IInv, Deduplicated
  <2> QED
    BY <1>3, <2>1 DEF AllNamed, Key, Item
<1>5. CASE batch[r].endpoint = "odds"
  <2>1. statement[r] = [i \in 1 .. Len(Items(r)) |-> i]
    BY <1>1, <1>5 DEF Statement, Positions, Items
  <2> QED
    BY <1>3, <2>1 DEF Key, Item
<1> QED
  BY <1>2, <1>4, <1>5

(* The rows that can still be refused are those of the statement.          *)
LEMMA StatementIsUsed ==
  ASSUME IInv, NEW r \in Requests, phase[r] = "open"
  PROVE  Promise!Used(r) = {statement[r][n] : n \in DOMAIN statement[r]}
<1>1. statement[r] = Statement(batch[r])
  BY DEF IInv, WellFormed
<1>2. /\ Items(r) \in Seq(Rows) /\ DOMAIN Items(r) = 1 .. Len(Items(r)) /\ Len(Items(r)) \in Nat
      /\ batch[r].endpoint \in {"odds", "predictions"}
  BY BodyTypes
<1>3. CASE batch[r].endpoint = "predictions"
  <2>1. Promise!Used(r) = {Promise!Newest(r, k) : k \in Mentioned(batch[r])}
    BY <1>3, SameBodies DEF Promise!Used
  <2>2. \A n \in DOMAIN statement[r] :
          /\ Key(r, n) \in Mentioned(batch[r])
          /\ Promise!Newest(r, Key(r, n)) = statement[r][n]
    BY <1>3, ItemTypes, StatementIsNewest DEF Mentioned, Key, Item, Items
  <2>3. \A k \in Mentioned(batch[r]) : \E n \in DOMAIN statement[r] : Key(r, n) = k
    BY StatementNamesAll
  <2> QED
    BY <2>1, <2>2, <2>3
<1>4. CASE batch[r].endpoint = "odds"
  <2>1. statement[r] = [i \in 1 .. Len(Items(r)) |-> i]
    BY <1>1, <1>4 DEF Statement, Positions, Items
  <2>2. Promise!Used(r) = DOMAIN Items(r)
    BY <1>4, SameBodies DEF Promise!Used
  <2> QED
    BY <1>2, <2>1, <2>2
<1> QED
  BY <1>2, <1>3, <1>4

(* A reader sees a row of k exactly when one is committed.                 *)
LEMMA VisibleOrNot ==
  ASSUME IInv, NEW k \in Keys
  PROVE  Visible(k) = <<>> <=> Committed(k) = {}
<1>1. CASE Committed(k) = {}
  BY <1>1 DEF Visible
<1>2. CASE Committed(k) # {}
  <2>1. /\ Committed(k) \in SUBSET Nat /\ Len(versions[k]) \in Nat
        /\ \A i \in Committed(k) : i \in DOMAIN versions[k] /\ i <= Len(versions[k])
    BY ChainTypes DEF IInv, Committed
  <2>2. PICK i \in Committed(k) : \A j \in Committed(k) : j <= i
    BY <1>2, <2>1, GreatestNatural
  <2>3. Visible(k) = versions[k][i]
    BY <1>2, <2>1, <2>2, GreatestIsMax DEF Visible
  <2>4. versions[k][i] \in Requests \X Nat
    BY <2>1, ChainTypes DEF IInv
  <2>5. \A v \in Requests \X Nat : v # <<>>
    <3>1. \A q, n : <<q, n>> # <<>>
      OBVIOUS
    <3>2. \A v \in Requests \X Nat : \E q \in Requests, n \in Nat : v = <<q, n>>
      OBVIOUS
    <3> QED
      BY <3>1, <3>2, Zenon
  <2> QED
    BY <1>2, <2>3, <2>4, <2>5
<1> QED
  BY <1>1, <1>2

(* The end of a request is its only answer.                                *)
LEMMA AnswersOnce ==
  ASSUME IInv, NEW r \in Requests, phase[r] # "done", NEW how \in Outcomes,
         Answer(r, how), UNCHANGED inserted,
         NEW n, n = IF how = "ok" THEN inserted[r] ELSE 0
  PROVE  Promise!Decide(r, Promise!Answer(StatusOf(how), n))
<1> DEFINE replies == [o \in Requests |-> [status   |-> StatusOf(outcome[o]),
                                           inserted |-> IF outcome[o] = "ok" THEN inserted[o] ELSE 0]]
<1>1. outcome \in [Requests -> Outcomes] /\ outcome[r] = "pending"
  BY DEF IInv, TypeOK, WellFormed
<1>2. outcome' = [outcome EXCEPT ![r] = how]
  BY DEF Answer
<1>3. replies[r].status = 0
  BY <1>1, StatusCodes
<1>4. replies' = [replies EXCEPT ![r] = [status |-> StatusOf(how), inserted |-> n]]
  BY <1>1, <1>2
<1> QED
  BY <1>3, <1>4, SameBodies DEF Promise!Decide, Promise!Answer

LEMMA RefusesAs ==
  ASSUME IInv, NEW r \in Requests, phase[r] # "done",
         NEW how \in Outcomes \ {"pending", "ok"}, Rollback(r, how),
         how = "not_found" => Unknown(r), how = "check" => Promise!Refused(r, "check")
  PROVE  Promise!Refuse(r)
<1>1. Answer(r, how) /\ UNCHANGED <<batch, inserted, versions, log>>
  BY DEF Rollback
<1>2. Promise!Decide(r, Promise!Answer(StatusOf(how), 0))
  BY <1>1, AnswersOnce
<1>3. \/ how = "not_found" /\ StatusOf(how) = 404
      \/ how = "check" /\ StatusOf(how) = 400
      \/ StatusOf(how) = 500
  BY StatusCodes DEF Outcomes
<1>4. \A k : Visible(k)' = Visible(k)
  BY <1>1, CommittedKept DEF Visible
<1> QED
  BY <1>1, <1>2, <1>3, <1>4, SameBodies DEF Promise!Refuse

LEMMA EmptyAccepts ==
  ASSUME IInv, NEW r \in Requests, NothingToDo(r)
  PROVE  Promise!Accept(r)
<1>1. /\ phase[r] = "idle" /\ Items(r) = <<>> /\ Answer(r, "ok")
      /\ UNCHANGED <<batch, inserted, versions, log>>
  BY DEF NothingToDo, Rollback
<1>2. inserted[r] = 0 /\ "ok" \in Outcomes
  BY <1>1 DEF IInv, WellFormed, Outcomes
<1>3. Promise!Decide(r, Promise!Answer(200, 0))
  BY <1>1, <1>2, AnswersOnce, StatusCodes
<1>4. DOMAIN Items(r) = {} /\ Mentioned(batch[r]) = {}
  BY <1>1 DEF Mentioned, Items
<1>5. Promise!Used(r) = {} /\ ~ Unknown(r) /\ Promise!NewKeys(r) = {}
  BY <1>4, SameBodies DEF Promise!Used, Unknown, Promise!NewKeys
<1>6. Cardinality({}) = 0
  BY FS_EmptySet
<1>7. \A k : Visible(k)' = Visible(k)
  BY <1>1, CommittedKept DEF Visible
<1>8. ~ \E flaw \in Promise!Flaws \ {"none"} : Promise!Refused(r, flaw)
  BY <1>5 DEF Promise!Refused
<1> QED
  <2>1. ~ Promise!Unknown(r) /\ UNCHANGED batch /\ Promise!Mentioned(batch[r]) = {}
    BY <1>1, <1>4, <1>5, SameBodies
  <2>2. Promise!Cardinality(Promise!NewKeys(r)) = 0
    BY <1>5, <1>6, SameCount
  <2>3. Promise!Decide(r, Promise!Answer(200, Promise!Cardinality(Promise!NewKeys(r))))
    BY <1>3, <2>2 DEF Promise!Decide, Promise!Answer
  <2>4. [k \in Keys |-> Visible(k)]' =
         [k \in Keys |-> IF k \in Promise!Mentioned(batch[r]) THEN <<r, Promise!Newest(r, k)>>
                         ELSE [m \in Keys |-> Visible(m)][k]]
    BY <1>7, <2>1
  <2> QED
    BY <1>8, <2>1, <2>3, <2>4 DEF Promise!Accept

(* A commit shows all the rows of its batch at once, and has counted those *)
(* of keys that had none.                                                  *)
LEMMA CommitAccepts ==
  ASSUME IInv, NEW r \in Requests, NEW how \in {"ok", "server"},
         Executed(r), log' = Append(log, r), Answer(r, how),
         UNCHANGED <<batch, statement, written, inserted, versions>>
  PROVE  Promise!Accept(r)
<1>1. /\ phase[r] = "open" /\ written[r] = Len(statement[r]) /\ statement[r] \in Seq(Nat)
      /\ DOMAIN statement[r] = 1 .. written[r]
  BY DEF Executed, IInv, TypeOK
<1>2. WellFormed(r)
  BY DEF IInv
<1>3. \A m, n \in DOMAIN statement[r] : Key(r, m) = Key(r, n) => m = n
  BY <1>1, <1>2 DEF WellFormed
<1>4. \A n \in DOMAIN statement[r] : Promise!Newest(r, Key(r, n)) = statement[r][n]
  BY <1>1, <1>3, StatementIsNewest
<1>5. ~ \E flaw \in Promise!Flaws \ {"none"} : Promise!Refused(r, flaw)
  <2>1. \A n \in DOMAIN statement[r] : Items(r)[statement[r][n]].flaw = "none"
    BY <1>1, <1>2 DEF WellFormed, Item
  <2> QED
    <3> SUFFICES ASSUME NEW flaw \in Flaws \ {"none"}, Promise!Refused(r, flaw) PROVE FALSE
      BY SameBodies
    <3>1. PICK i \in Promise!Used(r) : Items(r)[i].flaw = flaw
      BY SameBodies DEF Promise!Refused
    <3> QED
      <4>1. i \in {statement[r][n] : n \in DOMAIN statement[r]}
        BY <1>1, StatementIsUsed
      <4> QED
        BY <2>1, <3>1, <4>1
<1>6. Mentioned(batch[r]) = {Key(r, n) : n \in DOMAIN statement[r]}
  <2>1. \A n \in DOMAIN statement[r] : Key(r, n) \in Mentioned(batch[r])
    BY ItemTypes DEF Mentioned, Key, Item, Items
  <2> QED
    BY <1>1, <2>1, StatementNamesAll
<1>7. Mentioned(batch[r]) = Locked(r)
  BY <1>1, <1>6 DEF Locked, Key
<1>8. Cardinality(Promise!NewKeys(r)) = inserted[r]
  <2>1. \A k \in Locked(r) : k \in Keys
    BY LockedLast
  <2>2. Promise!NewKeys(r) = {k \in Locked(r) : [m \in Keys |-> Visible(m)][k] = <<>>}
    BY <1>7, SameBodies DEF Promise!NewKeys
  <2>3. Promise!NewKeys(r) = FirstOf(r)
    BY <2>1, <2>2, VisibleOrNot DEF FirstOf
  <2> QED
    BY <1>1, <1>2, <2>3 DEF WellFormed
<1>9. \/ Promise!Decide(r, Promise!Answer(200, Cardinality(Promise!NewKeys(r))))
      \/ Promise!Decide(r, Promise!Answer(500, 0))
  <2>1. CASE how = "ok"
    <3>1. "ok" \in Outcomes
      BY DEF Outcomes
    <3> QED
      <4>0. Answer(r, "ok") /\ phase[r] # "done" /\ UNCHANGED inserted
        BY <1>1, <2>1
      <4>1. PICK n : n = IF "ok" = "ok" THEN inserted[r] ELSE 0
        OBVIOUS
      <4>2. Promise!Decide(r, Promise!Answer(StatusOf("ok"), n))
        BY <3>1, <4>0, <4>1, AnswersOnce
      <4>3. n = Cardinality(Promise!NewKeys(r)) /\ StatusOf("ok") = 200
        BY <1>8, <4>1, StatusCodes
      <4> QED
        BY <4>2, <4>3 DEF Promise!Decide, Promise!Answer
  <2>2. CASE how = "server"
    <3>1. "server" \in Outcomes
      BY DEF Outcomes
    <3> QED
      BY <1>1, <2>2, <3>1, AnswersOnce, StatusCodes
  <2> QED
    BY <2>1, <2>2
<1>10. \A o : o \in ToSet(log)' <=> o \in ToSet(log) \/ o = r
  <2>1. /\ log \in Seq(Requests) /\ DOMAIN log = 1 .. Len(log) /\ Len(log) \in Nat
    BY DEF IInv, TypeOK
  <2>2. /\ DOMAIN log' = 1 .. Len(log) + 1 /\ log'[Len(log) + 1] = r
        /\ \A p \in DOMAIN log : log'[p] = log[p]
    BY <2>1
  <2>3. \A p \in DOMAIN log' : p \in DOMAIN log \/ p = Len(log) + 1
    BY <2>1, <2>2
  <2> QED
    BY <2>1, <2>2, <2>3 DEF ToSet
<1>11. ASSUME NEW k \in Keys, k \notin Mentioned(batch[r]) PROVE Visible(k)' = Visible(k)
  <2>1. \A i \in DOMAIN versions[k] : Writer(k, i) # r
    BY <1>1, <1>7, <1>11, WriterLocks
  <2>2. Committed(k)' = Committed(k)
    BY <1>10, <2>1 DEF Committed, Writer
  <2> QED
    BY <2>2 DEF Visible
<1>12. ASSUME NEW k \in Keys, k \in Mentioned(batch[r])
       PROVE  Visible(k)' = <<r, Promise!Newest(r, k)>>
  <2> DEFINE L == Len(versions[k])
  <2>1. L \in DOMAIN versions[k] /\ Writer(k, L) = r
    BY <1>7, <1>12, LockedLast
  <2>2. L \in Nat /\ \A i \in DOMAIN versions[k] : i \in Nat /\ i <= L
    BY ChainTypes DEF IInv
  <2>3. L \in Committed(k)' /\ \A i \in Committed(k)' : i \in Nat /\ i <= L
    BY <1>10, <2>1, <2>2 DEF Committed, Writer
  <2>4. Max(Committed(k)') = L
    BY <2>3, GreatestIsMax
  <2>5. Visible(k)' = versions[k][L]
    BY <2>3, <2>4 DEF Visible
  <2>6. PICK n \in 1 .. written[r] : Key(r, n) = k /\ versions[k][L] = <<r, statement[r][n]>>
    BY <2>1 DEF IInv, ChainInv, WrittenBy
  <2> QED
    BY <1>1, <1>4, <2>5, <2>6
<1>13. [k \in Keys |-> Visible(k)]' =
         [k \in Keys |-> IF k \in Mentioned(batch[r]) THEN <<r, Promise!Newest(r, k)>>
                         ELSE [m \in Keys |-> Visible(m)][k]]
  BY <1>11, <1>12
<1>14. ~ Unknown(r)
  BY <1>1, <1>2 DEF WellFormed
<1> QED
  <2>1. ~ Promise!Unknown(r) /\ UNCHANGED batch
    BY <1>14, SameBodies
  <2>2. Promise!Cardinality(Promise!NewKeys(r)) = Cardinality(Promise!NewKeys(r))
    BY SameCount
  <2>3. \A b : Promise!Mentioned(b) = Mentioned(b)
    BY SameBodies
  <2>4. \/ Promise!Decide(r, Promise!Answer(200, Promise!Cardinality(Promise!NewKeys(r))))
        \/ Promise!Decide(r, Promise!Answer(500, 0))
    BY <1>9, <2>2 DEF Promise!Decide, Promise!Answer
  <2>5. [k \in Keys |-> Visible(k)]' =
         [k \in Keys |-> IF k \in Promise!Mentioned(batch[r]) THEN <<r, Promise!Newest(r, k)>>
                         ELSE [m \in Keys |-> Visible(m)][k]]
    BY <1>13, <2>3
  <2> QED
    BY <1>5, <2>1, <2>4, <2>5 DEF Promise!Accept

LEMMA NextRefines ==
  ASSUME IInv, [Next]_vars
  PROVE  Promise!Next \/ UNCHANGED Promise!vars
<1> DEFINE Table == [k \in Keys |-> Visible(k)]
           Replies == [r \in Requests |-> [status   |-> StatusOf(outcome[r]),
                                           inserted |-> IF outcome[r] = "ok" THEN inserted[r] ELSE 0]]
<1>1. ASSUME batch' = batch, \A k \in Keys : Visible(k)' = Visible(k), outcome' = outcome,
             \A r \in Requests : outcome[r] # "pending" => inserted'[r] = inserted[r]
      PROVE  UNCHANGED Promise!vars
  <2>1. Table' = Table
    BY <1>1
  <2>2. \A r \in Requests : (IF outcome[r] = "ok" THEN inserted'[r] ELSE 0)
                           = (IF outcome[r] = "ok" THEN inserted[r] ELSE 0)
    BY <1>1
  <2>3. Replies' = Replies
    BY <1>1, <2>2
  <2> QED
    BY <1>1, <2>1, <2>3 DEF Promise!vars
<1>2. CASE UNCHANGED vars \/ Quiescent
  <2>1. UNCHANGED <<batch, versions, log, outcome, inserted>>
    BY <1>2 DEF vars, Quiescent
  <2>2. \A k : Visible(k)' = Visible(k)
    BY <2>1, CommittedKept DEF Visible
  <2> QED
    BY <1>1, <2>1, <2>2
<1>3. ASSUME NEW r \in Requests, Arrive(r) \/ Step(r) \/ Fail(r) \/ CommitUnacknowledged(r)
      PROVE  Promise!Next \/ UNCHANGED Promise!vars
  <2>0. Outcomes \ {"pending", "ok"} = {"not_found", "check", "data", "mixed_times",
                                        "cardinality", "deadlock", "server"}
    BY DEF Outcomes
  <2>1. CASE NothingToDo(r)
    BY <2>1, EmptyAccepts DEF Promise!Next
  <2>2. CASE UnknownReference(r)
    BY <2>0, <2>2, RefusesAs DEF UnknownReference, Promise!Next
  <2>3. CASE MixedTimes(r)
    BY <2>0, <2>3, RefusesAs DEF MixedTimes, Promise!Next
  <2>4. CASE Execute(r)
    <3>1. UNCHANGED <<batch, versions, log, outcome, inserted>>
      BY <2>4 DEF Execute
    <3>2. \A k : Visible(k)' = Visible(k)
      BY <3>1, CommittedKept DEF Visible
    <3> QED
      BY <1>1, <3>1, <3>2
  <2>5. CASE RejectRow(r)
    <3>1. PICK how : how = NextRow(r).flaw
      OBVIOUS
    <3>2. /\ how \in {"check", "data"} /\ Rollback(r, how) /\ phase[r] = "open"
          /\ written[r] < Len(statement[r]) /\ written[r] \in Nat /\ statement[r] \in Seq(Nat)
      BY <2>5, <3>1 DEF RejectRow, HasNext, IInv, TypeOK
    <3>3. written[r] + 1 \in DOMAIN statement[r]
      BY <3>2
    <3>4. statement[r][written[r] + 1] \in Promise!Used(r)
      BY <3>2, <3>3, StatementIsUsed
    <3>5. Promise!Refused(r, how)
      BY <3>1, <3>4, SameBodies DEF Promise!Refused, NextRow, Item
    <3>6. Promise!Refuse(r)
      BY <2>0, <3>2, <3>5, RefusesAs
    <3> QED
      BY <3>6 DEF Promise!Next
  <2>6. CASE SecondTime(r)
    BY <2>0, <2>6, RefusesAs DEF SecondTime, HasNext, Promise!Next
  <2>7. CASE WriteRow(r)
    <3>1. /\ phase[r] = "open" /\ UNCHANGED <<batch, outcome>>
          /\ \A o \in Requests \ {r} : inserted'[o] = inserted[o]
      BY <2>7 DEF WriteRow, HasNext, IInv, TypeOK
    <3>2. outcome[r] = "pending"
      BY <3>1 DEF IInv, WellFormed
    <3>3. ASSUME NEW k \in Keys PROVE Visible(k)' = Visible(k)
      <4>1. Committed(k)' = Committed(k) /\ \A i \in Committed(k) : versions'[k][i] = versions[k][i]
        BY <2>7, WriteRowUnseen
      <4>2. Committed(k) # {} => Max(Committed(k)) \in Committed(k)
        <5> SUFFICES ASSUME Committed(k) # {} PROVE Max(Committed(k)) \in Committed(k)
          OBVIOUS
        <5>1. /\ Committed(k) \in SUBSET Nat /\ Len(versions[k]) \in Nat
              /\ \A i \in Committed(k) : i <= Len(versions[k])
          BY ChainTypes DEF IInv, Committed
        <5>2. PICK i \in Committed(k) : \A j \in Committed(k) : j <= i
          BY <5>1, GreatestNatural
        <5> QED
          BY <5>1, <5>2, GreatestIsMax
      <4> QED
        BY <4>1, <4>2 DEF Visible
    <3> QED
      BY <1>1, <3>1, <3>2, <3>3
  <2>8. CASE Deadlock(r)
    BY <2>0, <2>8, DeadlockIsOpen, RefusesAs DEF Deadlock, Promise!Next
  <2>9. CASE Fail(r)
    BY <2>0, <2>9, RefusesAs DEF Fail, Promise!Next
  <2>10. CASE Commit(r)
    BY <2>10, CommitAccepts DEF Commit, Promise!Next
  <2>11. CASE CommitUnacknowledged(r)
    BY <2>11, CommitAccepts DEF CommitUnacknowledged, Promise!Next
  <2> QED
    BY <1>3, <2>1, <2>2, <2>3, <2>4, <2>5, <2>6, <2>7, <2>8, <2>9, <2>10, <2>11 DEF Arrive, Step
<1> QED
  BY <1>2, <1>3 DEF Next

(* The endpoints implement AtomicBatches, for any number of requests and   *)
(* keys: whatever interleaves, a batch takes effect in one step, and a 200 *)
(* counts the keys that it made.                                           *)
THEOREM ImplementsPromise == Spec => KeepsPromise
<1>1. Init => Promise!Init
  <2> SUFFICES ASSUME Init PROVE Promise!Init
    OBVIOUS
  <2>1. \A k \in Keys : Visible(k) = <<>>
    BY DEF Init, Visible, Committed
  <2>2. \A r \in Requests : outcome[r] = "pending"
    BY DEF Init
  <2> QED
    BY <2>1, <2>2, StatusCodes, SameBodies DEF Init, Promise!Init, Promise!Answer
<1>2. IInv /\ [Next]_vars => [Promise!Next]_(Promise!vars)
  BY NextRefines
<1> QED
  BY <1>1, <1>2, InductiveInvariant, PTL DEF Spec, KeepsPromise, Promise!Spec

===============================================================================
