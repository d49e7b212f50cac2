----------------------------- MODULE ServiceProofs -----------------------------
(***************************************************************************)
(* Proofs about Service, for any number of calls, threads, connections and *)
(* outages, and for any table of API keys.                                 *)
(***************************************************************************)
EXTENDS Service, FiniteSetTheorems, TLAPS

-----------------------------------------------------------------------------
(* Types.                                                                  *)

Stages == Queued \cup OnLoop \cup InThread

(* What a call asks is one of the routes.                                  *)
LEMMA CallTypes ==
  ASSUME TypeOK, NEW r \in Requests
  PROVE  call[r].kind \in KindNames /\ call[r].body \in BodiesOf(call[r].kind)
BY ServiceAssumption DEF TypeOK, NoCall, KindNames, BodiesOf, Route, Bodies

(* The dependencies of a route, one after the other.                       *)
LEMMA DependencyOrder ==
  ASSUME NEW k \in KindNames
  PROVE  /\ Head(Dependencies(k)) = IF Route(k).scopes = {} THEN "handle" ELSE "scopes"
         /\ Route(k).scopes # {} =>
              Following(k, "scopes") = IF Route(k).limited THEN "per_key" ELSE "session"
         /\ Route(k).limited =>
              Following(k, "per_key") = "global" /\ Following(k, "global") = "session"
<1>1. CASE Route(k).scopes = {}
  <2>1. Dependencies(k) = <<"handle">> /\ ~Route(k).limited
    BY <1>1 DEF Dependencies, Route, KindNames
  <2> QED
    BY <1>1, <2>1
<1>2. CASE Route(k).scopes # {} /\ ~Route(k).limited
  <2>1. Dependencies(k) = <<"scopes", "session", "handle">>
    BY <1>2 DEF Dependencies
  <2> QED
    BY <1>2, <2>1 DEF Following
<1>3. CASE Route(k).scopes # {} /\ Route(k).limited
  <2>1. Dependencies(k) = <<"scopes", "per_key", "global", "session", "handle">>
    BY <1>3 DEF Dependencies
  <2> QED
    BY <1>3, <2>1 DEF Following
<1> QED
  BY <1>1, <1>2, <1>3

(* A call that moves to stage s leaves the others where they are.          *)
LEMMA GoToTypes ==
  ASSUME TypeOK, NEW r \in Requests, NEW s \in Stages, NEW q \in Seq(Requests),
         GoTo(r, s, q)
  PROVE  /\ stage' \in [Requests -> Stages] /\ queue' \in Seq(Requests)
         /\ stage'[r] = s /\ \A p \in Requests \ {r} : stage'[p] = stage[p]
<1>1. stage \in [Requests -> Stages]
  BY DEF TypeOK, Stages
<1>2. stage' = [stage EXCEPT ![r] = s] /\ queue' \in {q, Append(q, r)}
  BY DEF GoTo
<1>3. Append(q, r) \in Seq(Requests)
  OBVIOUS
<1> QED
  BY <1>1, <1>2, <1>3

LEMMA LeaveTypes ==
  ASSUME TypeOK, NEW r \in Requests, NEW result \in Replies, NEW q \in Seq(Requests),
         Leave(r, result, q)
  PROVE  /\ stage' \in [Requests -> Stages] /\ queue' \in Seq(Requests)
         /\ reply' \in [Requests -> Replies]
         /\ stage'[r] = "close" /\ reply'[r] = result
         /\ \A p \in Requests \ {r} : stage'[p] = stage[p] /\ reply'[p] = reply[p]
<1>1. "close" \in Stages
  BY DEF Stages, OnLoop
<1>2. GoTo(r, "close", q) /\ reply' = [reply EXCEPT ![r] = result]
  BY DEF Leave
<1>3. reply \in [Requests -> Replies]
  BY DEF TypeOK
<1> QED
  BY <1>1, <1>2, <1>3, GoToTypes

(* The replies of the code are replies.                                    *)
LEMMA ReplyTypes ==
  /\ \A k \in KindNames : Returned(Route(k).status) \in Replies
  /\ Returned(503) \in Replies /\ Returned(200) \in Replies
  /\ HttpException(401, {"WWW-Authenticate"}) \in Replies
  /\ HttpException(429, {"Retry-After"}) \in Replies
  /\ \A s \in {400, 403, 404} : HttpException(s, {}) \in Replies
  /\ ValidationError \in Replies /\ Unhandled \in Replies
  /\ \A s \in {400, 404, 409} : Violation(s) \in Replies
BY DEF Replies, Returned, HttpException, ValidationError, Unhandled, Violation, Raised,
       Statuses, Headers, Route, KindNames

LEMMA RunsTypes ==
  ASSUME TypeOK, NEW r \in Requests, NEW job \in Queued, Runs(r, job)
  PROVE  stage[r] = job /\ Tail(queue) \in Seq(Requests) /\ Cardinality(Busy) < Threads
BY DEF Runs, TypeOK

-----------------------------------------------------------------------------
(* The inductive invariant.                                                *)

(* Connections and threads are counted right.                              *)
PoolInv ==
  /\ fresh + stale <= PoolSize
  /\ Cardinality(InUse) + fresh + stale <= Capacity
  /\ Cardinality(Busy) <= Threads

Over(r) == stage[r] \in {"close", "answered"}

(* What a call has gone through to be where it is.                         *)
Gates(r) ==
  /\ stage[r] \in {"sent", "scopes", "per_key"} => charged[r] = {}
  /\ stage[r] = "scopes" => RouteOf(r).scopes # {}
  /\ stage[r] \in {"per_key", "global"} => Admitted(r) /\ RouteOf(r).limited
  /\ stage[r] = "global" => charged[r] = {"per_key"}
  /\ stage[r] = "session" => Admitted(r) /\ Paid(r)
  /\ stage[r] \notin {"sent", "close", "answered"} => call[r].body # "malformed"
  /\ stage[r] \in {"handle", "render"} \cup InThread =>
       /\ RouteOf(r).session => Admitted(r) /\ Paid(r)
       /\ call[r].body \in {"fine", "refused", "raising"}
  /\ stage[r] \in {"ping", "pinging"} => call[r].kind = "readyz"
  /\ stage[r] \in InThread => call[r].kind \notin {"healthz", "boom"}
  /\ charged[r] # {} => Admitted(r)

(* A transaction has been committed only behind all gates, and a writer    *)
(* that has come as far as its result has committed.                       *)
Commits(r) ==
  /\ stored[r] =>
       /\ RouteOf(r).writes /\ Admitted(r) /\ Paid(r) /\ call[r].body = "fine"
       /\ stage[r] \in {"committed", "render", "close", "answered"}
  /\ stage[r] = "committed" => stored[r]
  /\ stage[r] = "render" /\ RouteOf(r).writes => stored[r]

(* Who holds a connection.                                                 *)
Holds(r) ==
  /\ conn[r] # "none" =>
       /\ stage[r] \in {"pinging", "work", "committed", "render", "close"}
       /\ RouteOf(r).session => Admitted(r) /\ Paid(r)
       /\ stage[r] = "render" => call[r].kind = "list"
  /\ stage[r] \in {"pinging", "work", "committed"} => conn[r] # "none"

(* What a call will be told, and what failed before it is told so.         *)
Told(r) ==
  /\ ~Over(r) => reply[r].raised = "none" /\ reply[r].status \in {200, 201}
  /\ reply[r].raised = "exception" => reply[r].status = 500
  /\ Over(r) =>
       /\ RouteOf(r).writes /\ reply[r].status \in {200, 201} => stored[r]
       /\ stored[r] => reply[r].status \in {200, 201, 500}
       /\ reply[r].status \in {500, 503} /\ ~Raising(r) => blame[r] # {}
  /\ stage[r] = "answered" => answer[r].status = reply[r].status
  /\ conn[r] = "dead" \/ ((~up \/ Unfit) /\ InFlight(r)) => blame[r] # {}

Good(r) == Gates(r) /\ Commits(r) /\ Holds(r) /\ Told(r)

IInv ==
  /\ TypeOK
  /\ PoolInv
  /\ AnswersAreCounted
  /\ \A r \in Requests : Good(r)

-----------------------------------------------------------------------------
(* What a step of one call leaves alone, and how it is told.               *)

Others(r) ==
  \A p \in Requests \ {r} :
    /\ call'[p] = call[p] /\ stage'[p] = stage[p] /\ conn'[p] = conn[p]
    /\ reply'[p] = reply[p] /\ answer'[p] = answer[p]
    /\ charged'[p] = charged[p] /\ stored'[p] = stored[p] /\ blame'[p] = blame[p]

(* The other calls stay good.                                              *)
LEMMA OthersKeep ==
  ASSUME NEW r \in Requests, Others(r), up' = up, schema' = schema,
         NEW p \in Requests \ {r}, Good(p)
  PROVE  Good(p)'
<1> USE DEF Others
<1>1. /\ call'[p] = call[p] /\ stage'[p] = stage[p] /\ conn'[p] = conn[p]
      /\ reply'[p] = reply[p] /\ answer'[p] = answer[p]
      /\ charged'[p] = charged[p] /\ stored'[p] = stored[p] /\ blame'[p] = blame[p]
  OBVIOUS
<1>2. /\ RouteOf(p)' = RouteOf(p) /\ Admitted(p)' = Admitted(p) /\ Paid(p)' = Paid(p)
      /\ Over(p)' = Over(p) /\ InFlight(p)' = InFlight(p)
      /\ Raising(p)' = Raising(p) /\ Unfit' = Unfit
  BY <1>1 DEF RouteOf, Admitted, Known, Granted, Paid, Over, InFlight, Raising, Unfit,
              Unready
<1>3. Gates(p)'
  BY <1>1, <1>2 DEF Good, Gates
<1>4. Commits(p)'
  BY <1>1, <1>2 DEF Good, Commits
<1>5. Holds(p)'
  BY <1>1, <1>2 DEF Good, Holds
<1>6. Told(p)'
  BY <1>1, <1>2 DEF Good, Told
<1> QED
  BY <1>3, <1>4, <1>5, <1>6 DEF Good

-----------------------------------------------------------------------------
(* The pool and the threads.                                               *)

(* A step of r keeps the pool within its limits.                           *)
PoolStep(r) ==
  /\ conn' \in [Requests -> {"none", "live", "dead"}]
  /\ \A p \in Requests \ {r} : conn'[p] = conn[p]
  /\ fresh' \in 0..PoolSize /\ stale' \in 0..PoolSize
  /\ fresh' + stale' <= PoolSize
  /\ Cardinality(InUse') + fresh' + stale' <= Capacity

LEMMA InUseIsFinite ==
  ASSUME TypeOK
  PROVE  IsFiniteSet(InUse) /\ Cardinality(InUse) \in Nat /\ Capacity \in Nat
<1>1. InUse \subseteq Requests
  BY DEF InUse
<1> QED
  BY <1>1, FS_Subset, FS_CardinalityType, ServiceAssumption DEF Capacity

LEMMA PoolKept ==
  ASSUME TypeOK, PoolInv, NEW r \in Requests, UNCHANGED poolVars
  PROVE  PoolStep(r) /\ conn'[r] = conn[r]
<1>1. conn' = conn /\ fresh' = fresh /\ stale' = stale /\ InUse' = InUse
  BY DEF poolVars, InUse
<1> QED
  BY <1>1 DEF PoolStep, PoolInv, TypeOK

LEMMA Released ==
  ASSUME TypeOK, PoolInv, NEW r \in Requests, Release(r)
  PROVE  PoolStep(r) /\ conn'[r] = "none"
<1>1. /\ conn' \in [Requests -> {"none", "live", "dead"}] /\ conn'[r] = "none"
      /\ \A p \in Requests \ {r} : conn'[p] = conn[p]
  BY DEF Release, TypeOK
<1>2. /\ fresh' = (IF Kept(r) THEN fresh + 1 ELSE fresh) /\ stale' = stale
      /\ Kept(r) => r \in InUse /\ fresh + stale < PoolSize
  BY DEF Release, Kept, InUse
<1>3. InUse' = InUse \ {r}
  BY <1>1 DEF InUse
<1>4. Cardinality(InUse') = IF r \in InUse THEN Cardinality(InUse) - 1 ELSE Cardinality(InUse)
  BY <1>3, InUseIsFinite, FS_RemoveElement
<1>5. fresh \in 0..PoolSize /\ stale \in 0..PoolSize
      /\ fresh + stale <= PoolSize /\ Cardinality(InUse) + fresh + stale <= Capacity
  BY DEF TypeOK, PoolInv
<1>6. PoolSize \in Nat
  BY ServiceAssumption
<1>7. fresh' \in 0..PoolSize /\ fresh' + stale' <= PoolSize
  BY <1>2, <1>5, <1>6
<1>8. Cardinality(InUse') + fresh' + stale' <= Capacity
  BY <1>2, <1>4, <1>5, InUseIsFinite
<1> QED
  BY <1>1, <1>2, <1>5, <1>7, <1>8 DEF PoolStep

(* One idle connection less: of the fresh ones or of the stale ones.       *)
LEMMA OneLess ==
  ASSUME NEW a \in Nat, NEW b \in Nat, NEW c \in Nat, NEW d \in Nat,
         c = a \/ c = a - 1, d = b \/ d = b - 1, (a - c) + (b - d) = 1
  PROVE  (c = a - 1 /\ d = b) \/ (c = a /\ d = b - 1)
OBVIOUS

LEMMA Taken ==
  ASSUME TypeOK, PoolInv, NEW r \in Requests, conn[r] = "none", Take(r)
  PROVE  PoolStep(r) /\ conn'[r] = "live"
<1>1. /\ conn' \in [Requests -> {"none", "live", "dead"}] /\ conn'[r] = "live"
      /\ \A p \in Requests \ {r} : conn'[p] = conn[p]
  BY DEF Take, HandedOut, TypeOK
<1>2. InUse' = InUse \cup {r} /\ r \notin InUse
  BY <1>1 DEF InUse
<1>3. Cardinality(InUse') = Cardinality(InUse) + 1
  BY <1>2, InUseIsFinite, FS_AddElement
<1>4. fresh \in 0..PoolSize /\ stale \in 0..PoolSize
      /\ fresh + stale <= PoolSize /\ Cardinality(InUse) + fresh + stale <= Capacity
  BY DEF TypeOK, PoolInv
<1>5. /\ fresh' \in {fresh, fresh - 1} /\ stale' \in {stale, stale - 1}
      /\ fresh' \in Nat /\ stale' \in Nat
      /\ (fresh - fresh') + (stale - stale') = IF fresh + stale = 0 THEN 0 ELSE 1
      /\ Cardinality(InUse) < Capacity
  BY InUseIsFinite DEF Take, Full
<1>6. PoolSize \in Nat
  BY ServiceAssumption
<1>7. CASE fresh + stale = 0
  <2>1. fresh' = 0 /\ stale' = 0
    BY <1>4, <1>5, <1>7
  <2> QED
    BY <1>1, <1>3, <1>5, <1>6, <2>1, InUseIsFinite DEF PoolStep
<1>8. CASE fresh + stale # 0
  <2>1. /\ fresh \in Nat /\ stale \in Nat /\ fresh' \in Nat /\ stale' \in Nat
        /\ fresh + stale <= PoolSize /\ Cardinality(InUse) + fresh + stale <= Capacity
    BY <1>4, <1>5, <1>6
  <2>2. /\ fresh' = fresh \/ fresh' = fresh - 1
        /\ stale' = stale \/ stale' = stale - 1
        /\ (fresh - fresh') + (stale - stale') = 1
    BY <1>5, <1>8
  <2>3. \/ fresh' = fresh - 1 /\ stale' = stale
        \/ fresh' = fresh /\ stale' = stale - 1
    BY <2>1, <2>2, OneLess
  <2>4. CASE fresh' = fresh - 1 /\ stale' = stale
    <3>1. fresh' <= PoolSize /\ stale' <= PoolSize /\ fresh' + stale' <= PoolSize
      BY <1>6, <2>1, <2>4
    <3>2. Cardinality(InUse') + fresh' + stale' <= Capacity
      BY <1>3, <2>1, <2>4, InUseIsFinite
    <3>3. fresh' \in 0..PoolSize /\ stale' \in 0..PoolSize
      BY <1>6, <2>1, <3>1
    <3> QED
      BY <1>1, <3>1, <3>2, <3>3 DEF PoolStep
  <2>5. CASE fresh' = fresh /\ stale' = stale - 1
    <3>1. fresh' <= PoolSize /\ stale' <= PoolSize /\ fresh' + stale' <= PoolSize
      BY <1>6, <2>1, <2>5
    <3>2. Cardinality(InUse') + fresh' + stale' <= Capacity
      BY <1>3, <2>1, <2>5, InUseIsFinite
    <3>3. fresh' \in 0..PoolSize /\ stale' \in 0..PoolSize
      BY <1>6, <2>1, <3>1
    <3> QED
      BY <1>1, <3>1, <3>2, <3>3 DEF PoolStep
  <2> QED
    BY <2>3, <2>4, <2>5
<1> QED
  BY <1>7, <1>8

(* A job takes a thread only if one is free.                               *)
LEMMA ThreadsSuffice ==
  ASSUME TypeOK, PoolInv, NEW r \in Requests,
         \A p \in Requests \ {r} : stage'[p] = stage[p],
         stage'[r] \in InThread => stage[r] \in InThread \/ Cardinality(Busy) < Threads
  PROVE  Cardinality(Busy') <= Threads
<1>1. IsFiniteSet(Busy) /\ Cardinality(Busy) \in Nat
  <2>1. Busy \subseteq Requests
    BY DEF Busy
  <2> QED
    BY <2>1, FS_Subset, FS_CardinalityType, ServiceAssumption
<1>2. CASE stage'[r] \in InThread /\ stage[r] \notin InThread
  <2>1. Busy' = Busy \cup {r} /\ r \notin Busy
    BY <1>2 DEF Busy
  <2>2. Cardinality(Busy') = Cardinality(Busy) + 1
    BY <1>1, <2>1, FS_AddElement
  <2> QED
    BY <1>1, <1>2, <2>2, ServiceAssumption
<1>3. CASE ~(stage'[r] \in InThread /\ stage[r] \notin InThread)
  <2>1. Busy' \subseteq Busy
    BY <1>3 DEF Busy
  <2>2. Cardinality(Busy') <= Cardinality(Busy) /\ Cardinality(Busy') \in Nat
    BY <1>1, <2>1, FS_Subset, FS_CardinalityType
  <2> QED
    BY <1>1, <2>2, ServiceAssumption DEF PoolInv
<1> QED
  BY <1>2, <1>3

-----------------------------------------------------------------------------
(* A step of r that does not answer it keeps the invariant if it keeps r   *)
(* good and the pool within its limits.                                    *)

LEMMA StepKeeps ==
  ASSUME IInv, NEW r \in Requests, TypeOK', Others(r), Good(r)', PoolStep(r),
         up' = up, schema' = schema, counted' = counted,
         stage[r] # "answered", stage'[r] # "answered",
         stage'[r] \in InThread => stage[r] \in InThread \/ Cardinality(Busy) < Threads
  PROVE  IInv'
<1>1. TypeOK /\ PoolInv /\ AnswersAreCounted /\ \A p \in Requests : Good(p)
  BY DEF IInv
<1>2. \A p \in Requests \ {r} : Good(p)'
  BY <1>1, OthersKeep
<1>3. PoolInv'
  BY <1>1, ThreadsSuffice DEF PoolInv, PoolStep, Others
<1>4. \A s \in Statuses : {p \in Requests : stage'[p] = "answered" /\ answer'[p].status = s}
                           = {p \in Requests : stage[p] = "answered" /\ answer[p].status = s}
  BY DEF Others
<1>5. AnswersAreCounted'
  BY <1>1, <1>4 DEF AnswersAreCounted
<1> QED
  BY <1>2, <1>3, <1>5 DEF IInv

(* A call that leaves its route without a result.                          *)
LEMMA LeavingKeeps ==
  ASSUME NEW r \in Requests, Good(r), ~Over(r), InFlight(r),
         call'[r] = call[r], stored'[r] = stored[r], charged'[r] = charged[r],
         up' = up, schema' = schema,
         conn'[r] \in {conn[r], "none"}, blame[r] # {} => blame'[r] # {},
         stage'[r] = "close",
         reply'[r].status \notin {200, 201},
         stored[r] => reply'[r].status = 500,
         reply'[r].raised = "exception" => reply'[r].status = 500,
         reply'[r].status \in {500, 503} /\ ~Raising(r) => blame'[r] # {}
  PROVE  Good(r)'
<1> USE DEF RouteOf, Admitted, Paid, Known, Granted, Over, InFlight, InThread, Raising
<1>1. Gates(r)'
  BY DEF Good, Gates
<1>2. Commits(r)'
  BY DEF Good, Commits
<1>3. Holds(r)'
  BY DEF Good, Holds
<1>4. Told(r)'
  BY DEF Good, Told, Unfit, Unready
<1> QED
  BY <1>1, <1>2, <1>3, <1>4 DEF Good

(* The same with everything else such a step does.                         *)
LEMMA LeavesKeep ==
  ASSUME IInv, NEW r \in Requests, ~Over(r), InFlight(r),
         NEW result \in Replies, NEW q \in Seq(Requests), Leave(r, result, q),
         UNCHANGED <<call, databaseVars, answerVars, charged, stored>>,
         PoolStep(r), conn'[r] \in {conn[r], "none"},
         blame' \in [Requests -> SUBSET Causes],
         \A p \in Requests \ {r} : blame'[p] = blame[p],
         blame[r] # {} => blame'[r] # {},
         result.status \notin {200, 201},
         stored[r] => result.status = 500,
         result.raised = "exception" => result.status = 500,
         result.status \in {500, 503} /\ ~Raising(r) => blame'[r] # {}
  PROVE  IInv'
<1>1. TypeOK /\ Good(r)
  BY DEF IInv
<1>2. /\ stage' \in [Requests -> Stages] /\ queue' \in Seq(Requests)
      /\ reply' \in [Requests -> Replies]
      /\ stage'[r] = "close" /\ reply'[r] = result
      /\ \A p \in Requests \ {r} : stage'[p] = stage[p] /\ reply'[p] = reply[p]
  BY <1>1, LeaveTypes
<1>3. UNCHANGED <<call, up, outages, schema, migrations, answer, counted, charged, stored>>
  BY DEF databaseVars, answerVars
<1>4. TypeOK'
  <2>1. stage' \in [Requests -> Queued \cup OnLoop \cup InThread]
    BY <1>2 DEF Stages
  <2>2. /\ conn' \in [Requests -> {"none", "live", "dead"}]
        /\ fresh' \in 0..PoolSize /\ stale' \in 0..PoolSize
    BY DEF PoolStep
  <2> QED
    BY <1>1, <1>2, <1>3, <2>1, <2>2 DEF TypeOK
<1>5. Others(r)
  BY <1>2, <1>3 DEF Others, PoolStep
<1>6. Good(r)'
  BY <1>1, <1>2, <1>3, LeavingKeeps
<1> QED
  BY <1>2, <1>3, <1>4, <1>5, <1>6, StepKeeps DEF InFlight, InThread

(* A call that goes on to another function before its answer is known.     *)
LEMMA MovesKeep ==
  ASSUME IInv, NEW r \in Requests, ~Over(r), InFlight(r),
         NEW s \in Queued \cup {"per_key", "global"} \cup InThread,
         NEW q \in Seq(Requests), GoTo(r, s, q),
         UNCHANGED <<call, databaseVars, reply, answerVars, blame>>,
         PoolStep(r), conn'[r] \in {conn[r], "none", "live"},
         charged' \in [Requests -> SUBSET {"per_key", "global"}],
         stored' \in [Requests -> BOOLEAN],
         \A p \in Requests \ {r} : charged'[p] = charged[p] /\ stored'[p] = stored[p],
         s \in InThread => stage[r] \in InThread \/ Cardinality(Busy) < Threads,
         stage'[r] = s => Gates(r)' /\ Commits(r)' /\ Holds(r)'
  PROVE  IInv'
<1>1. TypeOK /\ Good(r)
  BY DEF IInv
<1>2. s \in Stages /\ s \notin {"sent", "close", "answered"}
  BY DEF Stages, Queued, OnLoop, InThread
<1>3. /\ stage' \in [Requests -> Stages] /\ queue' \in Seq(Requests)
      /\ stage'[r] = s /\ \A p \in Requests \ {r} : stage'[p] = stage[p]
  BY <1>1, <1>2, GoToTypes
<1>4. UNCHANGED <<call, up, outages, schema, migrations, reply, answer, counted, blame>>
  BY DEF databaseVars, answerVars
<1>5. TypeOK'
  BY <1>1, <1>3, <1>4 DEF TypeOK, Stages, PoolStep
<1>6. Others(r)
  BY <1>3, <1>4 DEF Others, PoolStep
<1>7. Told(r)'
  BY <1>1, <1>2, <1>3, <1>4 DEF Good, Told, Over, InFlight,
       Raising, Unfit, Unready
<1>8. Good(r)'
  BY <1>3, <1>7 DEF Good
<1>9. stage[r] # "answered" /\ stage'[r] # "answered" /\ up' = up /\ schema' = schema
      /\ counted' = counted
  BY <1>2, <1>3, <1>4 DEF Over
<1> QED
  BY <1>3, <1>5, <1>6, <1>8, <1>9, StepKeeps

(* The same for a step that touches neither the pool nor the histories.    *)
LEMMA QuietMoveKeeps ==
  ASSUME IInv, NEW r \in Requests, ~Over(r), InFlight(r),
         NEW s \in Queued \cup {"per_key", "global"} \cup InThread,
         NEW q \in Seq(Requests), GoTo(r, s, q),
         UNCHANGED <<call, poolVars, databaseVars, answerVars, historyVars>>, reply' = reply,
         s \in InThread => stage[r] \in InThread \/ Cardinality(Busy) < Threads,
         stage'[r] = s => Gates(r)' /\ Commits(r)' /\ Holds(r)'
  PROVE  IInv'
<1>1. TypeOK /\ PoolInv
  BY DEF IInv
<1>2. UNCHANGED poolVars /\ UNCHANGED <<call, databaseVars, reply, answerVars, blame>>
  BY DEF historyVars
<1>3. PoolStep(r) /\ conn'[r] \in {conn[r], "none", "live"}
  BY <1>1, <1>2, PoolKept
<1>4. /\ charged' \in [Requests -> SUBSET {"per_key", "global"}]
      /\ stored' \in [Requests -> BOOLEAN]
      /\ \A p \in Requests \ {r} : charged'[p] = charged[p] /\ stored'[p] = stored[p]
  BY <1>1 DEF TypeOK, historyVars
<1> QED
  BY <1>2, <1>3, <1>4, MovesKeep

(* A call that is refused before it has stored anything.                   *)
LEMMA RefusalKeeps ==
  ASSUME IInv, NEW r \in Requests, ~Over(r), InFlight(r), ~stored[r],
         NEW result \in Replies, NEW q \in Seq(Requests), Leave(r, result, q),
         UNCHANGED <<call, poolVars, databaseVars, answerVars, historyVars>>,
         result.raised # "exception", result.status \notin {200, 201, 500, 503}
  PROVE  IInv'
<1>1. TypeOK /\ PoolInv
  BY DEF IInv
<1>2. UNCHANGED poolVars /\ UNCHANGED <<call, databaseVars, answerVars, charged, stored>>
  BY DEF historyVars
<1>3. PoolStep(r) /\ conn'[r] \in {conn[r], "none"}
  BY <1>1, <1>2, PoolKept
<1>4. blame' = blame /\ blame' \in [Requests -> SUBSET Causes]
  BY <1>1 DEF TypeOK, historyVars
<1>5. /\ \A p \in Requests \ {r} : blame'[p] = blame[p]
      /\ blame[r] # {} => blame'[r] # {}
  BY <1>4
<1> QED
  BY <1>2, <1>3, <1>4, <1>5, LeavesKeep

(* An exception of the driver, of the pool, or of Redis, that is blamed on *)
(* something.                                                              *)
LEMMA BlameTypes ==
  ASSUME TypeOK, NEW r \in Requests, NEW causes \in SUBSET Causes,
         blame' = [blame EXCEPT ![r] = @ \cup causes]
  PROVE  /\ blame' \in [Requests -> SUBSET Causes]
         /\ \A p \in Requests \ {r} : blame'[p] = blame[p]
         /\ blame'[r] = blame[r] \cup causes
BY DEF TypeOK

LEMMA FailKeeps ==
  ASSUME IInv, NEW r \in Requests, stage[r] \in InThread,
         NEW causes \in SUBSET Causes, Fail(r, causes),
         causes \cup blame[r] # {}
  PROVE  IInv'
<1>1. TypeOK /\ PoolInv /\ Good(r)
  BY DEF IInv
<1>2. ~Over(r) /\ InFlight(r)
  BY DEF Over, InFlight, InThread
<1>3. UNCHANGED <<call, databaseVars, answerVars, charged, stored>>
  BY DEF Fail
<1>4. /\ blame' \in [Requests -> SUBSET Causes]
      /\ \A p \in Requests \ {r} : blame'[p] = blame[p]
      /\ blame'[r] # {}
  BY <1>1, BlameTypes DEF Fail
<1>5. queue \in Seq(Requests)
  BY <1>1 DEF TypeOK
<1>6. CASE call[r].kind = "readyz"
  <2>1. Leave(r, Returned(503), queue) /\ Release(r)
    BY <1>6 DEF Fail
  <2>2. PoolStep(r) /\ conn'[r] \in {conn[r], "none"}
    BY <1>1, <2>1, Released
  <2>3. ~stored[r]
    BY <1>1, <1>6 DEF Good, Commits, RouteOf, Route
  <2>4. /\ Returned(503) \in Replies
        /\ Returned(503).status \notin {200, 201} /\ Returned(503).raised # "exception"
    BY ReplyTypes DEF Returned
  <2> QED
    BY <1>2, <1>3, <1>4, <1>5, <2>1, <2>2, <2>3, <2>4, LeavesKeep
<1>7. CASE call[r].kind # "readyz"
  <2>1. Leave(r, Unhandled, queue) /\ UNCHANGED poolVars
    BY <1>7 DEF Fail
  <2>2. PoolStep(r) /\ conn'[r] \in {conn[r], "none"}
    BY <1>1, <2>1, PoolKept
  <2>3. Unhandled \in Replies /\ Unhandled.status = 500 /\ Unhandled.status \notin {200, 201}
    BY ReplyTypes DEF Unhandled
  <2> QED
    BY <1>2, <1>3, <1>4, <1>5, <2>1, <2>2, <2>3, LeavesKeep
<1> QED
  BY <1>6, <1>7

-----------------------------------------------------------------------------
(* One lemma per action.                                                   *)

LEMMA CheckScopesKeeps ==
  ASSUME IInv, NEW r \in Requests, CheckScopes(r)
  PROVE  IInv'
<1>1. TypeOK /\ PoolInv /\ Good(r)
  BY DEF IInv
<1>2. stage[r] = "scopes" /\ Tail(queue) \in Seq(Requests)
  BY <1>1, RunsTypes DEF CheckScopes, Queued
<1>3. call[r].kind \in KindNames /\ RouteOf(r).scopes # {}
  BY <1>1, <1>2, CallTypes DEF Good, Gates
<1>4. UNCHANGED <<call, poolVars, databaseVars, answerVars, historyVars>>
  BY DEF CheckScopes
<1>5. ~Over(r) /\ InFlight(r)
  BY <1>2 DEF Over, InFlight
<1>6. CASE ~Admitted(r)
  <2>1. PICK result \in {HttpException(401, {"WWW-Authenticate"}), HttpException(403, {})} :
          Leave(r, result, Tail(queue))
    BY <1>6 DEF CheckScopes, Admitted
  <2>2. result \in Replies /\ result.raised # "exception"
        /\ result.status \notin {200, 201, 500, 503}
    BY <2>1, ReplyTypes DEF HttpException
  <2>3. ~stored[r]
    BY <1>1, <1>2 DEF Good, Commits
  <2> DEFINE q == Tail(queue)
  <2>4. q \in Seq(Requests) /\ Leave(r, result, q)
    BY <1>2, <2>1
  <2> HIDE DEF q
  <2> QED
    BY <1>4, <1>5, <2>2, <2>3, <2>4, RefusalKeeps
<1>7. CASE Admitted(r)
  <2>1. PICK s \in {"per_key", "session"} :
          /\ GoTo(r, s, Tail(queue)) /\ reply' = reply
          /\ s = IF RouteOf(r).limited THEN "per_key" ELSE "session"
    BY <1>3, <1>7, DependencyOrder DEF CheckScopes, Admitted, RouteOf
  <2>2. UNCHANGED <<call, conn, charged, stored>> /\ UNCHANGED poolVars
    BY <1>4 DEF historyVars, poolVars
  <2>3. ASSUME stage'[r] = s
        PROVE  Gates(r)' /\ Commits(r)' /\ Holds(r)'
    <3> USE DEF RouteOf, Admitted, Paid, Known, Granted, InThread
    <3>1. Gates(r)'
      BY <1>1, <1>2, <1>7, <2>1, <2>2, <2>3 DEF Good, Gates
    <3>2. Commits(r)' /\ Holds(r)'
      BY <1>1, <1>2, <2>1, <2>2, <2>3 DEF Good, Commits, Holds
    <3> QED
      BY <3>1, <3>2
  <2> QED
    BY <1>1, <1>2, <1>4, <1>5, <2>1, <2>2, <2>3, QuietMoveKeeps
       DEF Queued, InThread
<1> QED
  BY <1>6, <1>7

LEMMA DenyKeeps ==
  ASSUME IInv, NEW r \in Requests, Deny(r)
  PROVE  IInv'
<1> DEFINE result == HttpException(429, {"Retry-After"})
<1>1. TypeOK /\ Good(r)
  BY DEF IInv
<1>2. stage[r] \in {"per_key", "global"} /\ Leave(r, result, queue)
      /\ UNCHANGED <<call, poolVars, databaseVars, answerVars, historyVars>>
  BY DEF Deny
<1>3. ~Over(r) /\ InFlight(r) /\ ~stored[r] /\ queue \in Seq(Requests)
  BY <1>1, <1>2 DEF Over, InFlight, Good, Commits, TypeOK
<1>4. result \in Replies /\ result.raised # "exception"
      /\ result.status \notin {200, 201, 500, 503}
  BY ReplyTypes DEF HttpException
<1> HIDE DEF result
<1> QED
  BY <1>2, <1>3, <1>4, RefusalKeeps

LEMMA RedisFailsKeeps ==
  ASSUME IInv, NEW r \in Requests, RedisFails(r)
  PROVE  IInv'
<1>1. TypeOK /\ PoolInv /\ Good(r)
  BY DEF IInv
<1>2. /\ stage[r] \in {"per_key", "global"} /\ Leave(r, Unhandled, queue)
      /\ UNCHANGED poolVars /\ UNCHANGED <<call, databaseVars, answerVars, charged, stored>>
      /\ blame' = [blame EXCEPT ![r] = @ \cup {"redis"}]
  BY DEF RedisFails
<1>3. ~Over(r) /\ InFlight(r) /\ ~stored[r] /\ queue \in Seq(Requests)
  BY <1>1, <1>2 DEF Over, InFlight, Good, Commits, TypeOK
<1>4. /\ blame' \in [Requests -> SUBSET Causes]
      /\ \A p \in Requests \ {r} : blame'[p] = blame[p]
      /\ blame'[r] # {}
  BY <1>1, <1>2, BlameTypes DEF Causes
<1>5. PoolStep(r) /\ conn'[r] \in {conn[r], "none"}
  BY <1>1, <1>2, PoolKept
<1>6. Unhandled \in Replies /\ Unhandled.status = 500 /\ Unhandled.status \notin {200, 201}
  BY ReplyTypes DEF Unhandled
<1>7. /\ blame[r] # {} => blame'[r] # {}
      /\ Unhandled.status \in {500, 503} /\ ~Raising(r) => blame'[r] # {}
      /\ stored[r] => Unhandled.status = 500
      /\ Unhandled.raised = "exception" => Unhandled.status = 500
  BY <1>4, <1>6
<1>8. UNCHANGED <<call, databaseVars, answerVars, charged, stored>> /\ Leave(r, Unhandled, queue)
  BY <1>2
<1>9. ~Over(r) /\ InFlight(r) /\ queue \in Seq(Requests)
  BY <1>3
<1> QED
  BY <1>4, <1>5, <1>6, <1>7, <1>8, <1>9, LeavesKeep

LEMMA OpenSessionKeeps ==
  ASSUME IInv, NEW r \in Requests, OpenSession(r)
  PROVE  IInv'
<1>1. TypeOK /\ PoolInv /\ Good(r)
  BY DEF IInv
<1>2. stage[r] = "session" /\ Tail(queue) \in Seq(Requests)
  BY <1>1, RunsTypes DEF OpenSession, Queued
<1>3. UNCHANGED <<call, poolVars, databaseVars, answerVars, historyVars>>
  BY DEF OpenSession
<1>4. ~Over(r) /\ InFlight(r) /\ ~stored[r]
  BY <1>1, <1>2 DEF Over, InFlight, Good, Commits
<1>5. CASE call[r].body = "invalid"
  <2>1. Leave(r, ValidationError, Tail(queue))
    BY <1>5 DEF OpenSession
  <2>2. ValidationError \in Replies /\ ValidationError.raised # "exception"
        /\ ValidationError.status \notin {200, 201, 500, 503}
    BY ReplyTypes DEF ValidationError
  <2> DEFINE q == Tail(queue)
  <2>3. q \in Seq(Requests) /\ Leave(r, ValidationError, q)
    BY <1>2, <2>1
  <2> HIDE DEF q
  <2> QED
    BY <1>3, <1>4, <2>2, <2>3, RefusalKeeps
<1>6. CASE call[r].body # "invalid"
  <2>1. GoTo(r, "handle", Tail(queue)) /\ reply' = reply
    BY <1>6 DEF OpenSession
  <2>2. UNCHANGED <<call, conn, charged, stored>>
    BY <1>3 DEF historyVars, poolVars
  <2>3. call[r].body \in {"fine", "refused", "raising"}
    BY <1>1, <1>2, <1>6, CallTypes DEF Good, Gates, BodiesOf, Bodies
  <2>4. ASSUME stage'[r] = "handle"
        PROVE  Gates(r)' /\ Commits(r)' /\ Holds(r)'
    <3> USE DEF RouteOf, Admitted, Paid, Known, Granted, InThread
    <3>1. Gates(r)'
      BY <1>1, <1>2, <2>2, <2>3, <2>4 DEF Good, Gates
    <3>2. Commits(r)' /\ Holds(r)'
      BY <1>1, <1>2, <2>2, <2>4 DEF Good, Commits, Holds
    <3> QED
      BY <3>1, <3>2
  <2> QED
    BY <1>1, <1>2, <1>3, <1>4, <2>1, <2>4, QuietMoveKeeps DEF Queued, InThread
<1> QED
  BY <1>5, <1>6

LEMMA ChargeKeeps ==
  ASSUME IInv, NEW r \in Requests, NEW bucket \in {"per_key", "global"}, Charge(r, bucket)
  PROVE  IInv'
<1>1. TypeOK /\ PoolInv /\ Good(r)
  BY DEF IInv
<1>2. /\ stage[r] = bucket
      /\ charged' = [charged EXCEPT ![r] = @ \cup {bucket}]
      /\ UNCHANGED <<call, poolVars, databaseVars, reply, answerVars, stored, blame>>
  BY DEF Charge
<1>3. /\ charged' \in [Requests -> SUBSET {"per_key", "global"}]
      /\ \A p \in Requests \ {r} : charged'[p] = charged[p]
      /\ charged'[r] = charged[r] \cup {bucket}
      /\ stored' = stored /\ stored' \in [Requests -> BOOLEAN]
      /\ queue \in Seq(Requests)
  BY <1>1, <1>2 DEF TypeOK
<1>4. ~Over(r) /\ InFlight(r)
  BY <1>2 DEF Over, InFlight
<1>5. call[r].kind \in KindNames /\ RouteOf(r).limited /\ Admitted(r)
  BY <1>1, <1>2, CallTypes DEF Good, Gates
<1>6. PICK s \in {"global", "session"} :
        /\ GoTo(r, s, queue)
        /\ s = IF bucket = "per_key" THEN "global" ELSE "session"
  BY <1>5, DependencyOrder DEF Charge, RouteOf
<1>7. PoolStep(r) /\ conn'[r] = conn[r]
  BY <1>1, <1>2, PoolKept
<1>8. charged'[r] = IF bucket = "per_key" THEN {"per_key"} ELSE {"per_key", "global"}
  BY <1>1, <1>2, <1>3 DEF Good, Gates
<1>9. ASSUME stage'[r] = s
      PROVE  Gates(r)' /\ Commits(r)' /\ Holds(r)'
  <2> USE DEF RouteOf, Admitted, Paid, Known, Granted, InThread
  <2>1. Gates(r)'
    BY <1>1, <1>2, <1>5, <1>6, <1>8, <1>9 DEF Good, Gates
  <2>2. Commits(r)' /\ Holds(r)'
    BY <1>1, <1>2, <1>3, <1>6, <1>7, <1>9 DEF Good, Commits, Holds
  <2> QED
    BY <2>1, <2>2
<1>10. UNCHANGED <<call, databaseVars, reply, answerVars, blame>>
  BY <1>2
<1>11. s \in Queued \cup {"per_key", "global"} \cup InThread /\ s \notin InThread
  BY DEF Queued, InThread
<1> QED
  BY <1>3, <1>4, <1>6, <1>7, <1>9, <1>10, <1>11, MovesKeep

LEMMA HandleKeeps ==
  ASSUME IInv, NEW r \in Requests, Handle(r)
  PROVE  IInv'
<1>1. TypeOK /\ PoolInv /\ Good(r)
  BY DEF IInv
<1>2. stage[r] = "handle" /\ Tail(queue) \in Seq(Requests) /\ Cardinality(Busy) < Threads
  BY <1>1, RunsTypes DEF Handle, Queued
<1>3. UNCHANGED <<call, poolVars, databaseVars, answerVars, historyVars>>
  BY DEF Handle
<1>4. ~Over(r) /\ InFlight(r) /\ ~stored[r] /\ conn[r] = "none"
  BY <1>1, <1>2 DEF Over, InFlight, Good, Commits, Holds
<1>5. UNCHANGED <<call, conn, charged, stored>> /\ UNCHANGED poolVars
  BY <1>3 DEF historyVars, poolVars
<1>6. CASE call[r].kind = "boom"
  <2>1. Leave(r, Unhandled, Tail(queue))
    BY <1>6 DEF Handle
  <2>2. Unhandled \in Replies /\ Unhandled.status = 500 /\ Unhandled.status \notin {200, 201}
    BY ReplyTypes DEF Unhandled
  <2>3. PoolStep(r) /\ conn'[r] \in {conn[r], "none"}
    BY <1>1, <1>5, PoolKept
  <2>4. /\ blame' \in [Requests -> SUBSET Causes]
        /\ \A p \in Requests \ {r} : blame'[p] = blame[p]
        /\ blame[r] # {} => blame'[r] # {}
    BY <1>1, <1>3 DEF TypeOK, historyVars
  <2>5. UNCHANGED <<call, databaseVars, answerVars, charged, stored>>
    BY <1>3 DEF historyVars
  <2>6. /\ stored[r] => Unhandled.status = 500
        /\ ~(Unhandled.status \in {500, 503} /\ ~Raising(r))
    BY <1>6, <2>2 DEF Raising
  <2> DEFINE q == Tail(queue)
  <2>7. q \in Seq(Requests) /\ Leave(r, Unhandled, q)
    BY <1>2, <2>1
  <2> HIDE DEF q
  <2> QED
    BY <1>4, <2>2, <2>3, <2>4, <2>5, <2>6, <2>7, LeavesKeep
<1>7. CASE call[r].kind # "boom"
  <2>1. PICK s \in {"render", "ping", "connect"} :
          /\ GoTo(r, s, Tail(queue)) /\ reply' = reply
          /\ s = CASE call[r].kind = "healthz" -> "render"
                   [] call[r].kind = "readyz"  -> "ping"
                   [] OTHER                    -> "connect"
    BY <1>7 DEF Handle
  <2>2. ASSUME stage'[r] = s
        PROVE  Gates(r)' /\ Commits(r)' /\ Holds(r)'
    <3> USE DEF RouteOf, Admitted, Paid, Known, Granted, InThread
    <3>1. Gates(r)'
      BY <1>1, <1>2, <1>5, <1>7, <2>1, <2>2 DEF Good, Gates
    <3>2. Commits(r)'
      BY <1>2, <1>4, <1>5, <2>1, <2>2 DEF Commits, Route
    <3>3. Holds(r)'
      BY <1>4, <1>5, <2>1, <2>2 DEF Holds
    <3> QED
      BY <3>1, <3>2, <3>3
  <2> QED
    BY <1>2, <1>3, <1>4, <2>1, <2>2, QuietMoveKeeps DEF Queued, InThread
<1> QED
  BY <1>6, <1>7

LEMMA ConnectKeeps ==
  ASSUME IInv, NEW r \in Requests, Connect(r)
  PROVE  IInv'
<1>1. TypeOK /\ PoolInv /\ Good(r)
  BY DEF IInv
<1>2. /\ stage[r] \in {"ping", "connect"} /\ Take(r)
      /\ UNCHANGED <<call, databaseVars, reply, answerVars, historyVars>>
  BY DEF Connect, Waiting
<1>3. conn[r] = "none" /\ ~stored[r] /\ ~Over(r) /\ InFlight(r)
  BY <1>1, <1>2 DEF Good, Holds, Commits, Over, InFlight
<1>4. PoolStep(r) /\ conn'[r] = "live"
  BY <1>1, <1>2, <1>3, Taken
<1>5. UNCHANGED <<call, databaseVars, reply, answerVars, blame>>
      /\ UNCHANGED <<charged, stored>> /\ queue \in Seq(Requests)
      /\ charged' \in [Requests -> SUBSET {"per_key", "global"}]
      /\ stored' \in [Requests -> BOOLEAN]
  BY <1>1, <1>2 DEF historyVars, TypeOK
<1>6. PICK s \in {"pinging", "work"} :
        GoTo(r, s, queue) /\ (s = IF stage[r] = "ping" THEN "pinging" ELSE "work")
  BY DEF Connect
<1>7. ASSUME stage'[r] = s
      PROVE  Gates(r)' /\ Commits(r)' /\ Holds(r)'
  <2> USE DEF RouteOf, Admitted, Paid, Known, Granted, InThread
  <2>1. Gates(r)'
    BY <1>1, <1>2, <1>5, <1>6, <1>7 DEF Good, Gates
  <2>2. Commits(r)'
    BY <1>3, <1>5, <1>6, <1>7 DEF Commits
  <2>3. Holds(r)'
    BY <1>1, <1>2, <1>4, <1>5, <1>6, <1>7 DEF Good, Gates, Holds
  <2> QED
    BY <2>1, <2>2, <2>3
<1>8. s \in Queued \cup {"per_key", "global"} \cup InThread /\ stage[r] \in InThread
  BY <1>2, <1>6 DEF InThread
<1> QED
  BY <1>3, <1>4, <1>5, <1>6, <1>7, <1>8, MovesKeep

LEMMA ConnectFailsKeeps ==
  ASSUME IInv, NEW r \in Requests, ConnectFails(r)
  PROVE  IInv'
<1>1. stage[r] \in {"ping", "connect"} /\ ~up /\ Fail(r, {})
  BY DEF ConnectFails, Waiting
<1>2. blame[r] # {}
  BY <1>1 DEF IInv, Good, Told, InFlight
<1> QED
  BY <1>1, <1>2, FailKeeps DEF InThread

LEMMA PoolTimeoutKeeps ==
  ASSUME IInv, NEW r \in Requests, PoolTimeout(r)
  PROVE  IInv'
<1>1. stage[r] \in {"ping", "connect"} /\ Fail(r, {"pool"})
  BY DEF PoolTimeout, Waiting
<1> QED
  BY <1>1, FailKeeps DEF InThread, Causes

LEMMA ConnectionLostKeeps ==
  ASSUME IInv, NEW r \in Requests, ConnectionLost(r)
  PROVE  IInv'
<1>1. stage[r] \in {"pinging", "work", "committed"} /\ conn[r] = "dead" /\ Fail(r, {})
  BY DEF ConnectionLost
<1>2. blame[r] # {}
  BY <1>1 DEF IInv, Good, Told
<1> QED
  BY <1>1, <1>2, FailKeeps DEF InThread

LEMMA SchemaFailsKeeps ==
  ASSUME IInv, NEW r \in Requests, SchemaFails(r)
  PROVE  IInv'
<1>1. stage[r] = "work" /\ Unfit /\ Fail(r, {})
  BY DEF SchemaFails, Unfit
<1>2. blame[r] # {}
  BY <1>1 DEF IInv, Good, Told, InFlight
<1> QED
  BY <1>1, <1>2, FailKeeps DEF InThread

LEMMA DeadlockKeeps ==
  ASSUME IInv, NEW r \in Requests, Deadlock(r)
  PROVE  IInv'
<1>1. stage[r] = "work" /\ Fail(r, {"deadlock"})
  BY DEF Deadlock
<1> QED
  BY <1>1, FailKeeps DEF InThread, Causes

LEMMA PingedKeeps ==
  ASSUME IInv, NEW r \in Requests, Pinged(r)
  PROVE  IInv'
<1>1. TypeOK /\ PoolInv /\ Good(r)
  BY DEF IInv
<1>2. /\ stage[r] = "pinging" /\ GoTo(r, "connect", queue) /\ Release(r)
      /\ UNCHANGED <<call, databaseVars, reply, answerVars, historyVars>>
  BY DEF Pinged
<1>3. ~Over(r) /\ InFlight(r)
  BY <1>2 DEF Over, InFlight
<1>4. PoolStep(r) /\ conn'[r] = "none"
  BY <1>1, <1>2, Released
<1>5. UNCHANGED <<call, databaseVars, reply, answerVars, blame>>
      /\ UNCHANGED <<charged, stored>> /\ queue \in Seq(Requests)
      /\ charged' \in [Requests -> SUBSET {"per_key", "global"}]
      /\ stored' \in [Requests -> BOOLEAN]
  BY <1>1, <1>2 DEF historyVars, TypeOK
<1>6. ASSUME stage'[r] = "connect"
      PROVE  Gates(r)' /\ Commits(r)' /\ Holds(r)'
  <2> USE DEF RouteOf, Admitted, Paid, Known, Granted, InThread
  <2>1. Gates(r)'
    BY <1>1, <1>2, <1>5, <1>6 DEF Good, Gates
  <2>2. Commits(r)' /\ Holds(r)'
    BY <1>1, <1>2, <1>4, <1>5, <1>6 DEF Good, Commits, Holds
  <2> QED
    BY <2>1, <2>2
<1> QED
  BY <1>2, <1>3, <1>4, <1>5, <1>6, MovesKeep DEF InThread

LEMMA ReadKeeps ==
  ASSUME IInv, NEW r \in Requests, Read(r)
  PROVE  IInv'
<1>1. TypeOK /\ PoolInv /\ Good(r)
  BY DEF IInv
<1>2. /\ stage[r] = "work" /\ ~RouteOf(r).writes /\ GoTo(r, "render", queue)
      /\ UNCHANGED <<call, databaseVars, reply, answerVars, historyVars>>
  BY DEF Read
<1>3. ~Over(r) /\ InFlight(r) /\ ~stored[r]
  BY <1>1, <1>2 DEF Over, InFlight, Good, Commits
<1>4. call[r].kind \in {"list", "readyz"}
  BY <1>1, <1>2, CallTypes DEF Good, Gates, RouteOf, Route, KindNames, InThread
<1>5. /\ PoolStep(r) /\ conn'[r] \in {conn[r], "none"}
      /\ conn'[r] # "none" => call[r].kind = "list"
  <2>1. CASE call[r].kind = "readyz"
    BY <1>1, <2>1, Released DEF Read
  <2>2. CASE call[r].kind = "list"
    BY <1>1, <2>2, PoolKept DEF Read
  <2> QED
    BY <1>4, <2>1, <2>2
<1>6. UNCHANGED <<call, databaseVars, reply, answerVars, blame>>
      /\ UNCHANGED <<charged, stored>> /\ queue \in Seq(Requests)
      /\ charged' \in [Requests -> SUBSET {"per_key", "global"}]
      /\ stored' \in [Requests -> BOOLEAN]
  BY <1>1, <1>2 DEF historyVars, TypeOK
<1>7. ASSUME stage'[r] = "render"
      PROVE  Gates(r)' /\ Commits(r)' /\ Holds(r)'
  <2> USE DEF RouteOf, Admitted, Paid, Known, Granted, InThread
  <2>1. Gates(r)'
    BY <1>1, <1>2, <1>6, <1>7 DEF Good, Gates
  <2>2. Commits(r)'
    BY <1>2, <1>3, <1>6, <1>7 DEF Commits
  <2>3. Holds(r)'
    BY <1>1, <1>2, <1>5, <1>6, <1>7 DEF Good, Gates, Holds
  <2> QED
    BY <2>1, <2>2, <2>3
<1> QED
  BY <1>2, <1>3, <1>5, <1>6, <1>7, MovesKeep DEF Queued, InThread

(* A refusal is no failure, unless the handler raises.                     *)
LEMMA RefuseKeeps ==
  ASSUME IInv, NEW r \in Requests, Refuse(r)
  PROVE  IInv'
<1>1. TypeOK /\ PoolInv /\ Good(r)
  BY DEF IInv
<1>2. /\ stage[r] = "work"
      /\ UNCHANGED <<call, poolVars, databaseVars, answerVars, historyVars>>
  BY DEF Refuse
<1>3. ~Over(r) /\ InFlight(r) /\ ~stored[r] /\ queue \in Seq(Requests)
  BY <1>1, <1>2 DEF Over, InFlight, Good, Commits, TypeOK
<1>4. PICK result \in Refusals(call[r]) : Leave(r, result, queue)
  BY DEF Refuse
<1>5. CASE call[r].body = "raising"
  <2>1. result = Unhandled
    BY <1>4, <1>5 DEF Refusals
  <2>2. Unhandled \in Replies /\ Unhandled.status = 500 /\ Unhandled.status \notin {200, 201}
    BY ReplyTypes DEF Unhandled
  <2>3. PoolStep(r) /\ conn'[r] \in {conn[r], "none"}
    BY <1>1, <1>2, PoolKept
  <2>4. /\ blame' \in [Requests -> SUBSET Causes]
        /\ \A p \in Requests \ {r} : blame'[p] = blame[p]
        /\ blame[r] # {} => blame'[r] # {}
    BY <1>1, <1>2 DEF TypeOK, historyVars
  <2>5. UNCHANGED <<call, databaseVars, answerVars, charged, stored>> /\ Raising(r)
    BY <1>2, <1>5 DEF historyVars, Raising
  <2>6. Leave(r, Unhandled, queue)
    BY <1>4, <2>1
  <2> QED
    BY <1>3, <2>2, <2>3, <2>4, <2>5, <2>6, LeavesKeep
<1>6. CASE call[r].body # "raising"
  <2>1. result \in {HttpException(400, {}), HttpException(404, {})}
                    \cup {Violation(status) : status \in {400, 404, 409}}
    BY <1>4, <1>6 DEF Refusals
  <2>2. /\ result \in Replies /\ result.raised # "exception"
        /\ result.status \notin {200, 201, 500, 503}
    BY <2>1, ReplyTypes DEF HttpException, Violation
  <2> QED
    BY <1>2, <1>3, <1>4, <2>2, RefusalKeeps
<1> QED
  BY <1>5, <1>6

LEMMA WriteKeeps ==
  ASSUME IInv, NEW r \in Requests, Write(r)
  PROVE  IInv'
<1>1. TypeOK /\ PoolInv /\ Good(r)
  BY DEF IInv
<1>2. /\ stage[r] = "work" /\ RouteOf(r).writes /\ call[r].body = "fine"
      /\ GoTo(r, "committed", queue)
      /\ stored' = [stored EXCEPT ![r] = TRUE]
      /\ UNCHANGED poolVars
      /\ UNCHANGED <<call, databaseVars, reply, answerVars, blame>> /\ charged' = charged
  BY DEF Write, Committed
<1>3. ~Over(r) /\ InFlight(r)
  BY <1>2 DEF Over, InFlight
<1>4. PoolStep(r) /\ conn'[r] = conn[r]
  BY <1>1, <1>2, PoolKept
<1>5. /\ charged' \in [Requests -> SUBSET {"per_key", "global"}]
      /\ stored' \in [Requests -> BOOLEAN] /\ stored'[r]
      /\ \A p \in Requests \ {r} : charged'[p] = charged[p] /\ stored'[p] = stored[p]
      /\ queue \in Seq(Requests)
  BY <1>1, <1>2 DEF TypeOK
<1>6. RouteOf(r).session
  BY <1>2 DEF RouteOf, Route
<1>7. ASSUME stage'[r] = "committed"
      PROVE  Gates(r)' /\ Commits(r)' /\ Holds(r)'
  <2> USE DEF RouteOf, Admitted, Paid, Known, Granted, InThread
  <2>1. Gates(r)'
    BY <1>1, <1>2, <1>7 DEF Good, Gates
  <2>2. Commits(r)'
    BY <1>1, <1>2, <1>5, <1>6, <1>7 DEF Good, Gates, Commits
  <2>3. Holds(r)'
    BY <1>1, <1>2, <1>4, <1>7 DEF Good, Gates, Holds
  <2> QED
    BY <2>1, <2>2, <2>3
<1> QED
  BY <1>2, <1>3, <1>4, <1>5, <1>7, MovesKeep DEF InThread

LEMMA ConfirmKeeps ==
  ASSUME IInv, NEW r \in Requests, Confirm(r)
  PROVE  IInv'
<1> DEFINE s == IF RouteOf(r).rendered THEN "render" ELSE "close"
           result == Returned(RouteOf(r).status)
<1>1. TypeOK /\ PoolInv /\ Good(r)
  BY DEF IInv
<1>2. /\ stage[r] = "committed" /\ Release(r) /\ GoTo(r, s, queue)
      /\ reply' = [reply EXCEPT ![r] = result]
      /\ UNCHANGED <<call, databaseVars, answerVars, historyVars>>
  BY DEF Confirm, EndTransaction
<1>3. stored[r] /\ RouteOf(r).writes /\ call[r].kind \in KindNames
  BY <1>1, <1>2, CallTypes DEF Good, Commits
<1>4. result \in Replies /\ result.raised = "none" /\ result.status \in {200, 201}
  BY <1>3, ReplyTypes DEF Returned, RouteOf, Route
<1>5. PoolStep(r) /\ conn'[r] = "none"
  BY <1>1, <1>2, Released
<1>6. s \in {"render", "close"} /\ s \in Stages /\ queue \in Seq(Requests)
  BY <1>1 DEF Stages, Queued, OnLoop, TypeOK
<1>7. /\ stage' \in [Requests -> Stages] /\ queue' \in Seq(Requests)
      /\ stage'[r] = s /\ \A p \in Requests \ {r} : stage'[p] = stage[p]
  BY <1>1, <1>2, <1>6, GoToTypes
<1> HIDE DEF s, result
<1>8. /\ reply' \in [Requests -> Replies]
      /\ reply'[r] = result /\ \A p \in Requests \ {r} : reply'[p] = reply[p]
  BY <1>1, <1>2, <1>4 DEF TypeOK
<1>9. UNCHANGED <<call, up, outages, schema, migrations, answer, counted, charged, stored,
                 blame>>
  BY <1>2 DEF databaseVars, answerVars, historyVars
<1>10. TypeOK' /\ Others(r)
  BY <1>1, <1>5, <1>7, <1>8, <1>9 DEF TypeOK, Stages, Others, PoolStep
<1>11. Good(r)'
  <2> USE DEF RouteOf, Admitted, Paid, Known, Granted, InThread
  <2>1. Gates(r)'
    BY <1>1, <1>2, <1>6, <1>7, <1>9 DEF Good, Gates
  <2>2. Commits(r)' /\ Holds(r)'
    BY <1>1, <1>2, <1>3, <1>5, <1>6, <1>7, <1>9 DEF Good, Commits, Holds
  <2>3. Told(r)'
    BY <1>1, <1>2, <1>3, <1>4, <1>5, <1>6, <1>7, <1>8, <1>9 DEF Good, Told, Over, InFlight,
       Raising, Unfit, Unready
  <2> QED
    BY <2>1, <2>2, <2>3 DEF Good
<1>12. stage[r] # "answered" /\ stage'[r] # "answered" /\ stage[r] \in InThread
  BY <1>2, <1>6, <1>7 DEF InThread
<1> QED
  BY <1>5, <1>9, <1>10, <1>11, <1>12, StepKeeps

LEMMA RenderKeeps ==
  ASSUME IInv, NEW r \in Requests, Render(r)
  PROVE  IInv'
<1>1. TypeOK /\ PoolInv /\ Good(r)
  BY DEF IInv
<1>2. stage[r] = "render" /\ Tail(queue) \in Seq(Requests)
  BY <1>1, RunsTypes DEF Render, Queued
<1>3. /\ Leave(r, reply[r], Tail(queue)) /\ reply[r] \in Replies
      /\ UNCHANGED poolVars /\ UNCHANGED <<call, databaseVars, answerVars, historyVars>>
  BY <1>1 DEF Render, TypeOK
<1>4. /\ stage' \in [Requests -> Stages] /\ queue' \in Seq(Requests)
      /\ reply' \in [Requests -> Replies]
      /\ stage'[r] = "close" /\ reply'[r] = reply[r]
      /\ \A p \in Requests \ {r} : stage'[p] = stage[p] /\ reply'[p] = reply[p]
  BY <1>1, <1>2, <1>3, LeaveTypes
<1>5. PoolStep(r) /\ conn'[r] = conn[r]
  BY <1>1, <1>3, PoolKept
<1>6. UNCHANGED <<call, up, outages, schema, migrations, answer, counted, charged, stored,
                 blame>>
  BY <1>3 DEF databaseVars, answerVars, historyVars
<1>7. TypeOK' /\ Others(r)
  BY <1>1, <1>4, <1>5, <1>6 DEF TypeOK, Stages, Others, PoolStep
<1>8. Good(r)'
  <2> USE DEF RouteOf, Admitted, Paid, Known, Granted, InThread
  <2>1. Gates(r)'
    BY <1>1, <1>2, <1>4, <1>6 DEF Good, Gates
  <2>2. Commits(r)' /\ Holds(r)'
    BY <1>1, <1>2, <1>4, <1>5, <1>6 DEF Good, Commits, Holds
  <2>3. Told(r)'
    BY <1>1, <1>2, <1>4, <1>5, <1>6 DEF Good, Commits, Told, Over, InFlight,
       Raising, Unfit, Unready
  <2> QED
    BY <2>1, <2>2, <2>3 DEF Good
<1>9. stage[r] # "answered" /\ stage'[r] # "answered" /\ stage'[r] \notin InThread
  BY <1>2, <1>4 DEF InThread
<1> QED
  BY <1>5, <1>6, <1>7, <1>8, <1>9, StepKeeps

(* The first function of a route is its scope check, or the handler of a   *)
(* route that asks for no scope.                                           *)
LEMMA ArriveKeeps ==
  ASSUME IInv, NEW r \in Requests, Arrive(r)
  PROVE  IInv'
<1>1. TypeOK /\ PoolInv /\ Good(r)
  BY DEF IInv
<1>2. PICK c \in Calls[r] :
        /\ call' = [call EXCEPT ![r] = c]
        /\ blame' = [blame EXCEPT ![r] = Ailments]
        /\ IF c.body = "malformed"
           THEN Leave(r, ValidationError, queue)
           ELSE GoTo(r, Head(Dependencies(c.kind)), queue) /\ UNCHANGED reply
  BY DEF Arrive
<1>3. /\ stage[r] = "sent" /\ UNCHANGED poolVars
      /\ UNCHANGED <<up, outages, schema, migrations, answer, counted, charged, stored>>
  BY DEF Arrive, databaseVars, answerVars
<1>4. c.kind \in KindNames /\ c.body \in BodiesOf(c.kind)
  BY ServiceAssumption
<1>5. /\ DOMAIN call' = Requests /\ \A p \in Requests : call'[p] \in Calls[p] \cup {NoCall}
      /\ call'[r] = c /\ \A p \in Requests \ {r} : call'[p] = call[p]
  BY <1>1, <1>2 DEF TypeOK
<1>6. /\ blame' \in [Requests -> SUBSET Causes]
      /\ \A p \in Requests \ {r} : blame'[p] = blame[p]
      /\ ~up \/ Unfit => blame'[r] # {}
  BY <1>1, <1>2 DEF TypeOK, Ailments, Causes
<1>7. PoolStep(r) /\ conn'[r] = "none" /\ charged'[r] = {} /\ ~stored'[r]
  BY <1>1, <1>3, PoolKept DEF Good, Gates, Commits, Holds
<1>8. queue \in Seq(Requests) /\ reply \in [Requests -> Replies]
      /\ reply[r].raised = "none" /\ reply[r].status \in {200, 201}
  BY <1>1, <1>3 DEF TypeOK, Good, Told, Over
<1>9. CASE c.body = "malformed"
  <2>1. ValidationError \in Replies
        /\ ValidationError.raised = "validation" /\ ValidationError.status = 422
    BY ReplyTypes DEF ValidationError
  <2>2. /\ stage' \in [Requests -> Stages] /\ queue' \in Seq(Requests)
        /\ reply' \in [Requests -> Replies]
        /\ stage'[r] = "close" /\ reply'[r] = ValidationError
        /\ \A p \in Requests \ {r} : stage'[p] = stage[p] /\ reply'[p] = reply[p]
    BY <1>1, <1>2, <1>8, <1>9, <2>1, LeaveTypes
  <2>3. TypeOK' /\ Others(r)
    BY <1>1, <1>3, <1>5, <1>6, <1>7, <2>2 DEF TypeOK, Stages, Others, PoolStep
  <2>4. Good(r)'
    <3>1. Gates(r)' /\ Commits(r)' /\ Holds(r)'
      BY <1>7, <2>2 DEF Gates, Commits, Holds, InThread
    <3>2. Told(r)'
      BY <1>3, <1>6, <1>7, <2>1, <2>2 DEF Told, Over, Unfit, Unready
    <3> QED
      BY <3>1, <3>2 DEF Good
  <2>5. stage[r] # "answered" /\ stage'[r] # "answered" /\ stage'[r] \notin InThread
    BY <1>3, <2>2 DEF InThread
  <2> QED
    BY <1>3, <1>7, <2>3, <2>4, <2>5, StepKeeps
<1>10. CASE c.body # "malformed"
  <2>1. PICK s \in {"handle", "scopes"} :
          /\ GoTo(r, s, queue) /\ reply' = reply
          /\ s = IF Route(c.kind).scopes = {} THEN "handle" ELSE "scopes"
    BY <1>2, <1>4, <1>10, DependencyOrder
  <2>2. s \in Stages /\ s \notin {"sent", "close", "answered"} \cup InThread
    BY DEF Stages, Queued, InThread
  <2>3. /\ stage' \in [Requests -> Stages] /\ queue' \in Seq(Requests)
        /\ stage'[r] = s /\ \A p \in Requests \ {r} : stage'[p] = stage[p]
    BY <1>1, <1>8, <2>1, <2>2, GoToTypes
  <2>4. TypeOK' /\ Others(r)
    BY <1>1, <1>3, <1>5, <1>6, <1>7, <1>8, <2>1, <2>3 DEF TypeOK, Stages, Others, PoolStep
  <2>5. s = "handle" => ~Route(c.kind).session /\ c.body = "fine"
    BY <1>4, <2>1 DEF Route, BodiesOf, KindNames
  <2>6. Good(r)'
    <3>1. Gates(r)'
      BY <1>5, <1>7, <1>10, <2>1, <2>2, <2>3, <2>5 DEF Gates, RouteOf, InThread
    <3>2. Commits(r)' /\ Holds(r)'
      BY <1>7, <2>1, <2>2, <2>3 DEF Commits, Holds, InThread
    <3>3. Told(r)'
      BY <1>3, <1>6, <1>7, <1>8, <2>1, <2>2, <2>3 DEF Told, Over, Unfit, Unready
    <3> QED
      BY <3>1, <3>2, <3>3 DEF Good
  <2>7. stage[r] # "answered" /\ stage'[r] # "answered" /\ stage'[r] \notin InThread
    BY <1>3, <2>2, <2>3
  <2> QED
    BY <1>3, <1>7, <2>4, <2>6, <2>7, StepKeeps
<1> QED
  BY <1>9, <1>10

(* The answer has the status of the reply, and that status is counted.     *)
LEMMA CloseKeeps ==
  ASSUME IInv, NEW r \in Requests, Close(r)
  PROVE  IInv'
<1> DEFINE n == reply[r].status
<1>1. TypeOK /\ PoolInv /\ Good(r) /\ AnswersAreCounted
  BY DEF IInv
<1>2. /\ stage[r] = "close" /\ Release(r) /\ GoTo(r, "answered", queue)
      /\ UNCHANGED <<call, up, outages, schema, migrations, reply, charged, stored, blame>>
      /\ counted' = [s \in Statuses |->
                       counted[s] + IF s \in StatusCounted(reply[r]) THEN 1 ELSE 0]
      /\ answer' = [answer EXCEPT ![r] = AnswerTo(reply[r])]
  BY DEF Close, CloseSession, databaseVars, historyVars
<1>3. PoolStep(r) /\ conn'[r] = "none"
  BY <1>1, <1>2, Released
<1>4. "answered" \in Stages /\ queue \in Seq(Requests)
  BY <1>1 DEF Stages, OnLoop, TypeOK
<1>5. /\ stage' \in [Requests -> Stages] /\ queue' \in Seq(Requests)
      /\ stage'[r] = "answered" /\ \A p \in Requests \ {r} : stage'[p] = stage[p]
  BY <1>1, <1>2, <1>4, GoToTypes
<1>6. reply[r] \in Replies /\ n \in Statuses
  BY <1>1 DEF TypeOK, Replies
<1>7. AnswerTo(reply[r]) \in Answers /\ AnswerTo(reply[r]).status = n
  BY <1>6 DEF AnswerTo, Answers, Replies, Headers
<1>8. /\ answer' \in [Requests -> Answers] /\ answer'[r].status = n
      /\ \A p \in Requests \ {r} : answer'[p] = answer[p]
  BY <1>1, <1>2, <1>7 DEF TypeOK
<1>9. StatusCounted(reply[r]) = {n}
  BY <1>1 DEF StatusCounted, Good, Told
<1>10. /\ counted' \in [Statuses -> Nat]
       /\ \A s \in Statuses : counted'[s] = IF s = n THEN counted[s] + 1 ELSE counted[s]
  BY <1>1, <1>2, <1>9 DEF TypeOK
<1>11. TypeOK' /\ Others(r)
  BY <1>1, <1>2, <1>3, <1>5, <1>8, <1>10 DEF TypeOK, Stages, Others, PoolStep
<1>12. AnswersAreCounted'
  <2> DEFINE Got(s) == {p \in Requests : stage[p] = "answered" /\ answer[p].status = s}
             Gets(s) == {p \in Requests : stage'[p] = "answered" /\ answer'[p].status = s}
  <2>1. \A s \in Statuses : Gets(s) = IF s = n THEN Got(s) \cup {r} ELSE Got(s)
    BY <1>2, <1>5, <1>8
  <2>2. \A s \in Statuses : IsFiniteSet(Got(s)) /\ r \notin Got(s)
    <3> TAKE s \in Statuses
    <3>1. Got(s) \subseteq Requests
      OBVIOUS
    <3> QED
      BY <1>2, <3>1, FS_Subset, ServiceAssumption
  <2>3. \A s \in Statuses :
          Cardinality(Gets(s)) = IF s = n THEN Cardinality(Got(s)) + 1 ELSE Cardinality(Got(s))
    BY <2>1, <2>2, FS_AddElement
  <2>4. \A s \in Statuses : counted[s] = Cardinality(Got(s))
    BY <1>1 DEF AnswersAreCounted
  <2>5. \A s \in Statuses : counted'[s] = Cardinality(Gets(s))
    BY <1>10, <2>3, <2>4
  <2> QED
    BY <2>5 DEF AnswersAreCounted
<1>13. Good(r)'
  <2> USE DEF RouteOf, Admitted, Paid, Known, Granted, InThread
  <2>1. Gates(r)'
    BY <1>1, <1>2, <1>5 DEF Good, Gates
  <2>2. Commits(r)' /\ Holds(r)'
    BY <1>1, <1>2, <1>3, <1>5 DEF Good, Commits, Holds
  <2>3. Told(r)'
    BY <1>1, <1>2, <1>3, <1>5, <1>8 DEF Good, Told, Over, InFlight,
       Raising, Unfit, Unready
  <2> QED
    BY <2>1, <2>2, <2>3 DEF Good
<1>14. \A p \in Requests \ {r} : Good(p)'
  BY <1>2, <1>11, OthersKeep DEF IInv
<1>15. PoolInv'
  <2>1. stage'[r] \notin InThread
    BY <1>5 DEF InThread
  <2> QED
    BY <1>1, <1>3, <1>5, <2>1, ThreadsSuffice DEF PoolInv, PoolStep
<1> QED
  BY <1>11, <1>12, <1>13, <1>14, <1>15 DEF IInv

(* Who holds a connection when PostgreSQL stops is under way, and so has   *)
(* something to blame.                                                     *)
LEMMA StopKeeps ==
  ASSUME IInv, Stop
  PROVE  IInv'
<1>1. TypeOK /\ PoolInv /\ AnswersAreCounted /\ \A p \in Requests : Good(p)
  BY DEF IInv
<1>2. /\ up' = FALSE /\ outages' = outages + 1 /\ stale' = stale + fresh /\ fresh' = 0
      /\ conn' = [p \in Requests |-> IF conn[p] = "live" THEN "dead" ELSE conn[p]]
      /\ blame' = [p \in Requests |->
                     IF InFlight(p) THEN blame[p] \cup {"database"} ELSE blame[p]]
      /\ UNCHANGED <<call, stage, queue, schema, migrations, reply, answer, counted, charged,
                     stored>>
  BY DEF Stop, answerVars
<1>3. fresh \in Nat /\ stale \in Nat /\ PoolSize \in Nat /\ fresh + stale <= PoolSize
  BY <1>1, ServiceAssumption DEF TypeOK, PoolInv
<1>4. fresh' \in 0..PoolSize /\ stale' \in 0..PoolSize
      /\ fresh' + stale' = fresh + stale
  BY <1>2, <1>3
<1>5. /\ conn' \in [Requests -> {"none", "live", "dead"}]
      /\ blame' \in [Requests -> SUBSET Causes]
      /\ \A p \in Requests : conn'[p] = "none" <=> conn[p] = "none"
  BY <1>1, <1>2 DEF TypeOK, Causes
<1>6. TypeOK'
  <2>1. outages \in Nat /\ outages' = outages + 1
    BY <1>1, <1>2 DEF TypeOK
  <2>2. outages' \in Nat
    BY <2>1
  <2>3. up' \in BOOLEAN
    BY <1>2
  <2> QED
    BY <1>1, <1>2, <1>4, <1>5, <2>2, <2>3 DEF TypeOK
<1>7. PoolInv'
  <2>1. InUse' = InUse /\ Busy' = Busy
    BY <1>2, <1>5 DEF InUse, Busy
  <2>2. Cardinality(InUse') = Cardinality(InUse) /\ Cardinality(Busy') = Cardinality(Busy)
    BY <2>1
  <2>3. Cardinality(InUse') + fresh' + stale' <= Capacity
    <3>1. Cardinality(InUse) + fresh + stale = Cardinality(InUse) + fresh' + stale'
      BY <1>1, <1>2, <1>3, InUseIsFinite
    <3> QED
      BY <1>1, <2>2, <3>1 DEF PoolInv
  <2> QED
    BY <1>1, <1>3, <1>4, <2>2, <2>3 DEF PoolInv
<1>8. AnswersAreCounted'
  BY <1>1, <1>2 DEF AnswersAreCounted
<1>9. ASSUME NEW p \in Requests
      PROVE  Good(p)'
  <2> USE DEF RouteOf, Admitted, Paid, Known, Granted, InThread
  <2>1. Good(p) /\ (conn'[p] = "none" <=> conn[p] = "none")
        /\ call'[p] = call[p] /\ stage'[p] = stage[p] /\ reply'[p] = reply[p]
        /\ answer'[p] = answer[p] /\ charged'[p] = charged[p] /\ stored'[p] = stored[p]
    BY <1>1, <1>2, <1>5
  <2>2. Gates(p)'
    BY <2>1 DEF Good, Gates
  <2>3. Commits(p)' /\ Holds(p)'
    BY <2>1 DEF Good, Commits, Holds
  <2>4. blame[p] \subseteq blame'[p] /\ (InFlight(p) => blame'[p] # {})
    BY <1>2
  <2>5. conn[p] # "none" => InFlight(p)
    BY <2>1 DEF Good, Holds, InFlight
  <2>6. Told(p)'
    BY <2>1, <2>4, <2>5 DEF Good, Told, Over, InFlight,
       Raising, Unfit, Unready
  <2> QED
    BY <2>2, <2>3, <2>6 DEF Good
<1> QED
  BY <1>6, <1>7, <1>8, <1>9 DEF IInv

LEMMA StartKeeps ==
  ASSUME IInv, Start
  PROVE  IInv'
<1>1. up' = TRUE /\ UNCHANGED <<call, stage, queue, conn, fresh, stale, outages, schema,
                                migrations, reply, answer, counted, charged, stored, blame>>
  BY DEF Start, poolVars, answerVars, historyVars
<1>2. TypeOK'
  BY <1>1 DEF IInv, TypeOK
<1>3. PoolInv' /\ AnswersAreCounted'
  BY <1>1 DEF IInv, PoolInv, InUse, Busy, AnswersAreCounted
<1>4. ASSUME NEW p \in Requests
      PROVE  Good(p)'
  <2> USE DEF RouteOf, Admitted, Paid, Known, Granted, InThread
  <2>1. Good(p)
    BY DEF IInv
  <2>2. Gates(p)'
    BY <1>1, <2>1 DEF Good, Gates
  <2>3. Commits(p)' /\ Holds(p)'
    BY <1>1, <2>1 DEF Good, Commits, Holds
  <2>4. Told(p)'
    BY <1>1, <2>1 DEF Good, Told, Over, InFlight,
       Raising, Unfit, Unready
  <2> QED
    BY <2>2, <2>3, <2>4 DEF Good
<1> QED
  BY <1>2, <1>3, <1>4 DEF IInv

(* Who is under way when the schema turns into another one has something   *)
(* to blame.                                                               *)
LEMMA MigrateKeeps ==
  ASSUME IInv, Migrate
  PROVE  IInv'
<1>1. TypeOK /\ PoolInv /\ AnswersAreCounted /\ \A p \in Requests : Good(p)
  BY DEF IInv
<1>2. /\ schema' \in Schemas /\ migrations' = migrations + 1
      /\ blame' = [p \in Requests |->
                     IF InFlight(p) /\ Unfit' THEN blame[p] \cup {"schema"} ELSE blame[p]]
      /\ UNCHANGED <<call, stage, queue, conn, fresh, stale, up, outages, reply,
                     answer, counted, charged, stored>>
  BY DEF Migrate, poolVars, answerVars
<1>3. /\ blame' \in [Requests -> SUBSET Causes]
      /\ \A p \in Requests : /\ blame[p] \subseteq blame'[p]
                             /\ InFlight(p) /\ Unfit' => blame'[p] # {}
  BY <1>1, <1>2 DEF TypeOK, Causes
<1>4. TypeOK'
  <2>1. migrations' \in Nat
    BY <1>1, <1>2 DEF TypeOK
  <2> QED
    BY <1>1, <1>2, <1>3, <2>1 DEF TypeOK
<1>5. PoolInv' /\ AnswersAreCounted'
  BY <1>1, <1>2 DEF PoolInv, InUse, Busy, AnswersAreCounted
<1>6. ASSUME NEW p \in Requests
      PROVE  Good(p)'
  <2> USE DEF RouteOf, Admitted, Paid, Known, Granted, InThread
  <2>1. /\ Good(p) /\ blame[p] \subseteq blame'[p]
        /\ InFlight(p)' = InFlight(p) /\ Raising(p)' = Raising(p)
    BY <1>1, <1>2, <1>3 DEF InFlight, Raising
  <2>2. Gates(p)'
    BY <1>2, <2>1 DEF Good, Gates
  <2>3. Commits(p)' /\ Holds(p)'
    BY <1>2, <2>1 DEF Good, Commits, Holds
  <2>4. Told(p)'
    BY <1>2, <1>3, <2>1 DEF Good, Told, Over
  <2> QED
    BY <2>2, <2>3, <2>4 DEF Good
<1> QED
  BY <1>4, <1>5, <1>6 DEF IInv

-----------------------------------------------------------------------------
(* The invariant.                                                          *)

LEMMA InitIInv == Init => IInv
<1> SUFFICES ASSUME Init PROVE IInv
  OBVIOUS
<1>1. TypeOK
  <2>1. [status |-> 200, headers |-> {}, traceId |-> FALSE] \in Answers
    BY DEF Answers, Statuses, Headers
  <2>2. queue \in Seq(Requests) /\ fresh \in 0..PoolSize /\ stale \in 0..PoolSize
    BY ServiceAssumption DEF Init
  <2> QED
    BY <2>1, <2>2, ReplyTypes DEF Init, TypeOK, OnLoop, Schemas
<1>2. PoolInv
  <2>1. InUse = {} /\ Busy = {}
    BY DEF Init, InUse, Busy, InThread
  <2> QED
    BY <2>1, FS_EmptySet, ServiceAssumption DEF Init, PoolInv, Capacity
<1>3. AnswersAreCounted
  <2>1. \A s \in Statuses :
          {r \in Requests : stage[r] = "answered" /\ answer[r].status = s} = {}
    BY DEF Init
  <2> QED
    BY <2>1, FS_EmptySet DEF Init, AnswersAreCounted
<1>4. ASSUME NEW r \in Requests
      PROVE  Good(r)
  <2>1. Gates(r) /\ Commits(r) /\ Holds(r)
    BY <1>4 DEF Init, Gates, Commits, Holds, InThread
  <2>2. Told(r)
    BY <1>4 DEF Init, Told, Over, InFlight, Returned
  <2> QED
    BY <2>1, <2>2 DEF Good
<1> QED
  BY <1>1, <1>2, <1>3, <1>4 DEF IInv

LEMMA StepIInv == IInv /\ [Next]_vars => IInv'
<1> SUFFICES ASSUME IInv, [Next]_vars PROVE IInv'
  OBVIOUS
<1>1. ASSUME NEW r \in Requests, Arrive(r) PROVE IInv'
  BY <1>1, ArriveKeeps
<1>2. ASSUME NEW r \in Requests, Admission(r) PROVE IInv'
  BY <1>2, CheckScopesKeeps, DenyKeeps, RedisFailsKeeps, OpenSessionKeeps, ChargeKeeps
     DEF Admission
<1>3. ASSUME NEW r \in Requests, Handler(r) PROVE IInv'
  BY <1>3, HandleKeeps, ConnectKeeps, ConnectFailsKeeps, PoolTimeoutKeeps,
     ConnectionLostKeeps, SchemaFailsKeeps, DeadlockKeeps, PingedKeeps, ReadKeeps,
     RefuseKeeps, WriteKeeps, ConfirmKeeps, RenderKeeps DEF Handler
<1>4. ASSUME NEW r \in Requests, Close(r) PROVE IInv'
  BY <1>4, CloseKeeps
<1>5. CASE Stop
  BY <1>5, StopKeeps
<1>6. CASE Start
  BY <1>6, StartKeeps
<1>7. CASE Migrate
  BY <1>7, MigrateKeeps
<1>8. CASE UNCHANGED vars
  <2>1. UNCHANGED <<call, stage, queue, conn, fresh, stale, up, outages, schema,
                    migrations, reply, answer, counted, charged, stored, blame>>
    BY <1>8 DEF vars, poolVars, databaseVars, answerVars, historyVars
  <2>2. TypeOK'
    BY <2>1 DEF IInv, TypeOK
  <2>3. PoolInv' /\ AnswersAreCounted'
    BY <2>1 DEF IInv, PoolInv, InUse, Busy, AnswersAreCounted
  <2>4. ASSUME NEW r \in Requests
        PROVE  Good(r)'
    <3> USE DEF RouteOf, Admitted, Paid, Known, Granted
    <3>1. Good(r)
      BY DEF IInv
    <3>2. Gates(r)'
      BY <2>1, <3>1 DEF Good, Gates
    <3>3. Commits(r)' /\ Holds(r)'
      BY <2>1, <3>1 DEF Good, Commits, Holds
    <3>4. Told(r)'
      BY <2>1, <3>1 DEF Good, Told, Over, InFlight, Raising, Unfit, Unready
    <3> QED
      BY <3>2, <3>3, <3>4 DEF Good
  <2> QED
    BY <2>2, <2>3, <2>4 DEF IInv
<1> QED
  BY <1>1, <1>2, <1>3, <1>4, <1>5, <1>6, <1>7, <1>8 DEF Next, Step

(* Whatever fails and whoever waits, the pool, the gates and the answers   *)
(* stay in the order of IInv.                                              *)
THEOREM InductiveInvariant == Spec => []IInv
<1>1. Init => IInv
  BY InitIInv
<1>2. IInv /\ [Next]_vars => IInv'
  BY StepIInv
<1> QED
  BY <1>1, <1>2, PTL DEF Spec

-----------------------------------------------------------------------------
(* What follows from it.                                                   *)

(* Every variable keeps its type, the idle connections within pool_size.   *)
THEOREM TypeInvariant == Spec => []TypeOK
<1>1. IInv => TypeOK
  BY DEF IInv
<1> QED
  BY <1>1, InductiveInvariant, PTL

(* No path through the service, failed, refused or cut off by an outage,   *)
(* leaks a connection, and the pool never outgrows its limits.             *)
THEOREM NoConnectionLeaks == Spec => []ConnectionsComeBack
<1>1. IInv => ConnectionsComeBack
  BY DEF IInv, PoolInv, Good, Holds, ConnectionsComeBack, InUse, InFlight
<1> QED
  BY <1>1, InductiveInvariant, PTL

(* For any number of threads and connections: when a request runs into the *)
(* timeout of the pool, more sessions than the pool has connections beyond *)
(* the threads keep theirs without a thread.                               *)
THEOREM ExhaustionNeedsReaders == Spec => []TimeoutsNeedReaders
<1>1. ASSUME IInv, Full, NEW r \in Requests, stage[r] \in Waiting
      PROVE  Cardinality(Idling) > Capacity - Threads
  <2>1. TypeOK /\ PoolInv /\ \A p \in Requests : Good(p)
    BY <1>1 DEF IInv
  <2>2. r \in Busy /\ conn[r] = "none"
    BY <1>1, <2>1 DEF Busy, Waiting, InThread, Good, Holds
  <2>3. InUse \subseteq Idling \cup (Busy \ {r})
    <3> SUFFICES ASSUME NEW p \in InUse PROVE p \in Idling \cup (Busy \ {r})
      OBVIOUS
    <3>1. p \in Requests /\ conn[p] # "none" /\ p # r
      BY <2>2 DEF InUse
    <3> QED
      BY <2>1, <3>1 DEF Good, Holds, Idling, Busy, InUse, InThread
  <2>4. /\ IsFiniteSet(Idling) /\ IsFiniteSet(Busy)
        /\ Cardinality(Idling) \in Nat /\ Cardinality(Busy) \in Nat
    <3>1. Idling \subseteq Requests /\ Busy \subseteq Requests
      BY DEF Idling, InUse, Busy
    <3> QED
      BY <3>1, FS_Subset, FS_CardinalityType, ServiceAssumption
  <2>5. IsFiniteSet(Busy \ {r}) /\ Cardinality(Busy \ {r}) = Cardinality(Busy) - 1
    BY <2>2, <2>4, FS_RemoveElement
  <2>6. /\ IsFiniteSet(Idling \cup (Busy \ {r}))
        /\ Cardinality(Idling \cup (Busy \ {r})) <= Cardinality(Idling) + Cardinality(Busy) - 1
    <3> DEFINE B == Busy \ {r}
    <3>1. IsFiniteSet(Idling \cap B) /\ Cardinality(Idling \cap B) \in Nat
      BY <2>4, FS_Intersection, FS_CardinalityType
    <3>2. /\ IsFiniteSet(Idling \cup B)
          /\ Cardinality(Idling \cup B)
               = Cardinality(Idling) + Cardinality(B) - Cardinality(Idling \cap B)
      BY <2>4, <2>5, FS_Union
    <3> HIDE DEF B
    <3>3. Cardinality(B) = Cardinality(Busy) - 1
      BY <2>5 DEF B
    <3>4. Cardinality(Idling \cup B) <= Cardinality(Idling) + Cardinality(Busy) - 1
      BY <2>4, <3>1, <3>2, <3>3
    <3> QED
      BY <3>2, <3>4 DEF B
  <2>7. Cardinality(InUse) <= Cardinality(Idling \cup (Busy \ {r}))
        /\ Cardinality(Idling \cup (Busy \ {r})) \in Nat
    BY <2>3, <2>6, FS_Subset, FS_CardinalityType
  <2>8. Cardinality(InUse) >= Capacity /\ Cardinality(Busy) <= Threads
    BY <1>1, <2>1 DEF Full, PoolInv
  <2>9. Threads \in Nat /\ Capacity \in Nat /\ Cardinality(InUse) \in Nat
    BY <2>1, InUseIsFinite, ServiceAssumption
  <2> QED
    BY <2>4, <2>6, <2>7, <2>8, <2>9
<1>2. IInv => TimeoutsNeedReaders
  BY <1>1 DEF TimeoutsNeedReaders
<1> QED
  BY <1>2, InductiveInvariant, PTL

(* A 500 of a call whose own statement does not raise, and a 503 of        *)
(* /readyz, begins within the call: it is never left over from an outage   *)
(* that had ended, or from a schema that was repaired, before it.          *)
THEOREM FailuresHaveOwnCauses == Spec => []FailureHasOwnCause
<1>1. IInv => FailureHasOwnCause
  BY DEF IInv, Good, Told, Over, FailureHasOwnCause
<1> QED
  BY <1>1, InductiveInvariant, PTL

(* Whatever the table of API keys grants: nothing is stored, charged or    *)
(* borrowed for a call that did not pass the gates of its route.           *)
THEOREM GatesHold == Spec => []OnlyAdmittedTouchData
<1>1. IInv => OnlyAdmittedTouchData
  BY DEF IInv, Good, Gates, Commits, Holds, OnlyAdmittedTouchData
<1> QED
  BY <1>1, InductiveInvariant, PTL

(* A success is never reported for a transaction that was not committed,   *)
(* nor a refusal for one that was.                                         *)
THEOREM AnswersAreTrue == Spec => []AnswerAgreesWithData
<1>1. IInv => AnswerAgreesWithData
  BY DEF IInv, Good, Told, Over, AnswerAgreesWithData
<1> QED
  BY <1>1, InductiveInvariant, PTL

(* http_requests_total has exactly one count for each answer, under its    *)
(* status, unhandled exceptions included.                                  *)
THEOREM CountersAgree == Spec => []AnswersAreCounted
<1>1. IInv => AnswersAreCounted
  BY DEF IInv
<1> QED
  BY <1>1, InductiveInvariant, PTL

=============================================================================
