-------------------------------- MODULE Service --------------------------------
(***************************************************************************)
(* One worker process of the service: what a request meets between the     *)
(* socket and the functions of crud/.  Its coroutine runs on the event     *)
(* loop; every sync function of it (scope check, session, handler,         *)
(* validation of the response) is a job for a limited number of threads,   *)
(* taken in FIFO order; the handler borrows a connection from a limited    *)
(* pool, and waits for it in its thread.                                   *)
(*                                                                         *)
(* The threads hold while they wait, and so do the connections: a session  *)
(* that has only read keeps its connection until get_db closes it, after   *)
(* the response has been validated in a thread.  PostgreSQL may go down    *)
(* and come back, runs of alembic may change the schema, Redis may fail a  *)
(* call.                                                                   *)
(*                                                                         *)
(* What the statements of a handler do is in Bets, BulkUpsert and Paging;  *)
(* what the buckets hold is in TokenBucket; the runs are in Migrations.    *)
(***************************************************************************)
EXTENDS Integers, Sequences, FiniteSets

CONSTANTS
  Requests,          \* the calls of one history
  Calls,             \* Calls[r]: what r may ask: a route, the X-API-Key it sends,
                     \*   and what is wrong with its body or parameters
  NoKey,             \* no header
  ApiKeys,           \* the entries of API_KEYS that have a "=", in order
  RateLimitEnabled,  \* RATE_LIMIT_ENABLED
  Threads,           \* tokens of the thread limiter
  PoolSize,          \* pool_size
  MaxOverflow,       \* max_overflow
  ExpectedRev,       \* ALEMBIC_EXPECTED_REV, "none" if unset or not enforced
  MaxDisruptions     \* bound on the outages of PostgreSQL and the changes of the
                     \*   schema in one history, taken together

KindNames == {"list", "odds", "predictions", "bets", "readyz", "healthz", "boom"}
Scopes    == {"read", "odds:write", "predictions:write", "bets:write"}

VARIABLES
  call,      \* call[r]: what r asks, its key, and what is wrong with it
  stage,     \* stage[r]: where r is
  queue,     \* the jobs waiting for a thread
  conn,      \* conn[r]: the connection r holds, and whether it still works
  fresh,     \* idle connections of the pool
  stale,     \* idle connections that an outage has broken
  up,        \* PostgreSQL answers
  outages,
  schema,    \* the head revision, an older one, or tables or alembic_version missing
  migrations,
  reply,     \* reply[r]: what the route returned or raised
  answer,    \* answer[r]: what the client got
  counted,   \* counted[s]: http_requests_total of status s
  charged,   \* charged[r]: history, the buckets that gave r a token
  stored,    \* stored[r]: history, a transaction of r committed rows
  blame      \* blame[r]: history, what failed while r was under way

poolVars     == <<conn, fresh, stale>>
databaseVars == <<up, outages, schema, migrations>>
answerVars   == <<answer, counted>>
historyVars  == <<charged, stored, blame>>
vars == <<call, stage, queue, poolVars, databaseVars, reply, answerVars, historyVars>>

Queued    == {"scopes", "session", "handle", "render"}
OnLoop    == {"sent", "per_key", "global", "close", "answered"}
InThread  == {"ping", "pinging",     \* ping_db: waits for a connection, SELECT 1
              "connect", "work",     \* waits for a connection, statements
              "committed"}           \* COMMIT was executed, not yet confirmed
Waiting   == {"ping", "connect"}

Statuses == {200, 201, 400, 401, 403, 404, 409, 422, 429, 500, 503}
Headers  == {"Retry-After", "WWW-Authenticate", "X-Request-ID"}
Bodies   == {"fine",
             "malformed",    \* not JSON
             "invalid",      \* JSON or query parameters that fail validation
             "refused",      \* unknown reference, bad cursor, broken constraint
             "raising"}      \* raises what nobody catches: odds that repeat a key,
                             \*   mixed time zones, a number PostgreSQL cannot hold
Raised   == {"none", "http", "validation", "integrity", "exception"}

Schemas == {"head", "older", "missing"}
Causes  == {"database", "schema", "deadlock", "pool", "redis"}

Replies == [raised : Raised, status : Statuses, headers : SUBSET Headers]
Answers == [status : Statuses, headers : SUBSET Headers, traceId : BOOLEAN]
Returned(status) == [raised |-> "none", status |-> status, headers |-> {}]

-----------------------------------------------------------------------------
(* ROUTES AND KEYS                                                         *)

(* scopes: what require_scopes asks; limited: the two token buckets;       *)
(* session: get_db; writes: the handler commits; rendered: the result is   *)
(* validated against a response_model.                                     *)
Route(k) ==
  CASE k = "list"        -> [scopes |-> {"read"}, limited |-> FALSE, session |-> TRUE,
                             writes |-> FALSE, rendered |-> TRUE, status |-> 200]
    [] k = "odds"        -> [scopes |-> {"odds:write"}, limited |-> RateLimitEnabled,
                             session |-> TRUE, writes |-> TRUE, rendered |-> FALSE,
                             status |-> 200]
    [] k = "predictions" -> [scopes |-> {"predictions:write"}, limited |-> FALSE,
                             session |-> TRUE, writes |-> TRUE, rendered |-> FALSE,
                             status |-> 200]
    [] k = "bets"        -> [scopes |-> {"bets:write"}, limited |-> FALSE,
                             session |-> TRUE, writes |-> TRUE, rendered |-> TRUE,
                             status |-> 201]
    [] OTHER             -> [scopes |-> {}, limited |-> FALSE, session |-> FALSE,
                             writes |-> FALSE, rendered |-> TRUE, status |-> 200]

(* What can be wrong with a call: a GET has no body to parse, the probes   *)
(* take no parameters.                                                     *)
BodiesOf(k) ==
  CASE k = "list"         -> Bodies \ {"malformed"}
    [] Route(k).writes    -> Bodies
    [] OTHER              -> {"fine"}

ASSUME ServiceAssumption ==
  /\ IsFiniteSet(Requests)
  /\ \A r \in Requests : \A c \in Calls[r] :
       c.kind \in KindNames /\ c.body \in BodiesOf(c.kind)
  /\ RateLimitEnabled \in BOOLEAN
  /\ Threads \in Nat \ {0}
  /\ PoolSize \in Nat \ {0}
  /\ MaxOverflow \in Nat
  /\ ExpectedRev \in {"head", "older", "none"}
  /\ MaxDisruptions \in Nat

NoCall == [kind |-> "healthz", key |-> NoKey, body |-> "fine"]
RouteOf(r) == Route(call[r].kind)

(* Mutant: the limiters are listed before the scopes.                      *)
DependenciesScopesLast(k) ==
  CASE Route(k).scopes = {} -> <<"handle">>
    [] Route(k).limited     -> <<"per_key", "global", "scopes", "session", "handle">>
    [] OTHER                -> <<"scopes", "session", "handle">>

(* What is called before the handler, in this order: the dependencies that *)
(* the route lists, then those of its function.                            *)
Dependencies(k) ==
  CASE Route(k).scopes = {} -> <<"handle">>
    [] Route(k).limited     -> <<"scopes", "per_key", "global", "session", "handle">>
    [] OTHER                -> <<"scopes", "session", "handle">>

Following(k, dependency) ==
  LET i == CHOOSE i \in DOMAIN Dependencies(k) : Dependencies(k)[i] = dependency
  IN Dependencies(k)[i + 1]

(* _parse_api_keys: a key that is listed twice has the scopes of its last  *)
(* entry.                                                                  *)
Known(key) == \E i \in DOMAIN ApiKeys : ApiKeys[i].key = key
Granted(key) ==
  LET last == CHOOSE i \in DOMAIN ApiKeys :
                /\ ApiKeys[i].key = key
                /\ \A j \in DOMAIN ApiKeys : ApiKeys[j].key = key => j <= i
  IN ApiKeys[last].scopes

Init ==
  /\ call = [r \in Requests |-> NoCall]
  /\ stage = [r \in Requests |-> "sent"]
  /\ queue = << >>
  /\ conn = [r \in Requests |-> "none"]
  /\ fresh = 0 /\ stale = 0
  /\ up = TRUE /\ outages = 0
  /\ schema = "head" /\ migrations = 0
  /\ reply = [r \in Requests |-> Returned(200)]
  /\ answer = [r \in Requests |-> [status |-> 200, headers |-> {}, traceId |-> FALSE]]
  /\ counted = [s \in Statuses |-> 0]
  /\ charged = [r \in Requests |-> {}]
  /\ stored = [r \in Requests |-> FALSE]
  /\ blame = [r \in Requests |-> {}]

-----------------------------------------------------------------------------
(* THE DATABASE                                                            *)

(* /readyz: no view or no alembic_version, or a revision other than the    *)
(* expected one.                                                           *)
Unready == schema = "missing" \/ (ExpectedRev # "none" /\ schema # ExpectedRev)

(* The schema is not what this release was written for, or not announced.  *)
Unfit == schema # "head" \/ Unready

Ailments == (IF up THEN {} ELSE {"database"}) \cup (IF Unfit THEN {"schema"} ELSE {})

-----------------------------------------------------------------------------
(* THREADS                                                                 *)

Busy == {r \in Requests : stage[r] \in InThread}

(* r is first in the queue for job, and a thread is free.                  *)
Runs(r, job) ==
  /\ stage[r] = job
  /\ queue # << >> /\ Head(queue) = r
  /\ Cardinality(Busy) < Threads

(* r goes on to stage s; a job is put at the end of the queue q.           *)
GoTo(r, s, q) ==
  /\ stage' = [stage EXCEPT ![r] = s]
  /\ queue' = IF s \in Queued THEN Append(q, r) ELSE q

(* The route is left: by its result or by an exception, after which only   *)
(* the session is left to close.                                           *)
Leave(r, result, q) ==
  /\ GoTo(r, "close", q)
  /\ reply' = [reply EXCEPT ![r] = result]

HttpException(status, headers) ==
  [raised |-> "http", status |-> status, headers |-> headers]
ValidationError == [raised |-> "validation", status |-> 422, headers |-> {}]
Unhandled       == [raised |-> "exception", status |-> 500, headers |-> {}]

-----------------------------------------------------------------------------
(* THE POOL                                                                *)

InUse == {r \in Requests : conn[r] # "none"}
Capacity == PoolSize + MaxOverflow
Full == Cardinality(InUse) >= Capacity

(* Mutant: pool_pre_ping left out, idle connections are trusted.           *)
HandedOutUnpinged(isStale) == IF isStale THEN "dead" ELSE "live"

(* An idle connection is pinged, and replaced if that fails.               *)
HandedOut(isStale) == "live"

(* Another connection is opened only when none is idle.                    *)
Take(r) ==
  /\ up /\ ~Full
  /\ fresh' \in {fresh, fresh - 1} \cap Nat
  /\ stale' \in {stale, stale - 1} \cap Nat
  /\ (fresh - fresh') + (stale - stale') = IF fresh + stale = 0 THEN 0 ELSE 1
  /\ conn' = [conn EXCEPT ![r] = HandedOut(stale' # stale)]

(* Mutant: connections above pool_size are kept as well.                   *)
KeptBeyondSize(r) == conn[r] = "live"

(* A broken connection is discarded, and so is one above pool_size.        *)
Kept(r) == conn[r] = "live" /\ fresh + stale < PoolSize

Release(r) ==
  /\ conn' = [conn EXCEPT ![r] = "none"]
  /\ fresh' = IF Kept(r) THEN fresh + 1 ELSE fresh
  /\ UNCHANGED stale

-----------------------------------------------------------------------------
(* ADMISSION                                                               *)

(* The body is parsed before any dependency is called.                     *)
Arrive(r) ==
  /\ stage[r] = "sent"
  /\ \E c \in Calls[r] :
       /\ call' = [call EXCEPT ![r] = c]
       /\ blame' = [blame EXCEPT ![r] = Ailments]
       /\ IF c.body = "malformed"
          THEN Leave(r, ValidationError, queue)
          ELSE GoTo(r, Head(Dependencies(c.kind)), queue) /\ UNCHANGED reply
  /\ UNCHANGED <<poolVars, databaseVars, answerVars, charged, stored>>

(* require_scopes.                                                         *)
CheckScopes(r) ==
  /\ Runs(r, "scopes")
  /\ IF ~Known(call[r].key)
     THEN Leave(r, HttpException(401, {"WWW-Authenticate"}), Tail(queue))
     ELSE IF ~(RouteOf(r).scopes \subseteq Granted(call[r].key))
     THEN Leave(r, HttpException(403, {}), Tail(queue))
     ELSE GoTo(r, Following(call[r].kind, "scopes"), Tail(queue)) /\ UNCHANGED reply
  /\ UNCHANGED <<call, poolVars, databaseVars, answerVars, historyVars>>

(* The bucket of the key, then the global one; Redis may fail.             *)
Charge(r, bucket) ==
  /\ stage[r] = bucket
  /\ charged' = [charged EXCEPT ![r] = @ \cup {bucket}]
  /\ GoTo(r, Following(call[r].kind, bucket), queue)
  /\ UNCHANGED <<call, poolVars, databaseVars, reply, answerVars, stored, blame>>

Deny(r) ==
  /\ stage[r] \in {"per_key", "global"}
  /\ Leave(r, HttpException(429, {"Retry-After"}), queue)
  /\ UNCHANGED <<call, poolVars, databaseVars, answerVars, historyVars>>

RedisFails(r) ==
  /\ stage[r] \in {"per_key", "global"}
  /\ Leave(r, Unhandled, queue)
  /\ blame' = [blame EXCEPT ![r] = @ \cup {"redis"}]
  /\ UNCHANGED <<call, poolVars, databaseVars, answerVars, charged, stored>>

(* get_db, which opens no connection yet; the parameters and the body are  *)
(* validated after all dependencies have been called.                      *)
OpenSession(r) ==
  /\ Runs(r, "session")
  /\ IF call[r].body = "invalid"
     THEN Leave(r, ValidationError, Tail(queue))
     ELSE GoTo(r, "handle", Tail(queue)) /\ UNCHANGED reply
  /\ UNCHANGED <<call, poolVars, databaseVars, answerVars, historyVars>>

-----------------------------------------------------------------------------
(* HANDLERS                                                                *)

(* The handler gets a thread.  healthz and _boom need nothing else.        *)
Handle(r) ==
  /\ Runs(r, "handle")
  /\ IF call[r].kind = "boom"
     THEN Leave(r, Unhandled, Tail(queue))
     ELSE /\ GoTo(r, CASE call[r].kind = "healthz" -> "render"
                       [] call[r].kind = "readyz"  -> "ping"
                       [] OTHER                    -> "connect", Tail(queue))
          /\ UNCHANGED reply
  /\ UNCHANGED <<call, poolVars, databaseVars, answerVars, historyVars>>

(* The first statement checks a connection out.                            *)
Connect(r) ==
  /\ stage[r] \in Waiting
  /\ Take(r)
  /\ GoTo(r, IF stage[r] = "ping" THEN "pinging" ELSE "work", queue)
  /\ UNCHANGED <<call, databaseVars, reply, answerVars, historyVars>>

(* An exception of the driver or the pool.  readyz answers 503 to every    *)
(* exception, its with-statement has returned the connection by then; out  *)
(* of the other handlers it travels with the session still open.           *)
Fail(r, causes) ==
  /\ blame' = [blame EXCEPT ![r] = @ \cup causes]
  /\ IF call[r].kind = "readyz"
     THEN Leave(r, Returned(503), queue) /\ Release(r)
     ELSE Leave(r, Unhandled, queue) /\ UNCHANGED poolVars
  /\ UNCHANGED <<call, databaseVars, answerVars, charged, stored>>

ConnectFails(r) == stage[r] \in Waiting /\ ~up /\ ~Full /\ Fail(r, {})

(* Mutant: the wait for a connection has no end.                           *)
GivesUpNever == FALSE

(* pool_timeout, which db.py leaves at its default.                        *)
GivesUp == Full

PoolTimeout(r) == stage[r] \in Waiting /\ GivesUp /\ Fail(r, {"pool"})

ConnectionLost(r) ==
  stage[r] \in {"pinging", "work", "committed"} /\ conn[r] = "dead" /\ Fail(r, {})

Pinged(r) ==
  /\ stage[r] = "pinging" /\ conn[r] = "live"
  /\ GoTo(r, "connect", queue)
  /\ Release(r)
  /\ UNCHANGED <<call, databaseVars, reply, answerVars, historyVars>>

(* Other revisions lack what a statement names, or do not: an index, a     *)
(* table.  readyz compares.                                                *)
SchemaFails(r) ==
  /\ stage[r] = "work" /\ conn[r] = "live"
  /\ IF call[r].kind = "readyz" THEN Unready ELSE schema # "head"
  /\ Fail(r, {})

(* A writer may be the victim that PostgreSQL chooses, whoever the others  *)
(* in the circle are: batches of any process, a run of alembic.            *)
Deadlock(r) ==
  /\ stage[r] = "work" /\ conn[r] = "live" /\ RouteOf(r).writes
  /\ Fail(r, {"deadlock"})

(* The page, or the row of core.readiness and the revision; the connection *)
(* of a listing stays with its session.                                    *)
Read(r) ==
  /\ stage[r] = "work" /\ conn[r] = "live" /\ ~RouteOf(r).writes
  /\ call[r].body = "fine"
  /\ call[r].kind = "readyz" => ~Unready
  /\ GoTo(r, "render", queue)
  /\ IF call[r].kind = "readyz" THEN Release(r) ELSE UNCHANGED poolVars
  /\ UNCHANGED <<call, databaseVars, reply, answerVars, historyVars>>

Violation(status) == [raised |-> "integrity", status |-> status, headers |-> {}]

(* A bad cursor is found after COUNT, unknown references by the SELECTs    *)
(* before the upsert or by the INSERT of a bet, a broken constraint by     *)
(* INSERT; what a statement or its preparation raises besides is not       *)
(* caught.                                                                 *)
Refusals(c) ==
  IF c.body = "raising" THEN {Unhandled}
  ELSE IF c.kind = "list" THEN {HttpException(400, {})}
  ELSE IF c.kind = "bets" THEN {Violation(s) : s \in {400, 404, 409}}
  ELSE {HttpException(404, {}), Violation(400)}

Refuse(r) ==
  /\ stage[r] = "work" /\ conn[r] = "live"
  /\ call[r].body \in {"refused", "raising"}
  /\ \E refusal \in Refusals(call[r]) : Leave(r, refusal, queue)
  /\ UNCHANGED <<call, poolVars, databaseVars, answerVars, historyVars>>

(* Mutant: the commit is left to the session, which rolls back.            *)
CommittedAtClose == FALSE

(* Every function of crud/ that writes ends with db.commit().              *)
Committed == TRUE

Write(r) ==
  /\ stage[r] = "work" /\ conn[r] = "live" /\ RouteOf(r).writes
  /\ call[r].body = "fine"
  /\ GoTo(r, "committed", queue)
  /\ stored' = [stored EXCEPT ![r] = Committed]
  /\ UNCHANGED <<call, poolVars, databaseVars, reply, answerVars, charged, blame>>

(* Mutant: a SELECT after the commit, as in create_bet, takes another one. *)
EndAndReadAgain(r) == UNCHANGED poolVars

(* The session has no connection after its commit.                         *)
EndTransaction(r) == Release(r)

Confirm(r) ==
  /\ stage[r] = "committed" /\ conn[r] = "live"
  /\ EndTransaction(r)
  /\ GoTo(r, IF RouteOf(r).rendered THEN "render" ELSE "close", queue)
  /\ reply' = [reply EXCEPT ![r] = Returned(RouteOf(r).status)]
  /\ UNCHANGED <<call, databaseVars, answerVars, historyVars>>

(* The result is validated against the response_model.                     *)
Render(r) ==
  /\ Runs(r, "render")
  /\ Leave(r, reply[r], Tail(queue))
  /\ UNCHANGED <<call, poolVars, databaseVars, answerVars, historyVars>>

-----------------------------------------------------------------------------
(* THE WAY OUT                                                             *)

(* The handlers of errors.py build their answers anew: the status and a    *)
(* traceId.  The one for unhandled exceptions is outside all middlewares,  *)
(* the request id is added inside.                                         *)
AnswerTo(result) ==
  [status  |-> result.status,
   headers |-> (IF result.raised = "none" THEN result.headers ELSE {})
               \cup (IF result.raised = "exception" THEN {} ELSE {"X-Request-ID"}),
   traceId |-> result.raised # "none"]

(* Mutant: counted after call_next, not in a finally.                      *)
StatusCountedOnReturn(result) ==
  IF result.raised = "exception" THEN {} ELSE {result.status}

(* MetricsMiddleware: an exception passing through counts as 500.          *)
StatusCounted(result) ==
  {IF result.raised = "exception" THEN 500 ELSE result.status}

(* Mutant: no finally around the yield of get_db.                          *)
CloseSessionOnReturn(r) ==
  IF reply[r].raised = "none" THEN Release(r) ELSE UNCHANGED poolVars

CloseSession(r) == Release(r)

(* get_db closes the session, by a thread of its own that is always free;  *)
(* only then do the error handlers and the middlewares see the outcome.    *)
Close(r) ==
  /\ stage[r] = "close"
  /\ CloseSession(r)
  /\ counted' = [s \in Statuses |->
                   counted[s] + IF s \in StatusCounted(reply[r]) THEN 1 ELSE 0]
  /\ answer' = [answer EXCEPT ![r] = AnswerTo(reply[r])]
  /\ GoTo(r, "answered", queue)
  /\ UNCHANGED <<call, databaseVars, reply, historyVars>>

-----------------------------------------------------------------------------
(* OUTAGES AND MIGRATIONS                                                  *)

InFlight(r) == stage[r] \notin {"sent", "answered"}

(* Every connection breaks; who holds one finds out when it next uses it.  *)
Stop ==
  /\ up /\ outages + migrations < MaxDisruptions
  /\ up' = FALSE
  /\ outages' = outages + 1
  /\ conn' = [r \in Requests |-> IF conn[r] = "live" THEN "dead" ELSE conn[r]]
  /\ stale' = stale + fresh
  /\ fresh' = 0
  /\ blame' = [r \in Requests |->
                 IF InFlight(r) THEN blame[r] \cup {"database"} ELSE blame[r]]
  /\ UNCHANGED <<call, stage, queue, schema, migrations, reply, answerVars, charged,
                 stored>>

Start ==
  /\ ~up
  /\ up' = TRUE
  /\ UNCHANGED <<call, stage, queue, poolVars, outages, schema, migrations, reply,
                 answerVars, historyVars>>

(* A run of alembic commits, or somebody changes the schema by hand.       *)
Migrate ==
  /\ up /\ outages + migrations < MaxDisruptions
  /\ schema' \in Schemas \ {schema}
  /\ migrations' = migrations + 1
  /\ blame' = [r \in Requests |->
                 IF InFlight(r) /\ Unfit' THEN blame[r] \cup {"schema"} ELSE blame[r]]
  /\ UNCHANGED <<call, stage, queue, poolVars, up, outages, reply, answerVars, charged,
                 stored>>

-----------------------------------------------------------------------------
Admission(r) ==
  \/ CheckScopes(r) \/ Deny(r) \/ RedisFails(r) \/ OpenSession(r)
  \/ \E bucket \in {"per_key", "global"} : Charge(r, bucket)

Handler(r) ==
  \/ Handle(r) \/ Connect(r) \/ ConnectFails(r) \/ PoolTimeout(r) \/ ConnectionLost(r)
  \/ SchemaFails(r) \/ Deadlock(r) \/ Pinged(r) \/ Read(r) \/ Refuse(r) \/ Write(r)
  \/ Confirm(r) \/ Render(r)

Step(r) == Admission(r) \/ Handler(r) \/ Close(r)

Next == (\E r \in Requests : Arrive(r) \/ Step(r)) \/ Stop \/ Start \/ Migrate

(* The loop and the threads run what can run, Redis answers or fails, the  *)
(* pool gives up after pool_timeout.  Which of them goes first does not    *)
(* matter, since no call takes steps for ever.  Nobody has to call, and    *)
(* PostgreSQL need not come back.                                          *)
Fairness == WF_vars(\E r \in Requests : Step(r))

Spec == Init /\ [][Next]_vars /\ Fairness

-----------------------------------------------------------------------------
(* PROPERTIES                                                              *)

TypeOK ==
  /\ DOMAIN call = Requests /\ \A r \in Requests : call[r] \in Calls[r] \cup {NoCall}
  /\ stage \in [Requests -> Queued \cup OnLoop \cup InThread]
  /\ queue \in Seq(Requests)
  /\ conn \in [Requests -> {"none", "live", "dead"}]
  /\ fresh \in 0..PoolSize /\ stale \in 0..PoolSize
  /\ up \in BOOLEAN /\ outages \in Nat
  /\ schema \in Schemas /\ migrations \in Nat
  /\ reply \in [Requests -> Replies]
  /\ answer \in [Requests -> Answers]
  /\ counted \in [Statuses -> Nat]
  /\ charged \in [Requests -> SUBSET {"per_key", "global"}]
  /\ stored \in [Requests -> BOOLEAN]
  /\ blame \in [Requests -> SUBSET Causes]

(* The pool neither leaks nor grows: there are never more connections than *)
(* pool_size and max_overflow allow, and whatever happened to a request,   *)
(* it has returned its connection when it is answered (db.py, get_db).     *)
ConnectionsComeBack ==
  /\ Cardinality(InUse) + fresh + stale <= Capacity
  /\ \A r \in InUse : InFlight(r)

(* A request finds the pool exhausted only while finished readers (or      *)
(* requests just being closed) keep connections without a thread: more of  *)
(* them than the pool has connections beyond the threads.  A writer, which *)
(* has committed, is never among those that queue for a thread (db.py 5,   *)
(* crud/bets.py, the commit before the answer).                            *)
Idling == {r \in InUse : \/ stage[r] = "render" /\ call[r].kind = "list"
                      \/ stage[r] = "close"}
TimeoutsNeedReaders ==
  (Full /\ \E r \in Requests : stage[r] \in Waiting)
    => Cardinality(Idling) > Capacity - Threads

(* The handler raises whatever the state of the process and its services.  *)
Raising(r) == call[r].kind = "boom" \/ call[r].body = "raising"

(* A failure begins within its call.  Unless its own statement raises, a   *)
(* call that is answered 500, or 503 by /readyz, was under way while       *)
(* PostgreSQL was down or the schema was another one, was the victim of a  *)
(* deadlock, ran into the timeout of the pool, or found Redis failing: an  *)
(* outage that is over harms no later call, although it has broken the     *)
(* connections that the pool keeps (db.py 9, pool_pre_ping), and nothing   *)
(* that is merely refused ends as a 500.                                   *)
FailureHasOwnCause ==
  \A r \in Requests :
    (stage[r] = "answered" /\ answer[r].status \in {500, 503})
      => Raising(r) \/ blame[r] # {}

(* Nothing is stored for a call whose key lacks the scope, that did not    *)
(* pay both buckets where they are in force, or whose body is not valid;   *)
(* a key without the scope cannot empty a bucket, and borrows no           *)
(* connection (security.py, the order of dependencies in routers/odds.py). *)
Admitted(r) == Known(call[r].key) /\ RouteOf(r).scopes \subseteq Granted(call[r].key)
Paid(r) == RouteOf(r).limited => charged[r] = {"per_key", "global"}
OnlyAdmittedTouchData ==
  \A r \in Requests :
    /\ stored[r] => Admitted(r) /\ Paid(r) /\ call[r].body = "fine"
    /\ charged[r] # {} => Admitted(r)
    /\ (conn[r] # "none" /\ RouteOf(r).session) => Admitted(r) /\ Paid(r)

(* What the client was told is so: success of a writing call means that    *)
(* its rows are committed; a refusal means that they are not; only a 500   *)
(* leaves it open.                                                         *)
AnswerAgreesWithData ==
  \A r \in Requests :
    (stage[r] = "answered" /\ RouteOf(r).writes)
      => /\ answer[r].status \in {200, 201} => stored[r]
         /\ stored[r] => answer[r].status \in {200, 201, 500}

(* The counters of /metrics add up to what the clients got, although the   *)
(* answers to unhandled exceptions are made outside of the middleware that *)
(* counts (metrics.py, errors.py).                                         *)
AnswersAreCounted ==
  \A s \in Statuses :
    counted[s] = Cardinality({r \in Requests : stage[r] = "answered" /\ answer[r].status = s})

(* Every call is answered, even when all threads wait for connections that *)
(* are held by requests waiting for a thread: in the end none is under way.*)
EveryCallAnswered == <>[](\A r \in Requests : ~InFlight(r))

(* A client that is told 429 is told when to come back: ratelimit.py 126,  *)
(* tests/test_ratelimit_unit.py 41.                                        *)
DeniedKnowWhenToRetry ==
  \A r \in Requests :
    (stage[r] = "answered" /\ answer[r].status = 429) => "Retry-After" \in answer[r].headers

=============================================================================
