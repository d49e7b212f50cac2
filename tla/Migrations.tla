------------------------------- MODULE Migrations -------------------------------
(***************************************************************************)
(* The schema, and who depends on it while it changes: alembic runs that   *)
(* apply or revert revisions, writers whose ON CONFLICT clauses need a     *)
(* unique index or constraint (an arbiter), and probes of /readyz.         *)
(*                                                                         *)
(* A run of alembic is one transaction around all its statements and the   *)
(* updates of alembic_version; it may be killed.  Nothing keeps two runs   *)
(* from overlapping but the locks of PostgreSQL, held until a transaction  *)
(* ends.  A writer locks its table, and those it looks its references up   *)
(* in, in modes that let other writers in, but no index build and no DROP. *)
(*                                                                         *)
(* All writers of odds bring the same snapshot, all writers of bets the    *)
(* same (user_ref, external_id) under different idempotency keys: rows     *)
(* counts the committed ones.  The references of all of them exist.        *)
(***************************************************************************)
EXTENDS Integers, Sequences, FiniteSets

CONSTANTS
  Runs,        \* runs of alembic
  Directions,  \* Directions[m]: what m may be: upgrade head, downgrade -1
  Writers,     \* calls of POST /odds, POST /predictions and POST /bets
  Writes,      \* Writes[w]: the table w writes
  Probes,      \* calls of /readyz
  Origins,     \* the databases a history starts from, see OriginOf
  Expected,    \* ALEMBIC_EXPECTED_REV, a position in Revisions, or NoRevision
  Strict,      \* READYZ_STRICT_MIGRATIONS
  NoRevision,
  MaxKills     \* bound on the number of runs that are killed

(* The tables whose later unique indexes matter, and those that are locked *)
(* under running writers.                                                  *)
Tables    == {"odds", "bets"}
Lockable  == Tables \cup {"predictions", "bookmakers", "selections", "models"}
Revisions == <<"c830f2d0fd12", "33dd3a3de106", "ab8852cf8896">>
HeadRevision == Len(Revisions)
NoTable == -1   \* there is no table alembic_version

ASSUME MigrationsAssumption ==
  /\ Directions \in [Runs -> SUBSET {"upgrade", "downgrade"}]
  /\ Writes \in [Writers -> Tables \cup {"predictions"}]
  /\ Runs \cap Writers = {}
  /\ Origins \subseteq {"empty", "V1", "duplicates"} \cup {Revisions[i] : i \in DOMAIN Revisions}
  /\ Expected \in 1..HeadRevision \cup {NoRevision}
  /\ NoRevision \notin Int
  /\ Strict \in BOOLEAN
  /\ MaxKills \in Nat

Objects == {"tables", "readiness", "uq_odds_snapshot", "idx_bets_open_only",
            "uq_bets_user_external_id", "idx_bets_placed_at"}

-----------------------------------------------------------------------------
(* THE REVISIONS                                                           *)

(* A statement: what it does to which object, the lock it takes on which   *)
(* tables, whether it minds an object that is there (or missing) already,  *)
(* and the table in which it wants unique keys.                            *)
Statement(does, object, lock, tables, lenient, unique) ==
  [does |-> does, object |-> object, lock |-> lock, tables |-> tables,
   lenient |-> lenient, unique |-> unique]

Stamp(to) == Statement("stamp", to, "none", {}, FALSE, {})

Upgrade(i) ==
  CASE i = 1 -> <<Statement("create", "tables", "none", {}, FALSE, {}),
                  Statement("create", "readiness", "none", {}, FALSE, {})>>
    [] i = 2 -> <<Statement("create", "uq_odds_snapshot", "exclusive", {"odds"}, FALSE, {"odds"}),
                  Statement("create", "idx_bets_open_only", "share", {"bets"}, FALSE, {})>>
    [] i = 3 -> <<Statement("create", "uq_bets_user_external_id", "share", {"bets"}, TRUE, {"bets"}),
                  Statement("create", "idx_bets_placed_at", "share", {"bets"}, TRUE, {})>>

(* Mutant: the downgrade forgets the constraint.                           *)
DowngradeKeepingConstraint(i) ==
  CASE i = 1 -> <<Statement("drop", "readiness", "exclusive", {}, TRUE, {}),
                  Statement("drop", "tables", "exclusive", Lockable, FALSE, {})>>
    [] i = 2 -> <<Statement("drop", "idx_bets_open_only", "exclusive", {"bets"}, FALSE, {})>>
    [] i = 3 -> <<Statement("drop", "idx_bets_placed_at", "exclusive", {"bets"}, TRUE, {}),
                  Statement("drop", "uq_bets_user_external_id", "exclusive", {"bets"}, TRUE, {})>>

Downgrade(i) ==
  CASE i = 1 -> <<Statement("drop", "readiness", "exclusive", {}, TRUE, {}),
                  Statement("drop", "tables", "exclusive", Lockable, FALSE, {})>>
    [] i = 2 -> <<Statement("drop", "idx_bets_open_only", "exclusive", {"bets"}, FALSE, {}),
                  Statement("drop", "uq_odds_snapshot", "exclusive", {"odds"}, FALSE, {})>>
    [] i = 3 -> <<Statement("drop", "idx_bets_placed_at", "exclusive", {"bets"}, TRUE, {}),
                  Statement("drop", "uq_bets_user_external_id", "exclusive", {"bets"}, TRUE, {})>>

(* upgrade head, and downgrade -1, from revision i.                        *)
Plan(direction, i) ==
  IF direction = "downgrade"
  THEN IF i = 0 THEN << >> ELSE Append(Downgrade(i), Stamp(i - 1))
  ELSE (IF i < 1 THEN Append(Upgrade(1), Stamp(1)) ELSE << >>)
       \o (IF i < 2 THEN Append(Upgrade(2), Stamp(2)) ELSE << >>)
       \o (IF i < 3 THEN Append(Upgrade(3), Stamp(3)) ELSE << >>)

(* What revision i leaves behind.                                          *)
ObjectsOf(i) ==
  {Upgrade(p[1])[p[2]].object : p \in {q \in (1..HeadRevision) \X {1, 2} : q[1] <= i}}

(* A new database; one at a revision; the one that the container makes of  *)
(* V1__core_schema.sql; and one whose odds were written more than once     *)
(* before there was a constraint to prevent it.                            *)
OriginOf(o) ==
  CASE o = "empty"      -> [objects |-> {}, version |-> NoTable, odds |-> 0]
    [] o = "V1"         -> [objects |-> {"tables", "readiness"}, version |-> NoTable, odds |-> 0]
    [] o = "duplicates" -> [objects |-> ObjectsOf(1), version |-> 1, odds |-> 2]
    [] OTHER            ->
         LET i == CHOOSE i \in DOMAIN Revisions : Revisions[i] = o
         IN [objects |-> ObjectsOf(i), version |-> i, odds |-> 1]

-----------------------------------------------------------------------------
VARIABLES
  objects,   \* the objects of the committed schema
  version,   \* the row of alembic_version
  rows,      \* rows[t]: committed rows of the one key
  run,       \* run[m]: the transaction of m
  writer,    \* writer[w]: where w is
  probe,     \* probe[p]: where p is
  kills,
  why,       \* why[m]: history, what failed in m
  overtaken, \* history, the runs during which another one committed
  vouched    \* history, /readyz has answered 200 and nothing was reverted since

historyVars == <<why, overtaken, vouched>>
vars == <<objects, version, rows, run, writer, probe, kills, historyVars>>

Locks == Lockable \X {"share", "exclusive"}
Idle == [phase |-> "idle", direction |-> "upgrade", plan |-> << >>, locks |-> {},
         created |-> {}, dropped |-> {}, version |-> 0, stamped |-> FALSE]

Init ==
  /\ \E o \in Origins :
       /\ objects = OriginOf(o).objects
       /\ version = OriginOf(o).version
       /\ rows = [t \in Tables |-> IF t = "odds" THEN OriginOf(o).odds ELSE 0]
  /\ run = [m \in Runs |-> Idle]
  /\ writer = [w \in Writers |-> "idle"]
  /\ probe = [p \in Probes |-> "idle"]
  /\ kills = 0
  /\ why = [m \in Runs |-> "nothing"]
  /\ overtaken = {}
  /\ vouched = FALSE

-----------------------------------------------------------------------------
(* LOCKS                                                                   *)

(* Mutant: a database without the table is not taken for a new one.        *)
CurrentUnknown == version

(* The revision that alembic reads: the base, if there is no table.        *)
Current == IF version = NoTable THEN 0 ELSE version

Others(m) == Runs \ {m}
Running(m) == run[m].phase = "running"

(* Open transactions that have written to t.                               *)
Writing(t) == {w \in Writers : Writes[w] = t /\ writer[w] \in {"inserted", "updated"}}

(* The tables that t refers to; POST /odds and POST /predictions look      *)
(* their references up in this order.                                      *)
References(t) ==
  IF t = "predictions" THEN <<"models", "selections">> ELSE <<"bookmakers", "selections">>

(* Mutant: the references are looked up in a transaction of their own.     *)
HeldIfWritten(w) ==
  IF writer[w] \in {"inserted", "updated"}
  THEN {Writes[w], References(Writes[w])[1], References(Writes[w])[2]} ELSE {}

(* The tables that the open transaction of w has locked.                   *)
Held(w) ==
  LET t == Writes[w]
  IN CASE writer[w] = "looking"                  -> {References(t)[1]}
       [] writer[w] = "looked_up"                -> {References(t)[1], References(t)[2]}
       [] writer[w] \in {"inserted", "updated"} -> {t, References(t)[1], References(t)[2]}
       [] OTHER                                  -> {}

(* The tables that the next statement of w locks.  POST /bets looks nothing *)
(* up, but its INSERT checks the foreign keys: all at once, since whoever  *)
(* keeps it from the references has locked bets before.                    *)
Asks(w) ==
  LET t == Writes[w]
  IN CASE writer[w] = "idle"      -> IF t = "bets" THEN {t, References(t)[1], References(t)[2]}
                                     ELSE {References(t)[1]}
       [] writer[w] = "looking"   -> {References(t)[2]}
       [] writer[w] = "looked_up" -> {t}
       [] OTHER                   -> {}

(* The schema that m sees.                                                 *)
Seen(m) == (objects \cup run[m].created) \ run[m].dropped

(* The tables that s locks.  DROP of something that is not there locks     *)
(* nothing; DROP CONSTRAINT is an ALTER TABLE, which locks before it looks.*)
LockedBy(m, s) ==
  IF s.does = "drop" /\ s.object # "uq_odds_snapshot" /\ s.object \notin Seen(m)
  THEN {} ELSE s.tables

(* The downgrade of the first revision drops bets, predictions and odds in *)
(* this order; to drop a table, PostgreSQL locks it, then drops its foreign *)
(* keys, the last one first, and for each locks the table it refers to.    *)
DropRank ==
  [bets |-> 1, selections |-> 2, bookmakers |-> 3, predictions |-> 4, models |-> 5, odds |-> 6]

(* The locks that m still has to take for s, and the next one of them.     *)
Lacks(m, s) == {t \in LockedBy(m, s) : <<t, s.lock>> \notin run[m].locks}
Front(m, s) == {t \in Lacks(m, s) : \A u \in Lacks(m, s) : DropRank[t] <= DropRank[u]}

(* The runs that hold a lock which excludes the next one of m: SHARE lets  *)
(* other index builds in, ACCESS EXCLUSIVE lets nobody in.                 *)
Lockers(m, s) ==
  {n \in Others(m) : \E t \in Front(m, s) :
     \/ <<t, "exclusive">> \in run[n].locks
     \/ s.lock = "exclusive" /\ <<t, "share">> \in run[n].locks}

(* The name that s adds to the catalog, the object that it drops or the    *)
(* row of alembic_version that it changes is another run's, uncommitted.   *)
Holders(m, s) ==
  {n \in Others(m) :
     CASE s.does = "create" -> s.object \in run[n].created
       [] s.does = "drop"   -> s.object \in run[n].dropped
       [] s.does = "stamp"  -> run[n].stamped /\ run[m].version = Current}

(* Mutant: CREATE INDEX CONCURRENTLY, which lets writers in.               *)
WritersInWayOfDrops(m, s) ==
  {w \in Writers : s.lock = "exclusive" /\ Held(w) \cap Front(m, s) # {}}

(* The writers that hold a lock which excludes the next one of m.          *)
WritersInWay(m, s) == {w \in Writers : Held(w) \cap Front(m, s) # {}}

Wants(m) == Head(run[m].plan)

(* Whom a run or a writer waits for.  (A writer of a row waits for another *)
(* one too, see Insert, which in its turn waits for nobody.)               *)
RunWaitsFor(m) ==
  IF Running(m) /\ run[m].plan # << >>
  THEN Lockers(m, Wants(m)) \cup Holders(m, Wants(m)) \cup WritersInWay(m, Wants(m))
  ELSE {}

WriterWaitsFor(w) ==
  {m \in Runs : \E t \in Asks(w), mode \in {"share", "exclusive"} : <<t, mode>> \in run[m].locks}

WaitsFor(p) == IF p \in Runs THEN RunWaitsFor(p) ELSE WriterWaitsFor(p)

(* m has its next lock, or may go on without one.                          *)
Free(m) == Running(m) /\ run[m].plan # << >> /\ WaitsFor(m) = {}

(* p is one of a circle of runs and writers that wait for each other.      *)
Waiting == {p \in Runs \cup Writers : WaitsFor(p) # {}}
Deadlocked(p) ==
  /\ WaitsFor(p) # {}
  /\ \E circle \in SUBSET Waiting :
       /\ p \in circle
       /\ \A q \in circle : /\ WaitsFor(q) \cap circle # {}
                            /\ \E r \in circle : q \in WaitsFor(r)

-----------------------------------------------------------------------------
(* ALEMBIC                                                                 *)

(* The current revision is read, then the way to the target is known.      *)
Begin(m) ==
  /\ run[m].phase = "idle"
  /\ \E d \in Directions[m] :
       run' = [run EXCEPT ![m] =
         [Idle EXCEPT !.phase = "running", !.direction = d,
                      !.plan = Plan(d, Current), !.version = Current]]
  /\ UNCHANGED <<objects, version, rows, writer, probe, kills, historyVars>>

(* What is wrong with the next statement.                                  *)
Objection(m, s) ==
  CASE s.does = "create" /\ s.object \in Seen(m) /\ ~s.lenient -> "exists"
    [] s.does = "drop" /\ s.object \notin Seen(m) /\ ~s.lenient -> "missing"
    [] s.does = "create" /\ s.tables # {} /\ "tables" \notin Seen(m) -> "missing"
    [] s.does = "create" /\ s.object \notin Seen(m)
         /\ \E t \in s.unique : rows[t] > 1 -> "duplicates"
    [] s.does = "stamp" /\ ~run[m].stamped
         /\ run[m].version # Current -> "version"
    [] OTHER -> "nothing"

(* The tables take their indexes and constraints with them.                *)
Dropped(m, s) == IF s.object = "tables" THEN Seen(m) ELSE {s.object} \cap Seen(m)

(* The transaction after s.                                                *)
After(m, s) ==
  [run[m] EXCEPT
    !.plan    = Tail(@),
    !.locks   = @ \cup {<<t, s.lock>> : t \in LockedBy(m, s)},
    !.created = IF s.does = "create" THEN @ \cup ({s.object} \ Seen(m)) ELSE @,
    !.dropped = IF s.does = "drop" THEN @ \cup Dropped(m, s) ELSE @,
    !.version = IF s.does = "stamp" THEN s.object ELSE @,
    !.stamped = @ \/ s.does = "stamp"]

(* A lock before the last one of a statement.                              *)
Lock(m) ==
  /\ Free(m)
  /\ Objection(m, Wants(m)) = "nothing"
  /\ ~(Lacks(m, Wants(m)) \subseteq Front(m, Wants(m)))
  /\ run' = [run EXCEPT ![m].locks =
                @ \cup {<<t, Wants(m).lock>> : t \in Front(m, Wants(m))}]
  /\ UNCHANGED <<objects, version, rows, writer, probe, kills, historyVars>>

Execute(m) ==
  /\ Free(m)
  /\ Objection(m, Wants(m)) = "nothing"
  /\ Lacks(m, Wants(m)) \subseteq Front(m, Wants(m))
  /\ run' = [run EXCEPT ![m] = After(m, Wants(m))]
  /\ UNCHANGED <<objects, version, rows, writer, probe, kills, historyVars>>

(* Mutant: every statement is a transaction of its own.                    *)
LeftBehind(m) == Seen(m)

(* What a run that did not commit has changed: nothing.                    *)
Unchanged(m) == objects

(* Mutant: the failed run keeps its connection, and its locks.             *)
StillOpen(m, phase) == [run[m] EXCEPT !.phase = phase]

(* Leaving the with-statements rolls back and closes the connection.       *)
RolledBack(m, phase) == [Idle EXCEPT !.phase = phase]

(* CREATE ... IF NOT EXISTS does not see what another run has created and  *)
(* not committed; if it has had to wait for that, the name is a duplicate. *)
WaitedInVain(m) ==
  /\ m \in overtaken
  /\ Wants(m).does = "create" /\ Wants(m).lenient /\ Wants(m).object \in Seen(m)

(* An error of the statement, or PostgreSQL breaks a deadlock.             *)
Fail(m) ==
  /\ \/ /\ Free(m)
        /\ Objection(m, Wants(m)) # "nothing"
        /\ why' = [why EXCEPT ![m] = Objection(m, Wants(m))]
     \/ Free(m) /\ WaitedInVain(m) /\ why' = [why EXCEPT ![m] = "exists"]
     \/ Deadlocked(m) /\ why' = [why EXCEPT ![m] = "deadlock"]
  /\ run' = [run EXCEPT ![m] = RolledBack(m, "failed")]
  /\ objects' = Unchanged(m)
  /\ UNCHANGED <<version, rows, writer, probe, kills, overtaken, vouched>>

Kill(m) ==
  /\ Running(m) /\ kills < MaxKills
  /\ kills' = kills + 1
  /\ run' = [run EXCEPT ![m] = [Idle EXCEPT !.phase = "killed"]]
  /\ objects' = Unchanged(m)
  /\ UNCHANGED <<version, rows, writer, probe, historyVars>>

(* Dropping the tables drops their rows.                                   *)
Commit(m) ==
  /\ Running(m) /\ run[m].plan = << >>
  /\ objects' = Seen(m)
  /\ version' = IF run[m].stamped THEN run[m].version ELSE version
  /\ rows' = [t \in Tables |-> IF "tables" \in run[m].dropped THEN 0 ELSE rows[t]]
  /\ run' = [run EXCEPT ![m] = [Idle EXCEPT !.phase = "done"]]
  /\ overtaken' = overtaken \cup {n \in Others(m) : Running(n) /\ run[m].stamped}
  /\ vouched' = (vouched /\ run[m].direction = "upgrade")
  /\ UNCHANGED <<writer, probe, kills, why>>

-----------------------------------------------------------------------------
(* WRITERS                                                                 *)

Arbiter(t) == IF t = "odds" THEN "uq_odds_snapshot" ELSE "uq_bets_user_external_id"

(* The table is locked before the statement is analysed: a writer that had *)
(* to wait for a migration sees what it has committed.                     *)
LookUp(w) ==
  /\ Writes[w] # "bets" /\ writer[w] \in {"idle", "looking"}
  /\ WaitsFor(w) = {}
  /\ writer' = [writer EXCEPT ![w] =
       IF "tables" \notin objects THEN "failed"
       ELSE IF writer[w] = "idle" THEN "looking" ELSE "looked_up"]
  /\ UNCHANGED <<objects, version, rows, run, probe, kills, historyVars>>

(* POST /odds names its constraint and fails without it.  POST /bets has   *)
(* another arbiter; its pair is unique only if there is an index to say so.*)
(* That of POST /predictions comes with the table.                         *)
WriterGoes(w, t) ==
  IF "tables" \notin objects THEN "failed"
  ELSE CASE t = "predictions" -> "updated"
         [] t = "odds"        -> IF Arbiter(t) \notin objects THEN "no_arbiter"
                                 ELSE IF rows[t] > 0 THEN "updated" ELSE "inserted"
         [] t = "bets"        -> IF Arbiter(t) \in objects /\ rows[t] > 0 THEN "conflict"
                                 ELSE "inserted"

Insert(w) ==
  LET t == Writes[w]
  IN /\ writer[w] = IF t = "bets" THEN "idle" ELSE "looked_up"
     /\ WaitsFor(w) = {}
     /\ Arbiter(t) \in objects => \A v \in Writing(t) : writer[v] # "inserted"
     /\ writer' = [writer EXCEPT ![w] = WriterGoes(w, t)]
     /\ UNCHANGED <<objects, version, rows, run, probe, kills, historyVars>>

(* PostgreSQL breaks a deadlock, and the writer is answered 500.           *)
Abort(w) ==
  /\ Deadlocked(w)
  /\ writer' = [writer EXCEPT ![w] = "failed"]
  /\ UNCHANGED <<objects, version, rows, run, probe, kills, historyVars>>

CommitWriter(w) ==
  /\ writer[w] \in {"inserted", "updated"}
  /\ rows' = [t \in Tables |->
                IF t = Writes[w] /\ writer[w] = "inserted" THEN rows[t] + 1 ELSE rows[t]]
  /\ writer' = [writer EXCEPT ![w] = "done"]
  /\ UNCHANGED <<objects, version, run, probe, kills, historyVars>>

-----------------------------------------------------------------------------
(* PROBES                                                                  *)

(* Mutant: the revision is reported, not compared.                         *)
ReadyUnchecked == version # NoTable

(* The end of readyz: no table is an error, an empty one is revision None. *)
Ready ==
  /\ version # NoTable
  /\ (Expected # NoRevision /\ Strict) => version = Expected

(* A transaction that drops the view locks it.                             *)
ReadView(p) ==
  /\ probe[p] = "idle"
  /\ \A m \in Runs : "readiness" \notin run[m].dropped
  /\ probe' = [probe EXCEPT ![p] = IF "readiness" \in objects THEN "counted" ELSE "unready"]
  /\ UNCHANGED <<objects, version, rows, run, writer, kills, historyVars>>

ReadRevision(p) ==
  /\ probe[p] = "counted"
  /\ probe' = [probe EXCEPT ![p] = IF Ready THEN "ready" ELSE "unready"]
  /\ vouched' = (vouched \/ Ready)
  /\ UNCHANGED <<objects, version, rows, run, writer, kills, why, overtaken>>

-----------------------------------------------------------------------------
Goes(m) == Lock(m) \/ Execute(m) \/ Fail(m) \/ Commit(m)
Write(w) == LookUp(w) \/ Insert(w) \/ Abort(w) \/ CommitWriter(w)

Next ==
  \/ \E m \in Runs : Begin(m) \/ Goes(m) \/ Kill(m)
  \/ \E w \in Writers : Write(w)
  \/ \E p \in Probes : ReadView(p) \/ ReadRevision(p)

(* Somebody goes on as long as there is one whom no lock holds up.  (Which *)
(* one does not matter, since nobody takes steps for ever.)                *)
Fairness == WF_vars((\E m \in Runs : Goes(m)) \/ (\E w \in Writers : Write(w)))

Spec == Init /\ [][Next]_vars /\ Fairness

-----------------------------------------------------------------------------
(* PROPERTIES                                                              *)

TypeOK ==
  /\ objects \subseteq Objects
  /\ version \in {NoTable} \cup 0..HeadRevision
  /\ rows \in [Tables -> Nat]
  /\ \A m \in Runs :
       /\ run[m].phase \in {"idle", "running", "done", "failed", "killed"}
       /\ run[m].locks \subseteq Locks
       /\ run[m].created \subseteq Objects /\ run[m].dropped \subseteq Objects
       /\ run[m].version \in 0..HeadRevision
  /\ writer \in [Writers -> {"idle", "looking", "looked_up", "inserted", "updated",
                             "done", "failed", "no_arbiter", "conflict"}]
  /\ probe \in [Probes -> {"idle", "counted", "ready", "unready"}]
  /\ why \in [Runs -> {"nothing", "exists", "missing", "duplicates", "version",
                        "deadlock"}]

(* Whichever runs overlapped, failed or were killed, the committed schema  *)
(* has all that the revision in alembic_version stands for (env.py, one    *)
(* transaction).  It has more only if a downgrade has lost a race: it was  *)
(* overtaken, found nothing to drop, locked nothing, and then reverted the *)
(* revision of an upgrade that had come in between (ab8852cf8896, line 36).*)
SchemaMatchesRevision ==
  LET promised == IF version = NoTable THEN {} ELSE ObjectsOf(version)
  IN /\ promised \subseteq objects
     /\ objects \subseteq promised \cup (ObjectsOf(3) \ ObjectsOf(2))
     /\ objects # promised => \E m \in overtaken : run[m].phase = "done"

(* A unique index that is there has no key twice under it, although bets   *)
(* with a repeated pair could be written until it was built, by writers    *)
(* racing the migration (33dd3a3de106, ab8852cf8896).                      *)
IndexesHold ==
  \A t \in Tables : Arbiter(t) \in objects => rows[t] <= 1

(* Once /readyz has answered 200, with a revision to expect, and nothing   *)
(* has been reverted, the constraint that POST /odds names is there, and   *)
(* the index that keeps external ids unique (readiness.py 59-71,           *)
(* crud/odds.py 32).                                                       *)
ReadyMeansArbiters ==
  vouched => {Arbiter(t) : t \in Tables} \subseteq objects

(* A run that reverts the first revision, and has not finished yet.        *)
Reverting(m) ==
  Running(m) /\ run[m].direction = "downgrade" /\ run[m].version = 1 /\ run[m].plan # << >>

(* A run that fails was overtaken by another one, or met keys that were    *)
(* written twice before they had to be unique, or is the victim of a       *)
(* deadlock; and for that, somebody was overtaken, or the first revision   *)
(* is being reverted, whose DROPs lock the tables one after the other and  *)
(* in another order than the writers (c830f2d0fd12, 301-327,               *)
(* routers/predictions.py 26-45).                                          *)
FailureHasCause ==
  [][\A m \in Runs :
       Running(m) /\ run'[m].phase = "failed"
         => \/ m \in overtaken
            \/ why'[m] = "duplicates"
            \/ why'[m] = "deadlock" /\ (overtaken # {} \/ \E n \in Runs : Reverting(n))]_vars

(* What a writer has looked up is there until its transaction ends: it     *)
(* does not fail after that, unless as the victim of a deadlock with a run *)
(* that reverts the first revision (routers/odds.py 45-58).                *)
LookupsLast ==
  [][\A w \in Writers :
       writer[w] \in {"looking", "looked_up"} /\ writer'[w] = "failed"
         => \E m \in Runs : Reverting(m)]_vars

(* Locks are waited for, but not for ever: in the end no run of alembic is *)
(* left that holds any, and every writer has been decided.                 *)
EveryoneEnds ==
  <>[](/\ \A m \in Runs : ~Running(m)
       /\ \A w \in Writers : writer[w] \in {"done", "failed", "no_arbiter", "conflict"})

=============================================================================
