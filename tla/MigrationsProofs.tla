---------------------------- MODULE MigrationsProofs ----------------------------
(***************************************************************************)
(* Proofs about Migrations, for any number of runs of alembic, of writers  *)
(* and of probes, and any of the databases a history may start from.       *)
(***************************************************************************)
EXTENDS Migrations, SequenceTheorems, TLAPS

-----------------------------------------------------------------------------
(* Statements.                                                             *)

Steps == (1..3) \X (1..2)

(* Every statement of the three revisions.                                 *)
Statements ==
  {Upgrade(p[1])[p[2]] : p \in Steps} \cup {Downgrade(p[1])[p[2]] : p \in Steps}
    \cup {Stamp(i) : i \in 0..3}

LEMMA PlanTypes ==
  ASSUME NEW d \in {"upgrade", "downgrade"}, NEW i \in 0..3
  PROVE  Plan(d, i) \in Seq(Statements)
<1>1. ASSUME NEW j \in 1..3
      PROVE  Upgrade(j) \in Seq(Statements) /\ Downgrade(j) \in Seq(Statements)
  <2>1. Upgrade(j)[1] \in Statements /\ Upgrade(j)[2] \in Statements
    <3>1. <<j, 1>> \in Steps /\ <<j, 2>> \in Steps
      BY DEF Steps
    <3> QED
      BY <3>1 DEF Statements
  <2>2. Downgrade(j)[1] \in Statements /\ Downgrade(j)[2] \in Statements
    <3>1. <<j, 1>> \in Steps /\ <<j, 2>> \in Steps
      BY DEF Steps
    <3> QED
      BY <3>1 DEF Statements
  <2>3. Upgrade(j) = <<Upgrade(j)[1], Upgrade(j)[2]>>
    <3>1. \E x, y : Upgrade(j) = <<x, y>>
      <4>1. CASE j = 1
        BY <4>1 DEF Upgrade
      <4>2. CASE j = 2
        BY <4>2 DEF Upgrade
      <4>3. CASE j = 3
        BY <4>3 DEF Upgrade
      <4> QED
        BY <4>1, <4>2, <4>3
    <3> QED
      BY <3>1
  <2>4. Downgrade(j) = <<Downgrade(j)[1], Downgrade(j)[2]>>
    <3>1. \E x, y : Downgrade(j) = <<x, y>>
      <4>1. CASE j = 1
        BY <4>1 DEF Downgrade
      <4>2. CASE j = 2
        BY <4>2 DEF Downgrade
      <4>3. CASE j = 3
        BY <4>3 DEF Downgrade
      <4> QED
        BY <4>1, <4>2, <4>3
    <3> QED
      BY <3>1
  <2>5. \A x, y \in Statements : <<x, y>> \in Seq(Statements)
    OBVIOUS
  <2> QED
    BY <2>1, <2>2, <2>3, <2>4, <2>5
<1>2. \A j \in 0..3 : Stamp(j) \in Statements
  BY DEF Statements
<1>3. \A s \in Seq(Statements), x \in Statements : Append(s, x) \in Seq(Statements)
  OBVIOUS
<1>4. << >> \in Seq(Statements)
  OBVIOUS
<1>5. CASE d = "downgrade"
  <2>1. CASE i = 0
    BY <1>4, <1>5, <2>1 DEF Plan
  <2>2. CASE i # 0
    <3>1. i \in 1..3 /\ i - 1 \in 0..3
      BY <2>2
    <3>2. Append(Downgrade(i), Stamp(i - 1)) \in Seq(Statements)
      BY <1>1, <1>2, <1>3, <3>1
    <3> QED
      BY <1>5, <2>2, <3>2 DEF Plan
  <2> QED
    BY <2>1, <2>2
<1>6. CASE d = "upgrade"
  <2> DEFINE a == IF i < 1 THEN Append(Upgrade(1), Stamp(1)) ELSE << >>
             b == IF i < 2 THEN Append(Upgrade(2), Stamp(2)) ELSE << >>
             c == IF i < 3 THEN Append(Upgrade(3), Stamp(3)) ELSE << >>
  <2>1. a \in Seq(Statements) /\ b \in Seq(Statements) /\ c \in Seq(Statements)
    BY <1>1, <1>2, <1>3, <1>4
  <2>2. Plan(d, i) = a \o b \o c
    BY <1>6 DEF Plan
  <2> HIDE DEF a, b, c
  <2>3. a \o b \in Seq(Statements)
    BY <2>1, ConcatProperties
  <2>4. (a \o b) \o c \in Seq(Statements)
    BY <2>1, <2>3, ConcatProperties
  <2> QED
    BY <2>2, <2>4
<1> QED
  BY <1>5, <1>6

(* A statement that makes an arbiter locks its table, and wants its keys   *)
(* to be unique.                                                           *)
LEMMA ArbiterStatements ==
  ASSUME NEW s \in Statements
  PROVE  /\ s.tables \subseteq Lockable
         /\ s.tables # {} => s.lock \in {"share", "exclusive"}
         /\ s.does = "stamp" => s.object \in 0..3
         /\ s.does = "create" => s.object \in Objects
         /\ \A t \in Tables :
              s.does = "create" /\ s.object = Arbiter(t) => s.tables = {t} /\ s.unique = {t}
<1>1. CASE s \in {Stamp(i) : i \in 0..3}
  BY <1>1 DEF Stamp, Statement
<1>2. ASSUME NEW p \in Steps, s = Upgrade(p[1])[p[2]]
      PROVE  /\ s.does = "create" /\ s.object \in Objects /\ s.tables \subseteq Lockable
             /\ s.tables # {} => s.lock \in {"share", "exclusive"}
             /\ \A t \in Tables : s.object = Arbiter(t) => s.tables = {t} /\ s.unique = {t}
  <2>1. p[1] \in {1, 2, 3} /\ p[2] \in {1, 2}
    BY DEF Steps
  <2>2. CASE p[1] = 1
    BY <1>2, <2>1, <2>2 DEF Upgrade, Statement, Objects, Arbiter, Tables, Lockable
  <2>3. CASE p[1] = 2
    BY <1>2, <2>1, <2>3 DEF Upgrade, Statement, Objects, Arbiter, Tables, Lockable
  <2>4. CASE p[1] = 3
    BY <1>2, <2>1, <2>4 DEF Upgrade, Statement, Objects, Arbiter, Tables, Lockable
  <2> QED
    BY <2>1, <2>2, <2>3, <2>4
<1>3. ASSUME NEW p \in Steps, s = Downgrade(p[1])[p[2]]
      PROVE  /\ s.does = "drop" /\ s.tables \subseteq Lockable
             /\ s.tables # {} => s.lock \in {"share", "exclusive"}
  <2>1. p[1] \in {1, 2, 3} /\ p[2] \in {1, 2}
    BY DEF Steps
  <2>2. CASE p[1] = 1
    BY <1>3, <2>1, <2>2 DEF Downgrade, Statement, Tables, Lockable
  <2>3. CASE p[1] = 2
    BY <1>3, <2>1, <2>3 DEF Downgrade, Statement, Tables, Lockable
  <2>4. CASE p[1] = 3
    BY <1>3, <2>1, <2>4 DEF Downgrade, Statement, Tables, Lockable
  <2> QED
    BY <2>1, <2>2, <2>3, <2>4
<1> QED
  BY <1>1, <1>2, <1>3 DEF Statements

LEMMA ObjectsOfRevision ==
  ASSUME NEW i \in 0..3
  PROVE  /\ ObjectsOf(i) \subseteq Objects
         /\ \A t \in Tables : Arbiter(t) \in ObjectsOf(i) => i > 1
<1>1. ASSUME NEW p \in Steps
      PROVE  /\ Upgrade(p[1])[p[2]].object \in Objects
             /\ \A t \in Tables : Upgrade(p[1])[p[2]].object = Arbiter(t) => p[1] > 1
  <2>1. p[1] \in {1, 2, 3} /\ p[2] \in {1, 2}
    BY DEF Steps
  <2>2. CASE p[1] = 1
    BY <2>1, <2>2 DEF Upgrade, Statement, Objects, Arbiter, Tables, Lockable
  <2>3. CASE p[1] = 2
    BY <2>1, <2>3 DEF Upgrade, Statement, Objects, Arbiter, Tables, Lockable
  <2>4. CASE p[1] = 3
    BY <2>1, <2>4 DEF Upgrade, Statement, Objects, Arbiter, Tables, Lockable
  <2> QED
    BY <2>1, <2>2, <2>3, <2>4
<1>2. HeadRevision = 3
  BY DEF HeadRevision, Revisions
<1>3. \A o \in ObjectsOf(i) : \E p \in Steps : p[1] <= i /\ o = Upgrade(p[1])[p[2]].object
  BY <1>2 DEF ObjectsOf, Steps
<1>4. ASSUME NEW o \in ObjectsOf(i)
      PROVE  o \in Objects /\ \A t \in Tables : o = Arbiter(t) => i > 1
  <2>1. PICK p \in Steps : p[1] <= i /\ o = Upgrade(p[1])[p[2]].object
    BY <1>3
  <2>2. p[1] \in Int
    BY DEF Steps
  <2>3. o \in Objects /\ \A t \in Tables : o = Arbiter(t) => p[1] > 1
    BY <1>1, <2>1
  <2> QED
    BY <2>1, <2>2, <2>3
<1> QED
  BY <1>4

-----------------------------------------------------------------------------
(* THE INVARIANT                                                           *)

Phases == {"idle", "running", "done", "failed", "killed"}

WriterStates ==
  {"idle", "looking", "looked_up", "inserted", "updated",
   "done", "failed", "no_arbiter", "conflict"}

(* What a run is, its plan included.                                       *)
Transactions ==
  [phase : Phases, direction : {"upgrade", "downgrade"}, plan : Seq(Statements),
   locks : SUBSET Locks, created : SUBSET Objects, dropped : SUBSET Objects,
   version : 0..3, stamped : BOOLEAN]

Typed == TypeOK /\ run \in [Runs -> Transactions]

(* The writers of t that have inserted a row.                              *)
Inserting(t) == {w \in Writing(t) : writer[w] = "inserted"}

(* An arbiter that is committed covers one row, and lets one writer insert *)
(* the first one.                                                          *)
ArbitersHold ==
  \A t \in Tables :
    Arbiter(t) \in objects =>
      /\ rows[t] <= 1
      /\ \A w \in Inserting(t) : rows[t] = 0 /\ Inserting(t) = {w}

(* An arbiter that is being built covers one row, and its table is locked  *)
(* against writers.                                                        *)
BuildersLock ==
  \A m \in Runs, t \in Tables :
    Arbiter(t) \in run[m].created =>
      /\ rows[t] <= 1
      /\ Writing(t) = {}
      /\ \E mode \in {"share", "exclusive"} : <<t, mode>> \in run[m].locks

(* A run and a writer never have the same table locked.                    *)
WritersKeptOut ==
  \A m \in Runs, w \in Writers : \A t \in Held(w), mode \in {"share", "exclusive"} :
    <<t, mode>> \notin run[m].locks

IInv == Typed /\ ArbitersHold /\ BuildersLock /\ WritersKeptOut

-----------------------------------------------------------------------------
(* THE INITIAL STATES                                                      *)

LEMMA OriginTypes ==
  ASSUME NEW o \in Origins
  PROVE  /\ OriginOf(o).objects \subseteq Objects
         /\ OriginOf(o).version \in {NoTable} \cup 0..HeadRevision
         /\ OriginOf(o).odds \in Nat
         /\ Arbiter("odds") \in OriginOf(o).objects => OriginOf(o).odds <= 1
<1>0. HeadRevision = 3 /\ DOMAIN Revisions = 1..3
  BY DEF HeadRevision, Revisions
<1>1. CASE o = "empty"
  BY <1>1 DEF OriginOf
<1>2. CASE o = "V1"
  BY <1>2 DEF OriginOf, Objects, Arbiter
<1>3. CASE o = "duplicates"
  <2>1. OriginOf(o) = [objects |-> ObjectsOf(1), version |-> 1, odds |-> 2]
    BY <1>3 DEF OriginOf
  <2>2. ObjectsOf(1) \subseteq Objects /\ Arbiter("odds") \notin ObjectsOf(1)
    BY ObjectsOfRevision DEF Tables
  <2> QED
    BY <1>0, <2>1, <2>2
<1>4. CASE o \notin {"empty", "V1", "duplicates"}
  <2> DEFINE i == CHOOSE i \in DOMAIN Revisions : Revisions[i] = o
  <2>1. \E j \in DOMAIN Revisions : Revisions[j] = o
    BY <1>4, MigrationsAssumption DEF MigrationsAssumption
  <2>2. i \in 1..3
    BY <1>0, <2>1
  <2>3. OriginOf(o) = [objects |-> ObjectsOf(i), version |-> i, odds |-> 1]
    BY <1>4 DEF OriginOf
  <2> HIDE DEF i
  <2>4. ObjectsOf(i) \subseteq Objects
    BY <2>2, ObjectsOfRevision
  <2> QED
    BY <1>0, <2>2, <2>3, <2>4
<1> QED
  BY <1>1, <1>2, <1>3, <1>4

LEMMA IdleTransaction ==
  Idle \in Transactions
BY DEF Idle, Transactions, Phases

(* A run that has ended holds nothing.                                     *)
LEMMA EndedTransaction ==
  ASSUME NEW phase \in Phases
  PROVE  [Idle EXCEPT !.phase = phase] \in Transactions
         /\ [Idle EXCEPT !.phase = phase].created = {}
         /\ [Idle EXCEPT !.phase = phase].locks = {}
<1>1. [Idle EXCEPT !.phase = phase] \in Transactions
  BY IdleTransaction DEF Transactions
<1>2. /\ [Idle EXCEPT !.phase = phase].created = Idle.created
      /\ [Idle EXCEPT !.phase = phase].locks = Idle.locks
  BY IdleTransaction DEF Transactions
<1> QED
  BY <1>1, <1>2 DEF Idle

LEMMA InitIInv ==
  Init => IInv
<1> SUFFICES ASSUME Init PROVE IInv
  OBVIOUS
<1>1. PICK o \in Origins :
        /\ objects = OriginOf(o).objects
        /\ version = OriginOf(o).version
        /\ rows = [t \in Tables |-> IF t = "odds" THEN OriginOf(o).odds ELSE 0]
  BY DEF Init
<1>2. \A m \in Runs : run[m] = Idle
  BY DEF Init
<1>3. run \in [Runs -> Transactions]
  BY IdleTransaction DEF Init
<1>4. TypeOK
  <2>1. rows \in [Tables -> Nat]
    BY <1>1, OriginTypes
  <2> QED
    BY <1>1, <1>2, <2>1, OriginTypes DEF Init, TypeOK, Idle, HeadRevision, Revisions
<1>5. \A t \in Tables : Writing(t) = {} /\ Inserting(t) = {}
  BY DEF Init, Writing, Inserting
<1>6. ArbitersHold
  BY <1>1, <1>5, OriginTypes DEF ArbitersHold
<1>7. BuildersLock
  BY <1>2 DEF BuildersLock, Idle
<1>8. WritersKeptOut
  BY <1>2 DEF WritersKeptOut, Idle
<1> QED
  BY <1>3, <1>4, <1>6, <1>7, <1>8 DEF IInv, Typed

-----------------------------------------------------------------------------
(* THE STEPS                                                               *)

(* What a run may execute is one of its statements.                        *)
LEMMA NextStatement ==
  ASSUME Typed, NEW m \in Runs, run[m].plan # << >>
  PROVE  Wants(m) \in Statements /\ Tail(run[m].plan) \in Seq(Statements)
<1>1. run[m].plan \in Seq(Statements)
  BY DEF Typed, Transactions
<1> QED
  BY <1>1, HeadTailProperties DEF Wants

(* A statement makes a transaction of a transaction.                       *)
LEMMA AfterTypes ==
  ASSUME Typed, NEW m \in Runs, run[m].plan # << >>
  PROVE  After(m, Wants(m)) \in Transactions
<1> DEFINE s == Wants(m)
<1>1. run[m] \in Transactions /\ objects \subseteq Objects
  BY DEF Typed, TypeOK
<1>2. s \in Statements /\ Tail(run[m].plan) \in Seq(Statements)
  BY NextStatement
<1>3. /\ s.tables \subseteq Lockable
      /\ s.tables # {} => s.lock \in {"share", "exclusive"}
      /\ s.does = "stamp" => s.object \in 0..3
      /\ s.does = "create" => s.object \in Objects
  BY <1>2, ArbiterStatements
<1> HIDE DEF s
<1>4. Seen(m) \subseteq Objects
  BY <1>1 DEF Seen, Transactions
<1>5. {<<t, s.lock>> : t \in LockedBy(m, s)} \subseteq Locks
  BY <1>3 DEF LockedBy, Locks
<1>6. Dropped(m, s) \subseteq Objects
  BY <1>4 DEF Dropped
<1> DEFINE locks   == run[m].locks \cup {<<t, s.lock>> : t \in LockedBy(m, s)}
           created == IF s.does = "create" THEN run[m].created \cup ({s.object} \ Seen(m))
                      ELSE run[m].created
           dropped == IF s.does = "drop" THEN run[m].dropped \cup Dropped(m, s)
                      ELSE run[m].dropped
           to      == IF s.does = "stamp" THEN s.object ELSE run[m].version
           stamped == run[m].stamped \/ s.does = "stamp"
           rest    == Tail(run[m].plan)
<1>7. /\ locks \subseteq Locks /\ created \subseteq Objects /\ dropped \subseteq Objects
      /\ to \in 0..3 /\ stamped \in BOOLEAN
  BY <1>1, <1>3, <1>4, <1>5, <1>6 DEF Transactions
<1>8. After(m, s) = [run[m] EXCEPT
        !.plan = rest, !.locks = locks, !.created = created,
        !.dropped = dropped, !.version = to, !.stamped = stamped]
  BY DEF After
<1>9. rest \in Seq(Statements)
  BY <1>2
<1> HIDE DEF locks, created, dropped, to, stamped, rest
<1>10. After(m, s) \in Transactions
  <2>1. After(m, s) = [phase |-> run[m].phase, direction |-> run[m].direction,
                       plan |-> rest, locks |-> locks, created |-> created,
                       dropped |-> dropped, version |-> to, stamped |-> stamped]
    BY <1>1, <1>8 DEF Transactions
  <2>2. run[m].phase \in Phases /\ run[m].direction \in {"upgrade", "downgrade"}
    BY <1>1 DEF Transactions
  <2> QED
    BY <1>7, <1>9, <2>1, <2>2 DEF Transactions
<1> QED
  BY <1>10 DEF s

(* What TypeOK says of a run is less than that it is a transaction.        *)
LEMMA TransactionTypes ==
  ASSUME NEW r \in Transactions
  PROVE  /\ r.phase \in {"idle", "running", "done", "failed", "killed"}
         /\ r.locks \subseteq Locks
         /\ r.created \subseteq Objects /\ r.dropped \subseteq Objects
         /\ r.version \in 0..HeadRevision
BY DEF Transactions, Phases, HeadRevision, Revisions

(* A run that gives up its transaction, or begins one, disturbs no other.  *)
LEMMA FreshTransaction ==
  ASSUME IInv, NEW m \in Runs, NEW r \in Transactions, r.created = {}, r.locks = {},
         run' = [run EXCEPT ![m] = r], objects' = objects, rows' = rows, writer' = writer
  PROVE  /\ run' \in [Runs -> Transactions]
         /\ ArbitersHold' /\ BuildersLock' /\ WritersKeptOut'
<1>1. run' \in [Runs -> Transactions]
  BY DEF IInv, Typed
<1>2. \A t \in Tables : Writing(t)' = Writing(t) /\ Inserting(t)' = Inserting(t)
  BY DEF Writing, Inserting
<1>3. ArbitersHold'
  BY <1>2 DEF IInv, ArbitersHold
<1>4. \A n \in Runs : n # m => run'[n] = run[n]
  BY DEF IInv, Typed
<1>5. run'[m].created = {} /\ run'[m].locks = {}
  BY DEF IInv, Typed
<1>6. BuildersLock'
  BY <1>2, <1>4, <1>5 DEF IInv, BuildersLock
<1>7. \A w \in Writers : Held(w)' = Held(w)
  BY DEF Held
<1>8. WritersKeptOut'
  BY <1>4, <1>5, <1>7 DEF IInv, WritersKeptOut
<1> QED
  BY <1>1, <1>3, <1>6, <1>8

LEMMA BeginIInv ==
  ASSUME IInv, NEW m \in Runs, Begin(m)
  PROVE  IInv'
<1>1. PICK d \in Directions[m] :
        run' = [run EXCEPT ![m] =
          [Idle EXCEPT !.phase = "running", !.direction = d,
                       !.plan = Plan(d, Current), !.version = Current]]
  BY DEF Begin
<1> DEFINE r == [Idle EXCEPT !.phase = "running", !.direction = d,
                             !.plan = Plan(d, Current), !.version = Current]
<1>2. d \in {"upgrade", "downgrade"}
  BY MigrationsAssumption DEF MigrationsAssumption
<1>3. Current \in 0..3
  BY DEF IInv, Typed, TypeOK, Current, NoTable, HeadRevision, Revisions
<1>4. Plan(d, Current) \in Seq(Statements)
  BY <1>2, <1>3, PlanTypes
<1>5. r \in Transactions /\ r.created = {} /\ r.locks = {}
  BY <1>2, <1>3, <1>4 DEF Idle, Transactions, Phases
<1>6. run' = [run EXCEPT ![m] = r]
  BY <1>1
<1> HIDE DEF r
<1>7. /\ run' \in [Runs -> Transactions]
      /\ ArbitersHold' /\ BuildersLock' /\ WritersKeptOut'
  BY <1>5, <1>6, FreshTransaction DEF Begin
<1>8. TypeOK'
  BY <1>7, TransactionTypes DEF IInv, Typed, TypeOK, Begin, historyVars
<1> QED
  BY <1>7, <1>8 DEF IInv, Typed

LEMMA FailIInv ==
  ASSUME IInv, NEW m \in Runs, Fail(m)
  PROVE  IInv'
<1>1. /\ RolledBack(m, "failed") \in Transactions
      /\ RolledBack(m, "failed").created = {} /\ RolledBack(m, "failed").locks = {}
  BY EndedTransaction DEF RolledBack, Phases
<1>2. /\ run' \in [Runs -> Transactions]
      /\ ArbitersHold' /\ BuildersLock' /\ WritersKeptOut'
  BY <1>1, FreshTransaction DEF Fail, Unchanged
<1>3. Objection(m, Wants(m))
        \in {"nothing", "exists", "missing", "duplicates", "version"}
  BY DEF Objection
<1>4. why' \in [Runs -> {"nothing", "exists", "missing", "duplicates", "version", "deadlock"}]
  BY <1>3 DEF IInv, Typed, TypeOK, Fail
<1>5. TypeOK'
  BY <1>2, <1>4, TransactionTypes DEF IInv, Typed, TypeOK, Fail, Unchanged
<1> QED
  BY <1>2, <1>5 DEF IInv, Typed

LEMMA KillIInv ==
  ASSUME IInv, NEW m \in Runs, Kill(m)
  PROVE  IInv'
<1> DEFINE r == [Idle EXCEPT !.phase = "killed"]
<1>1. r \in Transactions /\ r.created = {} /\ r.locks = {}
  BY EndedTransaction DEF Phases
<1>2. run' = [run EXCEPT ![m] = r]
  BY DEF Kill
<1> HIDE DEF r
<1>3. /\ run' \in [Runs -> Transactions]
      /\ ArbitersHold' /\ BuildersLock' /\ WritersKeptOut'
  BY <1>1, <1>2, FreshTransaction DEF Kill, Unchanged
<1>4. TypeOK'
  BY <1>3, TransactionTypes DEF IInv, Typed, TypeOK, Kill, Unchanged, historyVars
<1> QED
  BY <1>3, <1>4 DEF IInv, Typed

(* A run that is free waits for nobody.                                    *)
LEMMA FreeRun ==
  ASSUME NEW m \in Runs, Free(m)
  PROVE  /\ Running(m) /\ run[m].plan # << >>
         /\ Lockers(m, Wants(m)) = {} /\ Holders(m, Wants(m)) = {}
         /\ WritersInWay(m, Wants(m)) = {}
<1>1. RunWaitsFor(m) = {}
  BY DEF Free, WaitsFor
<1> QED
  BY <1>1 DEF RunWaitsFor, Free

(* A writer that goes on finds none of the tables it asks for locked.      *)
LEMMA FreeWriter ==
  ASSUME NEW w \in Writers, WaitsFor(w) = {}
  PROVE  \A m \in Runs, t \in Asks(w), mode \in {"share", "exclusive"} :
           <<t, mode>> \notin run[m].locks
<1>1. w \notin Runs
  BY MigrationsAssumption DEF MigrationsAssumption
<1>2. WriterWaitsFor(w) = {}
  BY <1>1 DEF WaitsFor
<1> QED
  BY <1>2 DEF WriterWaitsFor

(* Locks that no writer is in the way of keep the writers out.             *)
LEMMA NewLocks ==
  ASSUME NEW m \in Runs, NEW s, WritersKeptOut, WritersInWay(m, s) = {}, writer' = writer,
         \A n \in Runs : n # m => run'[n] = run[n],
         run'[m].locks \subseteq run[m].locks \cup {<<t, s.lock>> : t \in Front(m, s)}
  PROVE  WritersKeptOut'
<1>1. \A w \in Writers : Held(w)' = Held(w)
  BY DEF Held
<1>2. \A w \in Writers : Held(w) \cap Front(m, s) = {}
  BY DEF WritersInWay
<1>3. SUFFICES ASSUME NEW n \in Runs, NEW w \in Writers, NEW t \in Held(w),
                      NEW mode \in {"share", "exclusive"}
               PROVE  <<t, mode>> \notin run'[n].locks
  BY <1>1 DEF WritersKeptOut
<1>4. <<t, mode>> \notin run[n].locks
  BY DEF WritersKeptOut
<1>5. t \notin Front(m, s)
  BY <1>2
<1> QED
  BY <1>4, <1>5

(* A lock changes nothing but the locks.                                   *)
LEMMA LockIInv ==
  ASSUME IInv, NEW m \in Runs, Lock(m)
  PROVE  IInv'
<1> DEFINE s == Wants(m)
           fresh == {<<t, s.lock>> : t \in Front(m, s)}
           r == [run[m] EXCEPT !.locks = @ \cup fresh]
<1>1. run[m] \in Transactions
  BY DEF IInv, Typed
<1>2. s \in Statements
  BY NextStatement DEF IInv, Lock, Free
<1>3. s.tables \subseteq Lockable /\ (s.tables # {} => s.lock \in {"share", "exclusive"})
  BY <1>2, ArbiterStatements
<1>4. fresh \subseteq Locks
  <2>1. Front(m, s) \subseteq s.tables
    BY DEF Front, Lacks, LockedBy
  <2> QED
    BY <1>3, <2>1 DEF Locks
<1>5. run' = [run EXCEPT ![m] = r]
  BY DEF IInv, Typed, Lock
<1>6. WritersInWay(m, s) = {} /\ writer' = writer
  BY FreeRun DEF Lock
<1> HIDE DEF s, fresh
<1>7. /\ r \in Transactions
      /\ r.locks = run[m].locks \cup fresh /\ r.created = run[m].created
  BY <1>1, <1>4 DEF Transactions
<1> HIDE DEF r
<1>8. run' \in [Runs -> Transactions] /\ run'[m] = r /\ \A n \in Runs : n # m => run'[n] = run[n]
  BY <1>5, <1>7 DEF IInv, Typed
<1>9. TypeOK'
  BY <1>8, TransactionTypes DEF IInv, Typed, TypeOK, Lock, historyVars
<1>10. \A t \in Tables : Writing(t)' = Writing(t) /\ Inserting(t)' = Inserting(t)
  BY DEF Writing, Inserting, Lock
<1>11. ArbitersHold'
  BY <1>10 DEF IInv, ArbitersHold, Lock
<1>12. BuildersLock'
  <2>1. \A n \in Runs : /\ run'[n].created = run[n].created
                         /\ run[n].locks \subseteq run'[n].locks
    BY <1>7, <1>8
  <2>2. rows' = rows
    BY DEF Lock
  <2> QED
    BY <1>10, <2>1, <2>2 DEF IInv, BuildersLock
<1>13. WritersKeptOut'
  BY <1>6, <1>7, <1>8, NewLocks DEF IInv, fresh
<1> QED
  BY <1>8, <1>9, <1>11, <1>12, <1>13 DEF IInv, Typed

(* A statement that builds an arbiter has found no key twice and no writer *)
(* at work, and locks its table.                                           *)
LEMMA ExecuteIInv ==
  ASSUME IInv, NEW m \in Runs, Execute(m)
  PROVE  IInv'
<1> DEFINE s == Wants(m)
<1>1. After(m, s) \in Transactions
  BY AfterTypes DEF IInv, Execute, Free
<1>2. s \in Statements
  BY NextStatement DEF IInv, Execute, Free
<1>3. run' \in [Runs -> Transactions]
  BY <1>1 DEF IInv, Typed, Execute
<1>4. TypeOK'
  BY <1>3, TransactionTypes DEF IInv, Typed, TypeOK, Execute, historyVars
<1>5. \A t \in Tables : Writing(t)' = Writing(t) /\ Inserting(t)' = Inserting(t)
  BY DEF Writing, Inserting, Execute
<1>6. ArbitersHold'
  BY <1>5 DEF IInv, ArbitersHold, Execute
<1>7. BuildersLock'
  <2>1. SUFFICES ASSUME NEW n \in Runs, NEW t \in Tables, Arbiter(t) \in run'[n].created
                 PROVE  /\ rows[t] <= 1
                        /\ Writing(t) = {}
                        /\ \E mode \in {"share", "exclusive"} : <<t, mode>> \in run'[n].locks
    BY <1>5 DEF BuildersLock, Execute
  <2>2. CASE n # m
    BY <2>1, <2>2 DEF IInv, Typed, BuildersLock, Execute
  <2>3. CASE n = m
    <3>1. run'[m] = After(m, s)
      BY DEF IInv, Typed, Execute
    <3>2. run[m] \in Transactions
      BY DEF IInv, Typed
    <3>3. run[m].locks \subseteq run'[m].locks
      BY <3>1, <3>2 DEF After, Transactions
    <3>4. CASE Arbiter(t) \in run[m].created
      BY <3>3, <3>4, <2>3 DEF IInv, BuildersLock
    <3>5. CASE Arbiter(t) \notin run[m].created
      <4>1. s.does = "create" /\ s.object = Arbiter(t) /\ s.object \notin Seen(m)
        <5>1. run'[m].created = IF s.does = "create" THEN run[m].created \cup ({s.object} \ Seen(m))
                                ELSE run[m].created
          BY <3>1, <3>2 DEF After, Transactions
        <5> QED
          BY <2>1, <2>3, <3>5, <5>1
      <4>2. s.tables = {t} /\ s.unique = {t} /\ s.lock \in {"share", "exclusive"}
        BY <1>2, <4>1, ArbiterStatements
      <4>3. LockedBy(m, s) = {t}
        BY <4>1, <4>2 DEF LockedBy
      <4>4. Writing(t) = {}
        <5>1. ASSUME NEW w \in Writing(t) PROVE t \notin Held(w)
          <6>1. CASE t \in Lacks(m, s)
            <7>1. t \in Front(m, s) /\ WritersInWay(m, s) = {}
              BY <6>1, FreeRun DEF Execute, IInv
            <7> QED
              BY <7>1 DEF WritersInWay, Writing
          <6>2. CASE t \notin Lacks(m, s)
            <7>1. <<t, s.lock>> \in run[m].locks
              BY <4>3, <6>2 DEF Lacks
            <7> QED
              BY <4>2, <7>1 DEF IInv, WritersKeptOut, Writing
          <6> QED
            BY <6>1, <6>2
        <5>2. \A w \in Writing(t) : t \in Held(w)
          BY DEF Writing, Held
        <5> QED
          BY <5>1, <5>2
      <4>5. Objection(m, s) = "nothing"
        BY DEF Execute
      <4>6. ~(rows[t] > 1)
        BY <4>1, <4>2, <4>5 DEF Objection
      <4>7. rows[t] \in Nat
        BY DEF IInv, Typed, TypeOK
      <4>8. <<t, s.lock>> \in run'[m].locks
        BY <3>1, <3>2, <4>3 DEF After, Transactions
      <4> QED
        BY <2>3, <4>2, <4>4, <4>6, <4>7, <4>8
    <3> QED
      BY <3>4, <3>5
  <2> QED
    BY <2>2, <2>3
<1>8. run'[m].locks \subseteq run[m].locks \cup {<<t, s.lock>> : t \in Front(m, s)}
  <2>1. run'[m].locks = run[m].locks \cup {<<t, s.lock>> : t \in LockedBy(m, s)}
    BY DEF IInv, Typed, Execute, After, Transactions
  <2>2. \A t \in LockedBy(m, s) : <<t, s.lock>> \in run[m].locks \/ t \in Front(m, s)
    BY DEF Execute, Lacks
  <2> QED
    BY <2>1, <2>2
<1>9. WritersKeptOut'
  <2>1. \A n \in Runs : n # m => run'[n] = run[n]
    BY DEF IInv, Typed, Execute
  <2>2. WritersInWay(m, s) = {} /\ writer' = writer
    BY FreeRun DEF Execute, IInv
  <2> QED
    BY <1>8, <2>1, <2>2, NewLocks DEF IInv
<1> QED
  BY <1>3, <1>4, <1>6, <1>7, <1>9 DEF IInv, Typed

(* What a run has built is as good as what was there.                      *)
LEMMA CommitIInv ==
  ASSUME IInv, NEW m \in Runs, Commit(m)
  PROVE  IInv'
<1> DEFINE r == [Idle EXCEPT !.phase = "done"]
<1>1. r \in Transactions /\ r.created = {} /\ r.locks = {}
  BY EndedTransaction DEF Phases
<1>2. run' = [run EXCEPT ![m] = r]
  BY DEF Commit
<1> HIDE DEF r
<1>3. run' \in [Runs -> Transactions] /\ run[m] \in Transactions
  BY <1>1, <1>2 DEF IInv, Typed
<1>4. rows \in [Tables -> Nat] /\ rows' \in [Tables -> Nat]
  BY DEF IInv, Typed, TypeOK, Commit
<1>5. \A t \in Tables : rows'[t] = rows[t] \/ rows'[t] = 0
  BY DEF Commit
<1>6. objects' \subseteq objects \cup run[m].created
  BY DEF Commit, Seen
<1>7. TypeOK'
  <2>1. objects' \subseteq Objects
    BY <1>3, <1>6 DEF IInv, Typed, TypeOK, Transactions
  <2>2. version' \in {NoTable} \cup 0..HeadRevision
    BY <1>3 DEF IInv, Typed, TypeOK, Commit, Transactions, HeadRevision, Revisions
  <2> QED
    BY <1>3, <1>4, <2>1, <2>2, TransactionTypes DEF IInv, Typed, TypeOK, Commit
<1>8. \A t \in Tables : Writing(t)' = Writing(t) /\ Inserting(t)' = Inserting(t)
  BY DEF Writing, Inserting, Commit
<1>9. ArbitersHold'
  <2> SUFFICES ASSUME NEW t \in Tables, Arbiter(t) \in objects'
               PROVE  /\ rows'[t] <= 1
                      /\ \A w \in Inserting(t) : rows'[t] = 0 /\ Inserting(t) = {w}
    BY <1>8 DEF ArbitersHold
  <2>1. CASE Arbiter(t) \in objects
    BY <1>5, <2>1 DEF IInv, ArbitersHold
  <2>2. CASE Arbiter(t) \in run[m].created
    <3>1. rows[t] <= 1 /\ Inserting(t) = {}
      BY <2>2 DEF IInv, BuildersLock, Inserting
    <3> QED
      BY <1>5, <3>1
  <2> QED
    BY <1>6, <2>1, <2>2
<1>10. BuildersLock'
  <2>1. \A n \in Runs : n # m => run'[n] = run[n]
    BY <1>2 DEF IInv, Typed
  <2>2. run'[m].created = {}
    BY <1>1, <1>2 DEF IInv, Typed
  <2> QED
    BY <1>5, <1>8, <2>1, <2>2 DEF IInv, BuildersLock
<1>11. WritersKeptOut'
  <2>1. \A n \in Runs : run'[n].locks \subseteq run[n].locks
    BY <1>1, <1>2 DEF IInv, Typed
  <2>2. \A w \in Writers : Held(w)' = Held(w)
    BY DEF Held, Commit
  <2> QED
    BY <2>1, <2>2 DEF IInv, WritersKeptOut
<1> QED
  BY <1>3, <1>7, <1>9, <1>10, <1>11 DEF IInv, Typed

(* What a writer holds after its step: what it held, and what it asked for. *)
LEMMA HeldGrows ==
  ASSUME IInv, NEW w \in Writers, WaitsFor(w) = {}, run' = run,
         \A v \in Writers : v # w => Held(v)' = Held(v),
         Held(w)' \subseteq Held(w) \cup Asks(w)
  PROVE  WritersKeptOut'
<1>1. SUFFICES ASSUME NEW m \in Runs, NEW v \in Writers, NEW t \in Held(v)',
                      NEW mode \in {"share", "exclusive"}
               PROVE  <<t, mode>> \notin run[m].locks
  BY DEF WritersKeptOut
<1>2. CASE t \in Held(v)
  BY <1>2 DEF IInv, WritersKeptOut
<1>3. CASE t \notin Held(v)
  BY <1>3, FreeWriter
<1> QED
  BY <1>2, <1>3

(* A writer that is not at work on its table does not count.               *)
LEMMA LookUpIInv ==
  ASSUME IInv, NEW w \in Writers, LookUp(w)
  PROVE  IInv'
<1> DEFINE goes == IF "tables" \notin objects THEN "failed"
                   ELSE IF writer[w] = "idle" THEN "looking" ELSE "looked_up"
<1>0. writer[w] \in {"idle", "looking"}
  BY DEF LookUp
<1>1. /\ writer' = [writer EXCEPT ![w] = goes]
      /\ Writes[w] # "bets" /\ WaitsFor(w) = {}
  BY DEF LookUp
<1>2. \/ goes = "failed"
      \/ goes = "looking" /\ writer[w] = "idle"
      \/ goes = "looked_up" /\ writer[w] = "looking"
  BY <1>0
<1> HIDE DEF goes
<1>3. writer \in [Writers -> WriterStates]
  BY DEF IInv, Typed, TypeOK, WriterStates
<1>4. writer' \in [Writers -> WriterStates] /\ writer'[w] = goes
      /\ \A v \in Writers : v # w => writer'[v] = writer[v]
  BY <1>1, <1>2, <1>3 DEF WriterStates
<1>5. Typed'
  BY <1>4 DEF IInv, Typed, TypeOK, LookUp, historyVars, WriterStates
<1>6. \A t \in Tables : Writing(t)' = Writing(t) /\ Inserting(t)' = Inserting(t)
  BY <1>0, <1>2, <1>4 DEF Writing, Inserting
<1>7. ArbitersHold' /\ BuildersLock'
  BY <1>6 DEF IInv, ArbitersHold, BuildersLock, LookUp
<1>8. WritersKeptOut'
  <2>1. \A v \in Writers : v # w => Held(v)' = Held(v)
    BY <1>4 DEF Held
  <2>2. Held(w)' \subseteq Held(w) \cup Asks(w)
    <3>1. CASE goes = "failed"
      BY <1>4, <3>1 DEF Held
    <3>2. CASE goes = "looking" /\ writer[w] = "idle"
      BY <1>1, <1>4, <3>2 DEF Held, Asks
    <3>3. CASE goes = "looked_up" /\ writer[w] = "looking"
      BY <1>1, <1>4, <3>3 DEF Held, Asks
    <3> QED
      BY <1>2, <3>1, <3>2, <3>3
  <2>3. run' = run
    BY DEF LookUp
  <2> QED
    BY <1>1, <2>1, <2>2, <2>3, HeldGrows
<1> QED
  BY <1>5, <1>7, <1>8 DEF IInv

(* A writer finds its arbiter, and perhaps waits for another writer, or    *)
(* finds none and knows that none is being built.                          *)
LEMMA InsertIInv ==
  ASSUME IInv, NEW w \in Writers, Insert(w)
  PROVE  IInv'
<1> DEFINE u == Writes[w]
           goes == WriterGoes(w, u)
<1>1. u \in Tables \cup {"predictions"}
  BY MigrationsAssumption DEF MigrationsAssumption
<1>2. goes \in {"failed", "no_arbiter", "updated", "conflict", "inserted"}
  BY <1>1 DEF WriterGoes, Tables
<1>3. /\ writer' = [writer EXCEPT ![w] = goes]
      /\ writer[w] = IF u = "bets" THEN "idle" ELSE "looked_up"
      /\ WaitsFor(w) = {}
  BY DEF Insert
<1>4. writer \in [Writers -> WriterStates]
  BY DEF IInv, Typed, TypeOK, WriterStates
<1>5. goes = "inserted" /\ u \in Tables /\ Arbiter(u) \in objects => rows[u] = 0
  <2>1. u \in Tables => rows[u] \in Nat
    BY DEF IInv, Typed, TypeOK
  <2>2. u \in Tables /\ Arbiter(u) \in objects /\ rows[u] > 0 => goes # "inserted"
    BY DEF WriterGoes, Tables
  <2> QED
    BY <2>1, <2>2
<1>6. Arbiter(u) \in objects => \A v \in Writing(u) : writer[v] # "inserted"
  BY DEF Insert
<1>7. u \in Asks(w)
  BY <1>3 DEF Asks
<1> HIDE DEF goes
<1>8. writer' \in [Writers -> WriterStates] /\ writer'[w] = goes
      /\ \A v \in Writers : v # w => writer'[v] = writer[v]
  BY <1>2, <1>3, <1>4 DEF WriterStates
<1>9. Typed'
  BY <1>8 DEF IInv, Typed, TypeOK, Insert, historyVars, WriterStates
<1>10. WritersKeptOut'
  <2>1. \A v \in Writers : v # w => Held(v)' = Held(v)
    BY <1>8 DEF Held
  <2>2. Held(w)' \subseteq Held(w) \cup Asks(w)
    <3>1. CASE u = "bets"
      BY <1>2, <1>3, <1>8, <3>1 DEF Held, Asks
    <3>2. CASE u # "bets"
      BY <1>2, <1>3, <1>8, <3>2 DEF Held, Asks
    <3> QED
      BY <3>1, <3>2
  <2>3. run' = run
    BY DEF Insert
  <2> QED
    BY <1>3, <2>1, <2>2, <2>3, HeldGrows
<1> HIDE DEF u
<1>11. \A t \in Tables : t # u => Writing(t)' = Writing(t) /\ Inserting(t)' = Inserting(t)
  BY <1>8 DEF u, Writing, Inserting
<1>12. Inserting(u)' \subseteq Inserting(u) \cup {w}
  BY <1>8 DEF Writing, Inserting
<1>13. w \in Inserting(u)' => goes = "inserted"
  BY <1>8 DEF Inserting
<1>14. ArbitersHold'
  <2> SUFFICES ASSUME NEW t \in Tables, Arbiter(t) \in objects
               PROVE  /\ rows[t] <= 1
                      /\ \A v \in Inserting(t)' : rows[t] = 0 /\ Inserting(t)' = {v}
    BY DEF ArbitersHold, Insert
  <2>1. CASE t # u
    BY <1>11, <2>1 DEF IInv, ArbitersHold
  <2>2. CASE t = u
    <3>1. Inserting(u) = {}
      BY <1>6, <2>2 DEF Inserting
    <3> QED
      BY <1>5, <1>12, <1>13, <2>2, <3>1 DEF IInv, ArbitersHold
  <2> QED
    BY <2>1, <2>2
<1>15. BuildersLock'
  <2> SUFFICES ASSUME NEW n \in Runs, NEW t \in Tables, Arbiter(t) \in run[n].created
               PROVE  /\ rows[t] <= 1
                      /\ Writing(t)' = {}
                      /\ \E mode \in {"share", "exclusive"} : <<t, mode>> \in run[n].locks
    BY DEF BuildersLock, Insert
  <2>1. \E mode \in {"share", "exclusive"} : <<t, mode>> \in run[n].locks
    BY DEF IInv, BuildersLock
  <2>2. t # u
    BY <1>3, <1>7, <2>1, FreeWriter
  <2> QED
    BY <1>11, <2>2 DEF IInv, BuildersLock
<1> QED
  BY <1>9, <1>10, <1>14, <1>15 DEF IInv

(* A writer that ends holds nothing, and has changed no more than it has   *)
(* committed.                                                              *)
LEMMA WriterEnds ==
  ASSUME IInv, NEW w \in Writers, NEW state \in {"done", "failed"},
         writer' = [writer EXCEPT ![w] = state], run' = run
  PROVE  /\ writer' \in [Writers -> WriterStates]
         /\ \A t \in Tables : /\ Writing(t)' = Writing(t) \ {w}
                              /\ Inserting(t)' = Inserting(t) \ {w}
         /\ WritersKeptOut'
<1>1. writer \in [Writers -> WriterStates]
  BY DEF IInv, Typed, TypeOK, WriterStates
<1>2. writer' \in [Writers -> WriterStates] /\ writer'[w] = state
      /\ \A v \in Writers : v # w => writer'[v] = writer[v]
  BY <1>1 DEF WriterStates
<1>3. \A t \in Tables : /\ Writing(t)' = Writing(t) \ {w}
                        /\ Inserting(t)' = Inserting(t) \ {w}
  BY <1>2 DEF Writing, Inserting
<1>4. \A v \in Writers : v # w => Held(v)' = Held(v)
  BY <1>2 DEF Held
<1>5. Held(w)' = {}
  BY <1>2 DEF Held
<1>6. WritersKeptOut'
  BY <1>4, <1>5 DEF IInv, WritersKeptOut
<1> QED
  BY <1>2, <1>3, <1>6

LEMMA AbortIInv ==
  ASSUME IInv, NEW w \in Writers, Abort(w)
  PROVE  IInv'
<1>1. /\ writer' \in [Writers -> WriterStates]
      /\ \A t \in Tables : /\ Writing(t)' = Writing(t) \ {w}
                           /\ Inserting(t)' = Inserting(t) \ {w}
      /\ WritersKeptOut'
  BY WriterEnds DEF Abort
<1>2. Typed'
  BY <1>1 DEF IInv, Typed, TypeOK, Abort, historyVars, WriterStates
<1>3. ArbitersHold' /\ BuildersLock'
  BY <1>1 DEF IInv, ArbitersHold, BuildersLock, Abort
<1> QED
  BY <1>1, <1>2, <1>3 DEF IInv

(* The one writer that inserted the first row of an arbiter commits it.    *)
LEMMA CommitWriterIInv ==
  ASSUME IInv, NEW w \in Writers, CommitWriter(w)
  PROVE  IInv'
<1> DEFINE u == Writes[w]
<1>1. /\ writer' \in [Writers -> WriterStates]
      /\ \A t \in Tables : /\ Writing(t)' = Writing(t) \ {w}
                           /\ Inserting(t)' = Inserting(t) \ {w}
      /\ WritersKeptOut'
  BY WriterEnds DEF CommitWriter
<1>2. rows \in [Tables -> Nat]
  BY DEF IInv, Typed, TypeOK
<1>3. \A t \in Tables :
        rows'[t] = IF t = u /\ writer[w] = "inserted" THEN rows[t] + 1 ELSE rows[t]
  BY DEF CommitWriter
<1>4. writer[w] \in {"inserted", "updated"}
  BY DEF CommitWriter
<1>5. w \in Writing(u)
  BY <1>4 DEF Writing
<1> HIDE DEF u
<1>6. Typed'
  <2>1. rows' \in [Tables -> Nat]
    <3>1. rows' = [t \in Tables |-> rows'[t]]
      BY DEF CommitWriter
    <3>2. \A t \in Tables : rows'[t] \in Nat
      BY <1>2, <1>3
    <3> HIDE DEF CommitWriter
    <3> QED
      BY <3>1, <3>2
  <2> QED
    BY <1>1, <2>1 DEF IInv, Typed, TypeOK, CommitWriter, historyVars, WriterStates
<1>7. ArbitersHold'
  <2> SUFFICES ASSUME NEW t \in Tables, Arbiter(t) \in objects
               PROVE  /\ rows'[t] <= 1
                      /\ \A v \in Inserting(t)' : rows'[t] = 0 /\ Inserting(t)' = {v}
    BY DEF ArbitersHold, CommitWriter
  <2>1. /\ rows[t] <= 1
        /\ \A v \in Inserting(t) : rows[t] = 0 /\ Inserting(t) = {v}
    BY DEF IInv, ArbitersHold
  <2>2. CASE writer[w] = "inserted" /\ t = u
    <3>1. Inserting(t) = {w} /\ rows[t] = 0
      BY <1>5, <2>1, <2>2 DEF Inserting
    <3> QED
      BY <1>1, <1>3, <2>2, <3>1
  <2>3. CASE writer[w] # "inserted" \/ t # u
    <3>1. rows'[t] = rows[t]
      BY <1>3, <2>3
    <3>2. w \notin Inserting(t)
      BY <2>3 DEF Inserting, Writing, u
    <3> QED
      BY <1>1, <2>1, <3>1, <3>2
  <2> QED
    BY <2>2, <2>3
<1>8. BuildersLock'
  <2> SUFFICES ASSUME NEW n \in Runs, NEW t \in Tables, Arbiter(t) \in run[n].created
               PROVE  /\ rows'[t] <= 1
                      /\ Writing(t)' = {}
                      /\ \E mode \in {"share", "exclusive"} : <<t, mode>> \in run[n].locks
    BY DEF BuildersLock, CommitWriter
  <2>1. t # u
    BY <1>5 DEF IInv, BuildersLock
  <2> QED
    BY <1>1, <1>3, <2>1 DEF IInv, BuildersLock
<1> QED
  BY <1>1, <1>6, <1>7, <1>8 DEF IInv

(* Probes read, and steps of nobody change nothing.                        *)
LEMMA ReaderIInv ==
  ASSUME IInv, UNCHANGED <<objects, version, rows, run, writer, why>>,
         probe' \in [Probes -> {"idle", "counted", "ready", "unready"}]
  PROVE  IInv'
<1>1. Typed'
  BY DEF IInv, Typed, TypeOK
<1>2. \A t \in Tables : Writing(t)' = Writing(t) /\ Inserting(t)' = Inserting(t)
  BY DEF Writing, Inserting
<1>3. \A w \in Writers : Held(w)' = Held(w)
  BY DEF Held
<1> QED
  BY <1>1, <1>2, <1>3 DEF IInv, ArbitersHold, BuildersLock, WritersKeptOut

LEMMA NextIInv ==
  ASSUME IInv, [Next]_vars
  PROVE  IInv'
<1>0. probe \in [Probes -> {"idle", "counted", "ready", "unready"}]
  BY DEF IInv, Typed, TypeOK
<1>1. ASSUME NEW m \in Runs, Begin(m) \/ Goes(m) \/ Kill(m)
      PROVE  IInv'
  BY <1>1, BeginIInv, LockIInv, ExecuteIInv, FailIInv, CommitIInv, KillIInv DEF Goes
<1>2. ASSUME NEW w \in Writers, Write(w)
      PROVE  IInv'
  BY <1>2, LookUpIInv, InsertIInv, AbortIInv, CommitWriterIInv DEF Write
<1>3. ASSUME NEW p \in Probes, ReadView(p) \/ ReadRevision(p)
      PROVE  IInv'
  <2>1. UNCHANGED <<objects, version, rows, run, writer, why>>
    BY <1>3 DEF ReadView, ReadRevision, historyVars
  <2>2. probe' \in [Probes -> {"idle", "counted", "ready", "unready"}]
    BY <1>0, <1>3 DEF ReadView, ReadRevision
  <2> QED
    BY <2>1, <2>2, ReaderIInv
<1>4. CASE UNCHANGED vars
  BY <1>0, <1>4, ReaderIInv DEF vars, historyVars
<1> QED
  BY <1>1, <1>2, <1>3, <1>4 DEF Next

-----------------------------------------------------------------------------
(* THE THEOREMS                                                            *)

(* Runs are transactions, a committed arbiter covers one row and lets one  *)
(* writer insert it, and one that is being built keeps writers out.        *)
THEOREM InductiveInvariant == Spec => []IInv
<1>1. Init => IInv
  BY InitIInv
<1>2. IInv /\ [Next]_vars => IInv'
  BY NextIInv
<1> QED
  BY <1>1, <1>2, PTL DEF Spec

(* The schema, the rows and all who work on them keep their types.         *)
THEOREM TypeInvariant == Spec => []TypeOK
<1>1. IInv => TypeOK
  BY DEF IInv, Typed
<1> QED
  BY <1>1, InductiveInvariant, PTL

(* Whatever writers and runs overlap, a unique index or constraint that is *)
(* there has no key twice under it.                                        *)
THEOREM UniqueIndexesHold == Spec => []IndexesHold
<1>1. IInv => IndexesHold
  BY DEF IInv, ArbitersHold, IndexesHold
<1> QED
  BY <1>1, InductiveInvariant, PTL

=============================================================================
