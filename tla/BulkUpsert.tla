------------------------------ MODULE BulkUpsert ------------------------------
(***************************************************************************)
(* POST /odds and POST /predictions: the handlers post_odds and            *)
(* post_predictions with their writers bulk_upsert_odds and                *)
(* bulk_upsert_predictions.                                                *)
(*                                                                         *)
(* A request carries a batch of rows and upserts all of them with one      *)
(* INSERT ... ON CONFLICT DO UPDATE in one transaction.  The statement     *)
(* takes its rows in order; each one it writes adds a version to the chain *)
(* of its unique key and locks that key until the transaction ends.        *)
(* Requests run in threads of several workers: rows of different batches   *)
(* interleave, wait for one another and deadlock.                          *)
(***************************************************************************)
EXTENDS BatchPayloads, FiniteSets, SequencesExt

VARIABLES
  batch,      \* batch[r]: the items of the body
  phase,      \* phase[r]: "idle", "open" (its transaction) or "done"
  statement,  \* statement[r]: the rows of its INSERT, as positions in the batch
  written,    \* written[r]: how many rows its statement has upserted
  inserted,   \* inserted[r]: how many of them with xmax = 0
  versions,   \* versions[k]: the row versions of key k, oldest first
  outcome,    \* outcome[r]: how the request ended
  log         \* the transactions in the order of their commits

vars == <<batch, phase, statement, written, inserted, versions, outcome, log>>

(* The statuses: ok 200, not_found 404, check 400; the others, for which   *)
(* no handler is registered, 500.                                          *)
Outcomes == {"pending", "ok", "not_found", "check", "data",
             "mixed_times", "cardinality", "deadlock", "server"}

TypeOK ==
  /\ batch \in [Requests -> Batches]
  /\ phase \in [Requests -> {"idle", "open", "done"}]
  /\ statement \in [Requests -> Seq(Nat)]
  /\ written \in [Requests -> Nat]
  /\ inserted \in [Requests -> Nat]
  /\ \A r \in Requests : inserted[r] <= written[r] /\ written[r] <= Len(statement[r])
  /\ versions \in [Keys -> Seq(Requests \X Nat)]
  /\ outcome \in [Requests -> Outcomes]
  /\ log \in Seq(Requests)

Init ==
  /\ batch \in Workloads
  /\ phase = [r \in Requests |-> "idle"]
  /\ statement = [r \in Requests |-> <<>>]
  /\ written = [r \in Requests |-> 0]
  /\ inserted = [r \in Requests |-> 0]
  /\ versions = [k \in Keys |-> <<>>]
  /\ outcome = [r \in Requests |-> "pending"]
  /\ log = <<>>

-----------------------------------------------------------------------------
(* The rows of the statement, as positions in the batch.                   *)

(* by_key of bulk_upsert_predictions: a dict keeps the place of a key and  *)
(* takes the later row.  Mutants: the earlier of two equal times wins; the *)
(* key moves to the end; nothing is removed.                               *)
KeepEarlierOfEqual(b, kept, i) ==
  LET same == {n \in DOMAIN kept : b[kept[n]].key = b[i].key}
  IN  IF same = {} THEN Append(kept, i)
      ELSE [n \in DOMAIN kept |->
              IF n \in same /\ b[i].at > b[kept[n]].at THEN i ELSE kept[n]]

KeepAtTheEnd(b, kept, i) ==
  LET other(j) == b[j].key # b[i].key
      same == SelectSeq(kept, LAMBDA j : ~ other(j))
  IN  SelectSeq(kept, other) \o
      (IF same = <<>> \/ b[i].at >= b[same[1]].at THEN <<i>> ELSE same)

KeepAll(b, kept, i) == Append(kept, i)

Keep(b, kept, i) ==
  LET same == {n \in DOMAIN kept : b[kept[n]].key = b[i].key}
  IN  IF same = {} THEN Append(kept, i)
      ELSE [n \in DOMAIN kept |->
              IF n \in same /\ b[i].at >= b[kept[n]].at THEN i ELSE kept[n]]

Positions(b) == [i \in 1 .. Len(b) |-> i]

(* The loop over the rows: what is kept of the first i.                    *)
Norm(b) ==
  LET kept[i \in 0 .. Len(b)] == IF i = 0 THEN <<>> ELSE Keep(b, kept[i - 1], i)
  IN  kept[Len(b)]

Items(r) == batch[r].items

Statement(b) == IF b.endpoint = "odds" THEN Positions(b.items) ELSE Norm(b.items)

Item(r, n) == Items(r)[statement[r][n]]

-----------------------------------------------------------------------------
(* The keys r has locked.  Mutants: a session that failed is not closed;   *)
(* all rows are share-locked before the first is written; every row is     *)
(* committed by itself.                                                    *)
LockedAfterFailure(r) ==
  IF phase[r] = "open" \/ outcome[r] = "server"
  THEN {Item(r, n).key : n \in 1 .. written[r]} ELSE {}

LockedUpFront(r) ==
  IF phase[r] = "open" THEN Mentioned(batch[r]) ELSE {}

LockedForOneRow(r) ==
  IF phase[r] = "open" /\ written[r] > 0 THEN {Item(r, written[r]).key} ELSE {}

Locked(r) ==
  IF phase[r] = "open" THEN {Item(r, n).key : n \in 1 .. written[r]} ELSE {}

(* The row r is about to upsert, and who makes it wait.                    *)
HasNext(r) == phase[r] = "open" /\ written[r] < Len(statement[r])
NextRow(r) == Item(r, written[r] + 1)

Holders(r) ==
  IF HasNext(r) THEN {o \in Requests \ {r} : NextRow(r).key \in Locked(o)} ELSE {}

(* The places of the committed versions of a key, and the row that a       *)
(* reader sees: the last of them.                                          *)
Committed(k) == {i \in DOMAIN versions[k] : versions[k][i][1] \in ToSet(log)}

Visible(k) == IF Committed(k) = {} THEN <<>> ELSE versions[k][Max(Committed(k))]

-----------------------------------------------------------------------------
Answer(r, how) ==
  /\ phase' = [phase EXCEPT ![r] = "done"]
  /\ outcome' = [outcome EXCEPT ![r] = how]

(* The transaction is rolled back: its versions stay in the chains, and    *)
(* nobody sees them.                                                       *)
Rollback(r, how) ==
  /\ Answer(r, how)
  /\ UNCHANGED <<batch, statement, written, inserted, versions, log>>

(* An empty list is answered with two zeros.                               *)
NothingToDo(r) ==
  /\ phase[r] = "idle" /\ Items(r) = <<>>
  /\ Rollback(r, "ok")

(* _ensure_fk_exists_for_odds, _ensure_fk_exists_for_predictions.          *)
Unknown(r) == \E i \in DOMAIN Items(r) : Items(r)[i].flaw = "reference"

UnknownReference(r) ==
  /\ phase[r] = "idle" /\ Unknown(r)
  /\ Rollback(r, "not_found")

(* Comparing a time that has a zone with one that has none is a TypeError. *)
Incomparable(r) ==
  /\ batch[r].endpoint = "predictions"
  /\ \E i, j \in DOMAIN Items(r) : /\ Items(r)[i].key = Items(r)[j].key
                                   /\ Items(r)[i].aware # Items(r)[j].aware

MixedTimes(r) ==
  /\ phase[r] = "idle" /\ ~ Unknown(r) /\ Incomparable(r)
  /\ Rollback(r, "mixed_times")

Execute(r) ==
  /\ phase[r] = "idle" /\ Items(r) # <<>> /\ ~ Unknown(r) /\ ~ Incomparable(r)
  /\ phase' = [phase EXCEPT ![r] = "open"]
  /\ statement' = [statement EXCEPT ![r] = Statement(batch[r])]
  /\ UNCHANGED <<batch, written, inserted, versions, outcome, log>>

(* A row the columns or their CHECKs refuse ends the whole statement.      *)
RejectRow(r) ==
  /\ HasNext(r)
  /\ NextRow(r).flaw \in {"check", "data"}
  /\ Rollback(r, NextRow(r).flaw)

(* ON CONFLICT DO UPDATE never updates a row its own statement wrote.      *)
SecondTime(r) ==
  /\ HasNext(r)
  /\ NextRow(r).flaw = "none"
  /\ NextRow(r).key \in Locked(r)
  /\ Rollback(r, "cardinality")

WriteRow(r) ==
  LET k == NextRow(r).key
  IN  /\ HasNext(r)
      /\ NextRow(r).flaw = "none"
      /\ k \notin Locked(r)
      /\ Holders(r) = {}
      /\ versions' = [versions EXCEPT ![k] = Append(@, <<r, statement[r][written[r] + 1]>>)]
      /\ written' = [written EXCEPT ![r] = @ + 1]
      /\ inserted' = [inserted EXCEPT ![r] = @ + (IF Committed(k) = {} THEN 1 ELSE 0)]
      /\ UNCHANGED <<batch, statement, phase, outcome, log>>

(* PostgreSQL breaks a cycle of waits by failing one of its transactions.  *)
WaitCycle(S) == S # {} /\ \A r \in S : Holders(r) \cap S # {}

(* Mutant: the deadlock is taken for a unique violation.                   *)
DeadlockAsConflict(r) ==
  /\ \E S \in SUBSET Requests : WaitCycle(S) /\ r \in S
  /\ Rollback(r, "conflict")

Deadlock(r) ==
  /\ \E S \in SUBSET Requests : WaitCycle(S) /\ r \in S
  /\ Rollback(r, "deadlock")

Executed(r) == phase[r] = "open" /\ written[r] = Len(statement[r])

Commit(r) ==
  /\ Executed(r)
  /\ log' = Append(log, r)
  /\ Answer(r, "ok")
  /\ UNCHANGED <<batch, statement, written, inserted, versions>>

(* The connection or the server dies: the transaction is rolled back, or,  *)
(* between the commit and its acknowledgement, it is not.                  *)
Fail(r) == phase[r] = "open" /\ Rollback(r, "server")

CommitUnacknowledged(r) ==
  /\ Executed(r)
  /\ log' = Append(log, r)
  /\ Answer(r, "server")
  /\ UNCHANGED <<batch, statement, written, inserted, versions>>

Quiescent ==
  /\ \A r \in Requests : phase[r] = "done"
  /\ UNCHANGED vars

Arrive(r) == NothingToDo(r) \/ UnknownReference(r) \/ MixedTimes(r) \/ Execute(r)

Step(r) == RejectRow(r) \/ SecondTime(r) \/ WriteRow(r) \/ Deadlock(r) \/ Commit(r)

Next ==
  \/ \E r \in Requests : \/ Arrive(r) \/ Step(r)
                         \/ Fail(r)   \/ CommitUnacknowledged(r)
  \/ Quiescent

Spec == Init /\ [][Next]_vars

(* A handler's thread keeps running; the database wakes a waiter when its  *)
(* holder ends and looks for cycles after deadlock_timeout.  No request    *)
(* steps for ever, so none can starve the others.                          *)
FairSpec == Spec /\ WF_vars(\E r \in Requests : Step(r))

-----------------------------------------------------------------------------
(* PROPERTIES                                                              *)

(* The row that k has after the batches of the log, one after the other,   *)
(* each as a whole: what its newest writer meant it to be.                 *)
RowAfter(k) ==
  LET writes(r, n) == Item(r, n).key = k
      writers == {p \in DOMAIN log : \E n \in DOMAIN statement[log[p]] : writes(log[p], n)}
  IN  IF writers = {} THEN <<>>
      ELSE LET r == log[Max(writers)]
               n == CHOOSE m \in DOMAIN statement[r] : writes(r, m)
           IN  <<r, statement[r][n]>>

(* The table is always what the committed batches make of it when each is  *)
(* applied in one piece, in the order of the commits: no batch is there in *)
(* part, and two batches that share keys do not end up mixed.              *)
BatchesAreAtomic ==
  \A k \in Keys : RowAfter(k) = Visible(k)

(* A batch of predictions may name a key more than once: it never fails    *)
(* for touching a row twice.                                               *)
RepeatedPredictionsAreUpserted ==
  \A r \in Requests :
    batch[r].endpoint = "predictions" => outcome[r] # "cardinality"

(* The same of every batch.  The description of post_odds says "Tar emot   *)
(* en lista av odds-snapshots och upsertar dem mot unik nyckel"; of a list *)
(* of odds that names a key twice it is false.                             *)
RepeatedKeysAreUpserted == \A r \in Requests : outcome[r] # "cardinality"

(* The rank of the first row of k in the batch of r.                       *)
FirstRow(r, k) ==
  CHOOSE i \in DOMAIN Items(r) :
    /\ Items(r)[i].key = k
    /\ \A j \in 1 .. i - 1 : Items(r)[j].key # k

(* One order of the keys in which every batch first mentions them.         *)
CommonOrder ==
  \E rank \in [Keys -> 1 .. Cardinality(Keys)] :
    \A r \in Requests : \A k, m \in Mentioned(batch[r]) :
      FirstRow(r, k) < FirstRow(r, m) => rank[k] < rank[m]

(* Clients that list keys in one common order never deadlock: the writers  *)
(* keep the order of the batch, whatever they remove from it.              *)
OrderedBatchesNeverDeadlock ==
  (\E r \in Requests : outcome[r] = "deadlock") => ~ CommonOrder

(* Every batch is answered, also those that wait for one another.          *)
EveryBatchAnswered ==
  <>[](\A r \in Requests : phase[r] # "open")

(* Seen from outside, a batch takes effect in one step, when it commits.   *)
StatusOf(how) ==
  CASE how = "pending"   -> 0
    [] how = "ok"        -> 200
    [] how = "not_found" -> 404
    [] how = "check"     -> 400
    [] OTHER             -> 500

Promise == INSTANCE AtomicBatches WITH
  sent   <- batch,
  table  <- [k \in Keys |-> Visible(k)],
  answer <- [r \in Requests |->
               [status   |-> StatusOf(outcome[r]),
                inserted |-> IF outcome[r] = "ok" THEN inserted[r] ELSE 0]]

(* The handlers implement the promise of module AtomicBatches: the table   *)
(* changes by whole batches, and an answer of 200 counts its new rows.     *)
KeepsPromise == Promise!Spec

=============================================================================
