--------------------------------- MODULE Bets ---------------------------------
(***************************************************************************)
(* POST /bets against core.bets: the handler post_bet, its writer          *)
(* insert_bet_idempotent (or create_bet, the writer it replaced, in a      *)
(* worker of an older release), the two unique indexes, and the mapping of database    *)
(* errors to statuses.                                                     *)
(*                                                                         *)
(* Requests run in threads of several workers, each with a transaction of  *)
(* its own at READ COMMITTED: the steps below interleave freely.  A row    *)
(* enters the indexes one at a time, while its transaction is open; whoever*)
(* meets the entry of an open transaction waits for it to end.  What a     *)
(* statement READS is fixed by the snapshot it started with.               *)
(*                                                                         *)
(* A bet is named by the request whose INSERT made it.                     *)
(***************************************************************************)
EXTENDS BetPayloads

VARIABLES
  body,       \* body[r]: the row r asks for
  phase,      \* phase[r]: where the handler of r is
  snapshot,   \* snapshot[r]: the bets its statement sees
  bets,       \* the committed rows of core.bets
  bet_id,     \* bet_id[r]: the id the writer has fetched, Null if none
  status      \* status[r]: the HTTP status of the response

vars == <<body, phase, snapshot, bets, bet_id, status>>

Phases == {"idle",      \* not arrived
           "begun",     \* the statement has its snapshot
           "claimed",   \* its entry is in uq_bets_idempotency_key
           "inserted",  \* and in uq_bets_user_external_id
           "created",   \* the statement returned the new row
           "skipped",   \* ON CONFLICT DO NOTHING: no new row
           "lookup",    \* create_bet: committed, not yet selected
           "done"}

Statuses == {Unanswered, 200, 201, 400, 404, 409, 500}

TypeOK ==
  /\ body \in [Requests -> Payloads]
  /\ phase \in [Requests -> Phases]
  /\ snapshot \in [Requests -> SUBSET Requests]
  /\ bets \in SUBSET Requests
  /\ bet_id \in [Requests -> Requests \cup {Null}]
  /\ status \in [Requests -> Statuses]

Init ==
  /\ body \in [Requests -> Payloads]
  /\ phase = [r \in Requests |-> "idle"]
  /\ snapshot = [r \in Requests |-> {}]
  /\ bets = {}
  /\ bet_id = [r \in Requests |-> Null]
  /\ status = [r \in Requests |-> Unanswered]

-----------------------------------------------------------------------------
(* The indexes: who is in them, committed or not.                          *)

(* Mutants: a look before the insert instead of an index; a transaction    *)
(* that is rolled back but never closed.                                   *)
HoldsKeyIfCommitted(r) == r \in bets
HoldsPairIfCommitted(r) == r \in bets
HoldsKeyAfterFailure(r) ==
  r \in bets \/ phase[r] \in {"claimed", "inserted", "created"} \/ status[r] = 500

HoldsKey(r)  == r \in bets \/ phase[r] \in {"claimed", "inserted", "created"}
HoldsPair(r) == r \in bets \/ phase[r] \in {"inserted", "created"}

KeyRivals(r)  == {o \in Requests \ {r} : SameKey(body[r], body[o]) /\ HoldsKey(o)}
PairRivals(r) == {o \in Requests \ {r} : SamePair(body[r], body[o]) /\ HoldsPair(o)}

(* The id a SELECT ... LIMIT 1 returns over the rows S.                    *)
FirstOf(S) == IF S = {} THEN {Null} ELSE S

Known(r, S) == {o \in S : SameBet(body[r], body[o])}

-----------------------------------------------------------------------------
Goto(r, p) == phase' = [phase EXCEPT ![r] = p]

(* The transaction ends and the response is sent.                          *)
Answer(r, code) ==
  /\ Goto(r, "done")
  /\ status' = [status EXCEPT ![r] = code]

(* post_bet: the statement starts.                                         *)
Execute(r) ==
  /\ phase[r] = "idle"
  /\ Goto(r, "begun")
  /\ snapshot' = [snapshot EXCEPT ![r] = bets]
  /\ UNCHANGED <<body, bets, bet_id, status>>

(* Columns and CHECKs are evaluated before any index is looked at.         *)
RejectRow(r) ==
  /\ phase[r] = "begun"
  /\ \/ body[r].flaw = "check" /\ Answer(r, 400)
     \/ body[r].flaw = "data" /\ Answer(r, 500)
  /\ UNCHANGED <<body, snapshot, bets, bet_id>>

ValidRow(r) == phase[r] = "begun" /\ body[r].flaw \notin {"check", "data"}

ClaimKey(r) ==
  /\ ValidRow(r)
  /\ KeyRivals(r) = {}
  /\ Goto(r, "claimed")
  /\ UNCHANGED <<body, snapshot, bets, bet_id, status>>

(* The conflicting row is committed: nothing is inserted.  The fallback of *)
(* insert_bet_idempotent is part of the same statement, so it reads the    *)
(* snapshot, where the row that caused the conflict may be missing.        *)
Skip(r) ==
  /\ Goto(r, "skipped")
  /\ IF body[r].writer = "insert_bet_idempotent"
     THEN \E b \in FirstOf(Known(r, snapshot[r])) : bet_id' = [bet_id EXCEPT ![r] = b]
     ELSE UNCHANGED bet_id
  /\ UNCHANGED <<body, snapshot, bets, status>>

(* Mutant: no ON CONFLICT clause.                                          *)
KeyConflictRaises(r) ==
  /\ ValidRow(r)
  /\ KeyRivals(r) \cap bets # {}
  /\ Answer(r, 409)
  /\ UNCHANGED <<body, snapshot, bets, bet_id>>

KeyConflict(r) ==
  /\ ValidRow(r)
  /\ KeyRivals(r) \cap bets # {}
  /\ Skip(r)

ClaimPair(r) ==
  /\ phase[r] = "claimed"
  /\ PairRivals(r) = {}
  /\ Goto(r, "inserted")
  /\ UNCHANGED <<body, snapshot, bets, bet_id, status>>

(* Mutant: the indexes are entered in the other order.                     *)
PairTakenFirst(r) == ValidRow(r) /\ PairRivals(r) \cap bets # {}

PairTaken(r) == phase[r] = "claimed" /\ PairRivals(r) \cap bets # {}

PairConflict(r) ==
  /\ PairTaken(r)
  /\ PairArbitrates(body[r])
  /\ Skip(r)

(* Mutant: the handler has no case for unique violations.                  *)
UniqueViolationUnmapped(r) ==
  /\ PairTaken(r)
  /\ ~ PairArbitrates(body[r])
  /\ Answer(r, 422)
  /\ UNCHANGED <<body, snapshot, bets, bet_id>>

(* Not the arbiter's index: UniqueViolation, rolled back, 409.             *)
UniqueViolation(r) ==
  /\ PairTaken(r)
  /\ ~ PairArbitrates(body[r])
  /\ Answer(r, 409)
  /\ UNCHANGED <<body, snapshot, bets, bet_id>>

(* Mutant: the error is reported and the row kept.                         *)
ForeignKeyViolationKept(r) ==
  /\ phase[r] = "inserted"
  /\ body[r].flaw = "fk"
  /\ bets' = bets \cup {r}
  /\ Answer(r, 404)
  /\ UNCHANGED <<body, snapshot, bet_id>>

(* Foreign keys are checked last, and only for a row that was inserted.    *)
ForeignKeyViolation(r) ==
  /\ phase[r] = "inserted"
  /\ body[r].flaw = "fk"
  /\ Answer(r, 404)
  /\ UNCHANGED <<body, snapshot, bets, bet_id>>

Returning(r) ==
  /\ phase[r] = "inserted"
  /\ body[r].flaw # "fk"
  /\ Goto(r, "created")
  /\ bet_id' = [bet_id EXCEPT ![r] = r]
  /\ UNCHANGED <<body, snapshot, bets, status>>

(* Mutant: the commit is forgotten.                                        *)
CommitForgotten(r) ==
  /\ phase[r] = "created"
  /\ Answer(r, 201)
  /\ UNCHANGED <<body, snapshot, bets, bet_id>>

CommitCreated(r) ==
  /\ phase[r] = "created"
  /\ bets' = bets \cup {r}
  /\ Answer(r, 201)
  /\ UNCHANGED <<body, snapshot, bet_id>>

CommitSkipped(r) ==
  /\ phase[r] = "skipped"
  /\ IF body[r].writer = "insert_bet_idempotent"
     THEN Answer(r, 200)
     ELSE Goto(r, "lookup") /\ UNCHANGED status
  /\ UNCHANGED <<body, snapshot, bets, bet_id>>

(* Mutant: the select of create_bet sees what its insert saw.              *)
LookupInSnapshot(r) ==
  /\ phase[r] = "lookup"
  /\ \E b \in FirstOf(Known(r, snapshot[r])) : bet_id' = [bet_id EXCEPT ![r] = b]
  /\ Answer(r, 200)
  /\ UNCHANGED <<body, snapshot, bets>>

(* create_bet selects after its commit, in a new statement: it reads what  *)
(* is committed now.                                                       *)
Lookup(r) ==
  /\ phase[r] = "lookup"
  /\ \E b \in FirstOf(Known(r, bets)) : bet_id' = [bet_id EXCEPT ![r] = b]
  /\ Answer(r, 200)
  /\ UNCHANGED <<body, snapshot, bets>>

(* The connection or the server dies under r: whatever is open is rolled   *)
(* back, and the handler, if it survives, answers 500.                     *)
Fail(r) ==
  /\ phase[r] \notin {"idle", "done"}
  /\ Answer(r, 500)
  /\ bet_id' = [bet_id EXCEPT ![r] = Null]
  /\ UNCHANGED <<body, snapshot, bets>>

(* ... or it dies between the commit and its acknowledgement.              *)
CommitUnacknowledged(r) ==
  /\ phase[r] = "created"
  /\ bets' = bets \cup {r}
  /\ Answer(r, 500)
  /\ bet_id' = [bet_id EXCEPT ![r] = Null]
  /\ UNCHANGED <<body, snapshot>>

(* Every request has been answered: the server idles.                      *)
Quiescent ==
  /\ \A r \in Requests : phase[r] = "done"
  /\ UNCHANGED vars

Step(r) ==
  \/ RejectRow(r)
  \/ ClaimKey(r)      \/ KeyConflict(r)
  \/ ClaimPair(r)     \/ PairConflict(r)  \/ UniqueViolation(r)
  \/ Returning(r)     \/ ForeignKeyViolation(r)
  \/ CommitCreated(r) \/ CommitSkipped(r) \/ Lookup(r)

Next ==
  \/ \E r \in Requests : \/ Execute(r) \/ Step(r)
                         \/ Fail(r)    \/ CommitUnacknowledged(r)
  \/ Quiescent

Spec == Init /\ [][Next]_vars

(* A handler's thread keeps running and the database wakes a waiter once   *)
(* the transaction it waits for has ended; nothing makes a client send.    *)
(* No request steps for ever, so none can starve the others.               *)
FairSpec == Spec /\ WF_vars(\E r \in Requests : Step(r))

-----------------------------------------------------------------------------
(* PROPERTIES                                                              *)

(* However deliveries interleave, fail and are sent again, at most one of  *)
(* those with an idempotency_key, and of those with a user's external id,  *)
(* whichever keys they were sent with and whichever writer served them,    *)
(* stores a row.                                                           *)
OneBetPerKey ==
  \A a, b \in bets :
    SameKey(body[a], body[b]) \/ SamePair(body[a], body[b]) => a = b

(* What the response says is what core.bets holds: 201 and the id of a     *)
(* stored bet of one's own; 200 and the id of a stored bet of somebody     *)
(* else, the same bet; 400, 404 and 409 only if nothing was stored.        *)
ResponseMatchesTable ==
  \A r \in Requests :
    /\ status[r] = 201 => r \in bets /\ bet_id[r] = r
    /\ status[r] = 200 =>
         /\ r \notin bets
         /\ bet_id[r] # Null => bet_id[r] \in Known(r, bets)
    /\ status[r] \in {400, 404, 409} => r \notin bets

(* Idempotency proper: a delivery of a bet that was stored when its        *)
(* statement began gets that bet's id and nothing else, in particular no   *)
(* 409 and no 404 for the parts of the body that clash.  The exceptions    *)
(* are a body the columns reject and a failure of the server.              *)
ReplayOfStoredBet ==
  \A r \in Requests : \A o \in Known(r, snapshot[r]) :
    \/ status[r] \in {Unanswered, 400, 500}
    \/ status[r] = 200 /\ bet_id[r] = o

(* A 200 without a bet id is given only by insert_bet_idempotent, and only *)
(* to a delivery that overlapped the creation of the bet it repeats.       *)
NullOnlyInRace ==
  \A r \in Requests :
    status[r] = 200 /\ bet_id[r] = Null =>
      /\ body[r].writer = "insert_bet_idempotent"
      /\ Known(r, bets \ snapshot[r]) # {}

(* A test of the repository: "Samma payload/nyckel igen -> 200 och samma   *)
(* bet_id".  It holds of create_bet, which selects in a new statement, and *)
(* not of insert_bet_idempotent, which replaced it.                        *)
ReplayReturnsBet ==
  \A r \in Requests : status[r] = 200 => bet_id[r] # Null

(* A 409 is never about one's own bet: when it is given, the external id   *)
(* belongs to a stored bet, and no stored bet has the key of the request.  *)
ConflictIsForeign ==
  [][\A r \in Requests :
       status[r] # 409 /\ status'[r] = 409 =>
         /\ \E o \in bets : SamePair(body[r], body[o])
         /\ \A o \in bets : ~ SameBet(body[r], body[o])]_vars

(* No request waits for ever in an index: waiting requests never form a    *)
(* cycle, and whoever is waited for ends.                                  *)
EveryRequestAnswered ==
  <>[](\A r \in Requests : phase[r] \in {"idle", "done"})

(* Seen from outside, a request is decided in one step, when its           *)
(* transaction ends.                                                       *)
Promise == INSTANCE IdempotentBets WITH
  seen   <- snapshot,
  stored <- bets,
  answer <- [r \in Requests |->
               [status |-> status[r],
                bet_id |-> IF status[r] = Unanswered THEN Null ELSE bet_id[r]]]

(* The handler implements the promise of module IdempotentBets.            *)
KeepsPromise == Promise!Spec

-----------------------------------------------------------------------------
(* THE INDUCTIVE INVARIANT                                                 *)

(* An entry of an index has one owner, open transactions included: the     *)
(* reason why there is one bet per key and per external id.                *)
KeysClaimedOnce ==
  \A a, b \in Requests :
    HoldsKey(a) /\ HoldsKey(b) /\ SameKey(body[a], body[b]) => a = b

PairsClaimedOnce ==
  \A a, b \in Requests :
    HoldsPair(a) /\ HoldsPair(b) /\ SamePair(body[a], body[b]) => a = b

(* What r knows and has answered, by where its handler is.                 *)
WellFormed(r) ==
  /\ phase[r] = "done" <=> status[r] # Unanswered
  /\ snapshot[r] \subseteq bets \ {r}
  /\ r \in bets => status[r] \in {201, 500}
  /\ phase[r] \in {"idle", "begun", "claimed", "inserted"} => bet_id[r] = Null
  /\ phase[r] \in {"claimed", "inserted"} => body[r].flaw \notin {"data", "check"}
  /\ phase[r] = "created" => bet_id[r] = r /\ body[r].flaw = "none"
  /\ phase[r] = "lookup" => body[r].writer = "create_bet"
  /\ phase[r] \in {"skipped", "lookup"} \/ status[r] = 200 =>
       /\ Known(r, bets) # {}
       /\ bet_id[r] \in Known(r, bets) \cup {Null}
  /\ status[r] = 200 /\ body[r].writer = "create_bet" => bet_id[r] # Null
  /\ status[r] = 201 => r \in bets /\ bet_id[r] = r
  /\ status[r] \in {400, 404, 409, 500} => bet_id[r] = Null

(* A bet that r can see keeps r out of the indexes and is what it answers. *)
ReplayIsForeseen(r) ==
  \A o \in Known(r, snapshot[r]) :
    /\ phase[r] \notin {"inserted", "created"}
    /\ phase[r] = "claimed" => ~ SameKey(body[r], body[o])
    /\ phase[r] = "skipped" /\ body[r].writer = "insert_bet_idempotent" => bet_id[r] = o
    /\ status[r] \in {Unanswered, 400, 500} \/ (status[r] = 200 /\ bet_id[r] = o)

(* Stronger than the invariants above, and preserved by every step.        *)
IInv ==
  /\ TypeOK
  /\ KeysClaimedOnce
  /\ PairsClaimedOnce
  /\ \A r \in Requests : WellFormed(r) /\ ReplayIsForeseen(r)

=============================================================================
