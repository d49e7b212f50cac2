------------------------------ MODULE BetsProofs ------------------------------
(***************************************************************************)
(* Proofs about Bets, for any number of requests, keys and external ids,   *)
(* and for any mix of the two writers.                                     *)
(***************************************************************************)
EXTENDS Bets, TLAPS

(* A request knows at most one committed bet: the indexes make the LIMIT 1 *)
(* of the selects deterministic.                                           *)
LEMMA KnownIsUnique ==
  ASSUME KeysClaimedOnce, PairsClaimedOnce, bets \in SUBSET Requests,
         NEW r \in Requests, NEW a \in Known(r, bets), NEW b \in Known(r, bets)
  PROVE  a = b
<1>1. a \in bets /\ b \in bets /\ HoldsKey(a) /\ HoldsKey(b) /\ HoldsPair(a) /\ HoldsPair(b)
  BY DEF Known, HoldsKey, HoldsPair
<1>2. SameBet(body[r], body[a]) /\ SameBet(body[r], body[b])
  BY DEF Known
<1>3. SameKey(body[a], body[b]) \/ SamePair(body[a], body[b])
  BY <1>2 DEF SameBet, SameKey, SamePair, PairArbitrates
<1>4. QED
  BY <1>1, <1>3 DEF KeysClaimedOnce, PairsClaimedOnce

(* Type correctness of the database and of the handlers.                   *)
THEOREM TypeInvariant == Spec => []TypeOK
<1>1. Init => TypeOK
  BY DEF Init, TypeOK, Phases, Statuses
<1>2. TypeOK /\ [Next]_vars => TypeOK'
  <2> SUFFICES ASSUME TypeOK, [Next]_vars PROVE TypeOK'
    OBVIOUS
  <2> USE DEF TypeOK, Phases, Statuses
  <2>1. ASSUME NEW r \in Requests, Execute(r) PROVE TypeOK'
    BY <2>1 DEF Execute, Goto
  <2>2. ASSUME NEW r \in Requests, RejectRow(r) PROVE TypeOK'
    BY <2>2 DEF RejectRow, Answer, Goto
  <2>3. ASSUME NEW r \in Requests, ClaimKey(r) PROVE TypeOK'
    BY <2>3 DEF ClaimKey, Goto
  <2>4. ASSUME NEW r \in Requests, Skip(r) PROVE TypeOK'
    BY <2>4 DEF Skip, Goto, FirstOf, Known
  <2>5. ASSUME NEW r \in Requests, ClaimPair(r) PROVE TypeOK'
    BY <2>5 DEF ClaimPair, Goto
  <2>6. ASSUME NEW r \in Requests, UniqueViolation(r) PROVE TypeOK'
    BY <2>6 DEF UniqueViolation, Answer, Goto
  <2>7. ASSUME NEW r \in Requests, ForeignKeyViolation(r) PROVE TypeOK'
    BY <2>7 DEF ForeignKeyViolation, Answer, Goto
  <2>8. ASSUME NEW r \in Requests, Returning(r) PROVE TypeOK'
    BY <2>8 DEF Returning, Goto
  <2>9. ASSUME NEW r \in Requests, CommitCreated(r) PROVE TypeOK'
    BY <2>9 DEF CommitCreated, Answer, Goto
  <2>10. ASSUME NEW r \in Requests, CommitSkipped(r) PROVE TypeOK'
    BY <2>10 DEF CommitSkipped, Answer, Goto
  <2>11. ASSUME NEW r \in Requests, Lookup(r) PROVE TypeOK'
    BY <2>11 DEF Lookup, Answer, Goto, FirstOf, Known
  <2>12. ASSUME NEW r \in Requests, Fail(r) PROVE TypeOK'
    BY <2>12 DEF Fail, Answer, Goto
  <2>13. ASSUME NEW r \in Requests, CommitUnacknowledged(r) PROVE TypeOK'
    BY <2>13 DEF CommitUnacknowledged, Answer, Goto
  <2>14. CASE UNCHANGED vars
    BY <2>14 DEF vars
  <2> QED
    BY <2>1, <2>2, <2>3, <2>4, <2>5, <2>6, <2>7, <2>8, <2>9, <2>10, <2>11,
       <2>12, <2>13, <2>14 DEF Next, Step, KeyConflict, PairConflict, Quiescent
<1>3. QED
  BY <1>1, <1>2, PTL DEF Spec

(* A step of r leaves alone what is said of another request, even if r's   *)
(* bet is committed: snapshots do not move and the stored bets only grow.  *)
LEMMA OthersKeep ==
  ASSUME TypeOK, NEW r \in Requests, NEW x \in Requests, x # r,
         bets' \in {bets, bets \cup {r}},
         body' = body, snapshot'[x] = snapshot[x],
         phase'[x] = phase[x], bet_id'[x] = bet_id[x], status'[x] = status[x],
         WellFormed(x), ReplayIsForeseen(x)
  PROVE  WellFormed(x)' /\ ReplayIsForeseen(x)'
<1>1. Known(x, bets) \subseteq Known(x, bets)'
  BY DEF Known
<1>2. Known(x, snapshot[x])' = Known(x, snapshot[x])
  BY DEF Known
<1>3. WellFormed(x)'
  <2>1. snapshot'[x] \subseteq bets' \ {x}
    BY DEF WellFormed
  <2>2. x \in bets' <=> x \in bets
    OBVIOUS
  <2> QED
    BY <1>1, <2>1, <2>2 DEF WellFormed
<1>4. ReplayIsForeseen(x)'
  BY <1>2 DEF ReplayIsForeseen
<1> QED
  BY <1>3, <1>4

(* No step that enters no index can break the ownership of the entries.    *)
LEMMA NoNewEntries ==
  ASSUME KeysClaimedOnce, PairsClaimedOnce, body' = body,
         \A x \in Requests : (HoldsKey(x)' => HoldsKey(x)) /\ (HoldsPair(x)' => HoldsPair(x))
  PROVE  KeysClaimedOnce' /\ PairsClaimedOnce'
BY DEF KeysClaimedOnce, PairsClaimedOnce

LEMMA InitIInv == Init => IInv
<1> SUFFICES ASSUME Init PROVE IInv
  OBVIOUS
<1>1. TypeOK
  BY DEF Init, TypeOK, Phases, Statuses
<1>2. KeysClaimedOnce /\ PairsClaimedOnce
  BY DEF Init, KeysClaimedOnce, PairsClaimedOnce, HoldsKey, HoldsPair
<1>3. ASSUME NEW r \in Requests PROVE WellFormed(r) /\ ReplayIsForeseen(r)
  BY <1>3 DEF Init, WellFormed, ReplayIsForeseen, Known, Unanswered
<1> QED
  BY <1>1, <1>2, <1>3 DEF IInv

(* The steps of a handler, one at a time.                                  *)
LEMMA ExecuteKeeps ==
  ASSUME IInv, TypeOK', NEW r \in Requests, Execute(r)
  PROVE  IInv'
<1> USE DEF TypeOK, Execute, Goto
<1>1. KeysClaimedOnce' /\ PairsClaimedOnce'
  BY NoNewEntries DEF IInv, HoldsKey, HoldsPair
<1>2. ASSUME NEW x \in Requests, x # r PROVE WellFormed(x)' /\ ReplayIsForeseen(x)'
  BY <1>2, OthersKeep DEF IInv
<1>3. WellFormed(r)'
  BY DEF IInv, WellFormed, Unanswered
<1>4. ReplayIsForeseen(r)'
  BY DEF IInv, WellFormed, ReplayIsForeseen
<1> QED
  BY <1>1, <1>2, <1>3, <1>4 DEF IInv

LEMMA RejectRowKeeps ==
  ASSUME IInv, TypeOK', NEW r \in Requests, RejectRow(r)
  PROVE  IInv'
<1> USE DEF TypeOK, RejectRow, Answer, Goto
<1>1. KeysClaimedOnce' /\ PairsClaimedOnce'
  BY NoNewEntries DEF IInv, HoldsKey, HoldsPair
<1>2. ASSUME NEW x \in Requests, x # r PROVE WellFormed(x)' /\ ReplayIsForeseen(x)'
  BY <1>2, OthersKeep DEF IInv
<1>3. WellFormed(r)'
  BY DEF IInv, WellFormed, Unanswered
<1>4. ReplayIsForeseen(r)'
  BY DEF IInv, ReplayIsForeseen, Known
<1> QED
  BY <1>1, <1>2, <1>3, <1>4 DEF IInv

LEMMA ClaimKeyKeeps ==
  ASSUME IInv, TypeOK', NEW r \in Requests, ClaimKey(r)
  PROVE  IInv'
<1> USE DEF TypeOK, ClaimKey, ValidRow, Goto
<1>1. KeysClaimedOnce'
  <2>1. ASSUME NEW x \in Requests, x # r PROVE HoldsKey(x)' <=> HoldsKey(x)
    BY <2>1 DEF HoldsKey
  <2>2. ASSUME NEW x \in Requests, x # r, HoldsKey(x)
        PROVE  ~ SameKey(body[r], body[x]) /\ ~ SameKey(body[x], body[r])
    BY <2>2 DEF KeyRivals, SameKey
  <2> QED
    BY <2>1, <2>2 DEF IInv, KeysClaimedOnce
<1>2. PairsClaimedOnce'
  BY DEF IInv, PairsClaimedOnce, HoldsPair
<1>3. ASSUME NEW x \in Requests, x # r PROVE WellFormed(x)' /\ ReplayIsForeseen(x)'
  BY <1>3, OthersKeep DEF IInv
<1>4. WellFormed(r)'
  BY DEF IInv, WellFormed, Unanswered
<1>5. ReplayIsForeseen(r)'
  <2>1. Known(r, snapshot[r])' = Known(r, snapshot[r])
    BY DEF Known
  <2>2. ASSUME NEW o \in Known(r, snapshot[r]) PROVE ~ SameKey(body[r], body[o])
    <3>1. o \in bets \ {r}
      BY DEF IInv, WellFormed, Known
    <3> QED
      BY <3>1 DEF KeyRivals, HoldsKey
  <2> QED
    BY <2>1, <2>2 DEF IInv, ReplayIsForeseen
<1> QED
  BY <1>1, <1>2, <1>3, <1>4, <1>5 DEF IInv

(* Both reasons to skip: the committed row is one that r knows now, and,   *)
(* for insert_bet_idempotent, the snapshot holds it or nothing.            *)
LEMMA SkipKeeps ==
  ASSUME IInv, TypeOK', NEW r \in Requests, Skip(r),
         phase[r] \in {"begun", "claimed"}, Known(r, bets) # {}
  PROVE  IInv'
<1> USE DEF TypeOK, Skip, Goto
<1>1. KeysClaimedOnce' /\ PairsClaimedOnce'
  BY NoNewEntries DEF IInv, HoldsKey, HoldsPair
<1>2. ASSUME NEW x \in Requests, x # r PROVE WellFormed(x)' /\ ReplayIsForeseen(x)'
  <2>1. bet_id'[x] = bet_id[x]
    BY <1>2
  <2> QED
    BY <1>2, <2>1, OthersKeep DEF IInv
<1>3. Known(r, snapshot[r])' = Known(r, snapshot[r]) /\ Known(r, bets)' = Known(r, bets)
  BY DEF Known
<1>4. Known(r, snapshot[r]) \subseteq Known(r, bets)
  BY DEF IInv, WellFormed, Known
<1>5. WellFormed(r) /\ r \notin bets /\ bet_id[r] = Null /\ status[r] = Unanswered
  BY DEF IInv, WellFormed, Unanswered
<1>6. bet_id'[r] \in Known(r, bets) \cup {Null}
  BY <1>4, <1>5 DEF FirstOf
<1>7. WellFormed(r)'
  BY <1>3, <1>5, <1>6 DEF WellFormed, Unanswered
<1>8. ReplayIsForeseen(r)'
  <2>1. ASSUME NEW o \in Known(r, snapshot[r]), body[r].writer = "insert_bet_idempotent"
        PROVE  bet_id'[r] = o
    <3>1. PICK b \in Known(r, snapshot[r]) : bet_id'[r] = b
      BY <2>1 DEF FirstOf
    <3> QED
      BY <1>4, <3>1, KnownIsUnique DEF IInv
  <2> QED
    BY <1>3, <1>5, <2>1 DEF ReplayIsForeseen
<1> QED
  BY <1>1, <1>2, <1>7, <1>8 DEF IInv

LEMMA ConflictsKeep ==
  ASSUME IInv, TypeOK', NEW r \in Requests, KeyConflict(r) \/ PairConflict(r)
  PROVE  IInv'
<1>1. Known(r, bets) # {}
  BY DEF KeyConflict, PairConflict, PairTaken, KeyRivals, PairRivals, Known, SameBet
<1>2. Skip(r) /\ phase[r] \in {"begun", "claimed"}
  BY DEF KeyConflict, PairConflict, ValidRow, PairTaken
<1> QED
  BY <1>1, <1>2, SkipKeeps

LEMMA ClaimPairKeeps ==
  ASSUME IInv, TypeOK', NEW r \in Requests, ClaimPair(r)
  PROVE  IInv'
<1> USE DEF TypeOK, ClaimPair, Goto
<1>1. PairsClaimedOnce'
  <2>1. ASSUME NEW x \in Requests, x # r PROVE HoldsPair(x)' <=> HoldsPair(x)
    BY <2>1 DEF HoldsPair
  <2>2. ASSUME NEW x \in Requests, x # r, HoldsPair(x)
        PROVE  ~ SamePair(body[r], body[x]) /\ ~ SamePair(body[x], body[r])
    BY <2>2 DEF PairRivals, SamePair
  <2> QED
    BY <2>1, <2>2 DEF IInv, PairsClaimedOnce
<1>2. KeysClaimedOnce'
  <2>1. ASSUME NEW x \in Requests PROVE HoldsKey(x)' => HoldsKey(x)
    BY <2>1 DEF HoldsKey
  <2> QED
    BY <2>1 DEF IInv, KeysClaimedOnce
<1>3. ASSUME NEW x \in Requests, x # r PROVE WellFormed(x)' /\ ReplayIsForeseen(x)'
  BY <1>3, OthersKeep DEF IInv
<1>4. WellFormed(r)'
  BY DEF IInv, WellFormed, Unanswered
<1>5. ReplayIsForeseen(r)'
  <2>1. Known(r, snapshot[r]) = {}
    <3>1. SUFFICES ASSUME NEW o \in Known(r, snapshot[r]) PROVE FALSE
      OBVIOUS
    <3>2. o \in bets \ {r} /\ SameBet(body[r], body[o])
      BY DEF IInv, WellFormed, Known
    <3>3. ~ SameKey(body[r], body[o])
      BY DEF IInv, ReplayIsForeseen
    <3>4. ~ SamePair(body[r], body[o])
      BY <3>2 DEF PairRivals, HoldsPair
    <3> QED
      BY <3>2, <3>3, <3>4 DEF SameBet
  <2> QED
    BY <2>1 DEF ReplayIsForeseen, Known
<1> QED
  BY <1>1, <1>2, <1>3, <1>4, <1>5 DEF IInv

(* A request that can see a bet it repeats meets neither of the errors     *)
(* 409 and 404.                                                            *)
LEMMA ErrorsKeep ==
  ASSUME IInv, TypeOK', NEW r \in Requests, UniqueViolation(r) \/ ForeignKeyViolation(r)
  PROVE  IInv'
<1> USE DEF TypeOK, UniqueViolation, ForeignKeyViolation, Answer, Goto
<1>1. KeysClaimedOnce' /\ PairsClaimedOnce'
  BY NoNewEntries DEF IInv, HoldsKey, HoldsPair
<1>2. ASSUME NEW x \in Requests, x # r PROVE WellFormed(x)' /\ ReplayIsForeseen(x)'
  BY <1>2, OthersKeep DEF IInv
<1>3. WellFormed(r)'
  BY DEF IInv, WellFormed, PairTaken, Unanswered
<1>4. ReplayIsForeseen(r)'
  <2>1. Known(r, snapshot[r]) = {}
    <3>1. SUFFICES ASSUME NEW o \in Known(r, snapshot[r]) PROVE FALSE
      OBVIOUS
    <3>2. SameBet(body[r], body[o]) /\ phase[r] = "claimed" /\ ~ PairArbitrates(body[r])
      BY DEF IInv, ReplayIsForeseen, Known, PairTaken
    <3> QED
      BY <3>2 DEF IInv, ReplayIsForeseen, SameBet
  <2> QED
    BY <2>1 DEF ReplayIsForeseen, Known
<1> QED
  BY <1>1, <1>2, <1>3, <1>4 DEF IInv

LEMMA ReturningKeeps ==
  ASSUME IInv, TypeOK', NEW r \in Requests, Returning(r)
  PROVE  IInv'
<1> USE DEF TypeOK, Returning, Goto
<1>1. KeysClaimedOnce' /\ PairsClaimedOnce'
  BY NoNewEntries DEF IInv, HoldsKey, HoldsPair
<1>2. ASSUME NEW x \in Requests, x # r PROVE WellFormed(x)' /\ ReplayIsForeseen(x)'
  BY <1>2, OthersKeep DEF IInv
<1>3. WellFormed(r)'
  <2>1. body[r] \in Payloads /\ body[r].flaw = "none"
    BY PayloadsAssumption DEF IInv, WellFormed, Flaws
  <2> QED
    BY <2>1 DEF IInv, WellFormed, Unanswered
<1>4. ReplayIsForeseen(r)'
  BY DEF IInv, ReplayIsForeseen, Known
<1> QED
  BY <1>1, <1>2, <1>3, <1>4 DEF IInv

(* The commit makes an entry permanent; its owner does not change.         *)
LEMMA CommitsKeep ==
  ASSUME IInv, TypeOK', NEW r \in Requests, CommitCreated(r) \/ CommitUnacknowledged(r)
  PROVE  IInv'
<1> USE DEF TypeOK, CommitCreated, CommitUnacknowledged, Answer, Goto
<1>1. KeysClaimedOnce' /\ PairsClaimedOnce'
  BY NoNewEntries DEF IInv, HoldsKey, HoldsPair
<1>2. ASSUME NEW x \in Requests, x # r PROVE WellFormed(x)' /\ ReplayIsForeseen(x)'
  BY <1>2, OthersKeep DEF IInv
<1>3. WellFormed(r)'
  BY DEF IInv, WellFormed, Unanswered
<1>4. ReplayIsForeseen(r)'
  BY DEF IInv, ReplayIsForeseen, Known
<1> QED
  BY <1>1, <1>2, <1>3, <1>4 DEF IInv

LEMMA CommitSkippedKeeps ==
  ASSUME IInv, TypeOK', NEW r \in Requests, CommitSkipped(r)
  PROVE  IInv'
<1> USE DEF TypeOK, CommitSkipped, Answer, Goto
<1>1. KeysClaimedOnce' /\ PairsClaimedOnce'
  BY NoNewEntries DEF IInv, HoldsKey, HoldsPair
<1>2. ASSUME NEW x \in Requests, x # r PROVE WellFormed(x)' /\ ReplayIsForeseen(x)'
  BY <1>2, OthersKeep DEF IInv
<1>3. WellFormed(r)'
  BY PayloadsAssumption DEF IInv, WellFormed, Known, Unanswered, Writers
<1>4. ReplayIsForeseen(r)'
  BY DEF IInv, ReplayIsForeseen, Known, Unanswered, WellFormed
<1> QED
  BY <1>1, <1>2, <1>3, <1>4 DEF IInv

LEMMA LookupKeeps ==
  ASSUME IInv, TypeOK', NEW r \in Requests, Lookup(r)
  PROVE  IInv'
<1> USE DEF TypeOK, Lookup, Answer, Goto
<1>1. KeysClaimedOnce' /\ PairsClaimedOnce'
  BY NoNewEntries DEF IInv, HoldsKey, HoldsPair
<1>2. ASSUME NEW x \in Requests, x # r PROVE WellFormed(x)' /\ ReplayIsForeseen(x)'
  <2>1. bet_id'[x] = bet_id[x]
    BY <1>2
  <2> QED
    BY <1>2, <2>1, OthersKeep DEF IInv
<1>3. bet_id'[r] \in Known(r, bets)
  BY DEF IInv, WellFormed, FirstOf
<1>4. Known(r, bets)' = Known(r, bets) /\ Known(r, snapshot[r])' = Known(r, snapshot[r])
  BY DEF Known
<1>5. WellFormed(r)'
  BY <1>3, <1>4, PayloadsAssumption DEF IInv, WellFormed, Unanswered, Known
<1>6. ReplayIsForeseen(r)'
  <2>1. ASSUME NEW o \in Known(r, snapshot[r]) PROVE bet_id'[r] = o
    <3>1. o \in Known(r, bets)
      BY DEF IInv, WellFormed, Known
    <3> QED
      BY <1>3, <3>1, KnownIsUnique DEF IInv
  <2> QED
    BY <1>4, <2>1 DEF ReplayIsForeseen
<1> QED
  BY <1>1, <1>2, <1>5, <1>6 DEF IInv

LEMMA FailKeeps ==
  ASSUME IInv, TypeOK', NEW r \in Requests, Fail(r)
  PROVE  IInv'
<1> USE DEF TypeOK, Fail, Answer, Goto
<1>1. KeysClaimedOnce' /\ PairsClaimedOnce'
  BY NoNewEntries DEF IInv, HoldsKey, HoldsPair
<1>2. ASSUME NEW x \in Requests, x # r PROVE WellFormed(x)' /\ ReplayIsForeseen(x)'
  BY <1>2, OthersKeep DEF IInv
<1>3. WellFormed(r)'
  BY DEF IInv, WellFormed, Unanswered
<1>4. ReplayIsForeseen(r)'
  BY DEF IInv, ReplayIsForeseen, Known
<1> QED
  BY <1>1, <1>2, <1>3, <1>4 DEF IInv

(* The inductive invariant holds in every behaviour.                       *)
THEOREM InductiveInvariant == Spec => []IInv
<1>1. IInv /\ TypeOK' /\ [Next]_vars => IInv'
  <2> SUFFICES ASSUME IInv, TypeOK', [Next]_vars PROVE IInv'
    OBVIOUS
  <2>1. CASE UNCHANGED vars
    BY <2>1 DEF vars, IInv, TypeOK, KeysClaimedOnce, PairsClaimedOnce, HoldsKey, HoldsPair,
                WellFormed, ReplayIsForeseen, Known
  <2>2. CASE \E r \in Requests : Execute(r) \/ Fail(r) \/ CommitUnacknowledged(r)
    BY <2>2, ExecuteKeeps, FailKeeps, CommitsKeep
  <2>3. CASE \E r \in Requests : Step(r)
    BY <2>3, RejectRowKeeps, ClaimKeyKeeps, ConflictsKeep, ClaimPairKeeps, ErrorsKeep,
       ReturningKeeps, CommitsKeep, CommitSkippedKeeps, LookupKeeps DEF Step
  <2> QED
    BY <2>1, <2>2, <2>3 DEF Next, Quiescent
<1>2. QED
  BY <1>1, InitIInv, TypeInvariant, PTL DEF Spec

-----------------------------------------------------------------------------
(* The safety properties of Bets.                                          *)

(* One stored bet per idempotency key and per external id, whatever the    *)
(* number of concurrent deliveries and failures.                           *)
THEOREM AtMostOnce == Spec => []OneBetPerKey
<1>1. IInv => OneBetPerKey
  BY DEF IInv, TypeOK, KeysClaimedOnce, PairsClaimedOnce, HoldsKey, HoldsPair,
         OneBetPerKey
<1>2. QED
  BY <1>1, InductiveInvariant, PTL

(* Every response agrees with core.bets, for ever.                         *)
THEOREM ResponsesAgree == Spec => []ResponseMatchesTable
<1>1. IInv => ResponseMatchesTable
  <2> SUFFICES ASSUME IInv, NEW r \in Requests
               PROVE  /\ status[r] = 201 => r \in bets /\ bet_id[r] = r
                      /\ status[r] = 200 =>
                           /\ r \notin bets
                           /\ bet_id[r] # Null => bet_id[r] \in Known(r, bets)
                      /\ status[r] \in {400, 404, 409} => r \notin bets
    BY DEF ResponseMatchesTable
  <2> QED
    BY DEF IInv, WellFormed
<1>2. QED
  BY <1>1, InductiveInvariant, PTL

(* A delivery that begins when its bet is stored is answered with that     *)
(* bet.                                                                    *)
THEOREM ReplaysAreRecognised == Spec => []ReplayOfStoredBet
<1>1. IInv => ReplayOfStoredBet
  BY DEF IInv, ReplayIsForeseen, ReplayOfStoredBet
<1>2. QED
  BY <1>1, InductiveInvariant, PTL

(* Only a delivery that raced the creation of its bet can be answered      *)
(* without an id.                                                          *)
THEOREM NullMeansRace == Spec => []NullOnlyInRace
<1>1. IInv => NullOnlyInRace
  <2> SUFFICES ASSUME IInv, NEW r \in Requests, status[r] = 200, bet_id[r] = Null
               PROVE  /\ body[r].writer = "insert_bet_idempotent"
                      /\ Known(r, bets \ snapshot[r]) # {}
    BY DEF NullOnlyInRace
  <2>0. body[r].writer = "insert_bet_idempotent"
    BY PayloadsAssumption DEF IInv, TypeOK, WellFormed, Writers
  <2>1. PICK o \in Known(r, bets) : TRUE
    BY DEF IInv, WellFormed
  <2>2. o \in bets /\ o # Null
    BY PayloadsAssumption DEF IInv, TypeOK, Known
  <2>3. o \notin snapshot[r]
    BY <2>1, <2>2 DEF IInv, ReplayIsForeseen, Known, Unanswered
  <2> QED
    BY <2>0, <2>1, <2>2, <2>3 DEF Known
<1>2. QED
  BY <1>1, InductiveInvariant, PTL

(* A 409 is always about somebody else's bet.                              *)
THEOREM ConflictsAreForeign == Spec => ConflictIsForeign
<1> DEFINE Foreign == \A r \in Requests :
                        status[r] # 409 /\ status'[r] = 409 =>
                          /\ \E o \in bets : SamePair(body[r], body[o])
                          /\ \A o \in bets : ~ SameBet(body[r], body[o])
<1>1. IInv /\ [Next]_vars => [Foreign]_vars
  <2> SUFFICES ASSUME IInv, Next, NEW r \in Requests, status[r] # 409, status'[r] = 409
               PROVE  /\ \E o \in bets : SamePair(body[r], body[o])
                      /\ \A o \in bets : ~ SameBet(body[r], body[o])
    OBVIOUS
  <2>1. UniqueViolation(r)
    BY DEF IInv, TypeOK, Next, Step, Execute, RejectRow, ClaimKey, KeyConflict, Skip, ClaimPair,
           PairConflict, UniqueViolation, ForeignKeyViolation, Returning, CommitCreated,
           CommitSkipped, Lookup, Fail, CommitUnacknowledged, Quiescent, vars, Answer, Goto
  <2>2. PairRivals(r) \cap bets # {} /\ phase[r] = "claimed" /\ ~ PairArbitrates(body[r])
    BY <2>1 DEF UniqueViolation, PairTaken
  <2>3. \E o \in bets : SamePair(body[r], body[o])
    BY <2>2 DEF PairRivals
  <2>4. ASSUME NEW o \in bets PROVE ~ SameKey(body[r], body[o])
    <3>1. o # r
      BY <2>2 DEF IInv, WellFormed, Unanswered
    <3>2. HoldsKey(r) /\ HoldsKey(o) /\ o \in Requests
      BY <2>2 DEF HoldsKey, IInv, TypeOK
    <3> QED
      BY <3>1, <3>2 DEF IInv, KeysClaimedOnce
  <2> QED
    BY <2>2, <2>3, <2>4 DEF SameBet
<1>2. QED
  BY <1>1, InductiveInvariant, PTL DEF Spec, ConflictIsForeign

-----------------------------------------------------------------------------
(* REFINEMENT: Bets implements IdempotentBets.                             *)

Answers ==
  [x \in Requests |-> [status |-> status[x],
                       bet_id |-> IF status[x] = Unanswered THEN Null ELSE bet_id[x]]]

(* The step that answers r is the one step that shows outside.             *)
LEMMA AnswerShows ==
  ASSUME TypeOK, TypeOK', NEW r \in Requests, NEW code \in Statuses \ {Unanswered}, Answer(r, code),
         NEW b, bet_id'[r] = b,
         \A x \in Requests : x # r => bet_id'[x] = bet_id[x]
  PROVE  Answers' = [Answers EXCEPT ![r] = [status |-> code, bet_id |-> b]]
BY DEF Answers, Answer, TypeOK

(* A step that answers nobody does not show.                               *)
LEMMA OtherStepsHide ==
  ASSUME TypeOK, TypeOK', UNCHANGED status,
         \A x \in Requests : status[x] # Unanswered => bet_id'[x] = bet_id[x]
  PROVE  Answers' = Answers
BY DEF Answers, TypeOK

(* The promise and the handler mean the same by the same words.            *)
LEMMA SameWords ==
  /\ Promise!Unanswered = Unanswered
  /\ \A p, q : /\ Promise!SameKey(p, q) <=> SameKey(p, q)
               /\ Promise!SamePair(p, q) <=> SamePair(p, q)
  /\ \A r, S : Promise!Known(r, S) = Known(r, S)
BY DEF Promise!Unanswered, Unanswered, Promise!SameKey, SameKey, Promise!SamePair, SamePair,
       Promise!Known, Known, Promise!SameBet, SameBet, Promise!PairArbitrates, PairArbitrates

(* Each step of a handler is a step of the promise or none at all.         *)
LEMMA StepRefines ==
  ASSUME IInv, TypeOK', NEW r \in Requests,
         Execute(r) \/ Step(r) \/ Fail(r) \/ CommitUnacknowledged(r)
  PROVE  Promise!Next \/ UNCHANGED Promise!vars
<1>0. phase[r] # "done" => status[r] = Unanswered
  BY DEF IInv, TypeOK, WellFormed
<1>1. CASE Execute(r)
  <2>1. Answers' = Answers
    BY <1>1, OtherStepsHide DEF Execute, IInv, TypeOK
  <2>2. Promise!Submit(r)
    BY <1>0, <1>1, <2>1, SameWords DEF Promise!Submit, Execute, Answers
  <2> QED
    BY <2>2 DEF Promise!Next
<1>2. CASE RejectRow(r)
  <2>1. PICK code \in {400, 500} : Answer(r, code) /\ (code = 400 => body[r].flaw = "check")
    BY <1>2 DEF RejectRow
  <2>2. Answers' = [Answers EXCEPT ![r] = [status |-> code, bet_id |-> Null]]
    BY <1>2, <2>1, AnswerShows DEF RejectRow, IInv, TypeOK, WellFormed, Statuses, Unanswered
  <2>3. Promise!Decide(r, Promise!Answer(code, Null))
    <3>1. status[r] = Unanswered
      BY <1>0, <1>2 DEF RejectRow
    <3> QED
      BY <3>1, <2>2, SameWords DEF Promise!Decide, Promise!Answer, Answers
  <2>4. Promise!Refuse(r)
    BY <1>2, <2>1, <2>3 DEF Promise!Refuse, RejectRow
  <2> QED
    BY <2>4 DEF Promise!Next
<1>3. CASE ClaimKey(r) \/ ClaimPair(r) \/ Returning(r)
  <2>1. Answers' = Answers
    BY <1>0, <1>3, OtherStepsHide DEF ClaimKey, ValidRow, ClaimPair, Returning, IInv, TypeOK
  <2> QED
    BY <1>3, <2>1 DEF ClaimKey, ClaimPair, Returning, Promise!vars, Answers
<1>4. CASE KeyConflict(r) \/ PairConflict(r)
  <2>1. Skip(r) /\ phase[r] # "done"
    BY <1>4 DEF KeyConflict, PairConflict, ValidRow, PairTaken
  <2>2. Answers' = Answers
    BY <1>0, <2>1, OtherStepsHide DEF Skip, IInv, TypeOK
  <2> QED
    BY <2>1, <2>2 DEF Skip, Promise!vars, Answers
<1>5. CASE UniqueViolation(r)
  <2>1. Answers' = [Answers EXCEPT ![r] = [status |-> 409, bet_id |-> Null]]
    BY <1>5, AnswerShows DEF UniqueViolation, PairTaken, IInv, TypeOK, WellFormed, Statuses, Unanswered
  <2>2. Known(r, snapshot[r]) = {}
    BY <1>5 DEF UniqueViolation, PairTaken, IInv, TypeOK, ReplayIsForeseen, Known, SameBet
  <2>3. \E o \in bets : SamePair(body[r], body[o])
    BY <1>5 DEF UniqueViolation, PairTaken, PairRivals
  <2>4. Promise!Decide(r, Promise!Answer(409, Null))
    <3>1. status[r] = Unanswered
      BY <1>0, <1>5 DEF UniqueViolation, PairTaken
    <3> QED
      BY <3>1, <2>1, SameWords DEF Promise!Decide, Promise!Answer, Answers
  <2>5. Promise!Conflict(r)
    <3>1. UNCHANGED <<body, snapshot, bets>>
      BY <1>5 DEF UniqueViolation
    <3>2. \E o \in bets : Promise!SamePair(body[r], body[o])
      BY <2>3, SameWords
    <3>3. Promise!Known(r, snapshot[r]) = {}
      BY <2>2, SameWords
    <3> QED
      BY <2>4, <3>1, <3>2, <3>3 DEF Promise!Conflict
  <2> QED
    BY <2>5 DEF Promise!Next
<1>6. CASE ForeignKeyViolation(r)
  <2>1. Answers' = [Answers EXCEPT ![r] = [status |-> 404, bet_id |-> Null]]
    BY <1>6, AnswerShows DEF ForeignKeyViolation, IInv, TypeOK, WellFormed, Statuses, Unanswered
  <2>2. Known(r, snapshot[r]) = {}
    BY <1>6 DEF ForeignKeyViolation, IInv, TypeOK, ReplayIsForeseen
  <2>3. Promise!Decide(r, Promise!Answer(404, Null))
    <3>1. status[r] = Unanswered
      BY <1>0, <1>6 DEF ForeignKeyViolation
    <3> QED
      BY <3>1, <2>1, SameWords DEF Promise!Decide, Promise!Answer, Answers
  <2>4. Promise!Refuse(r)
    BY <1>6, <2>2, <2>3, SameWords DEF Promise!Refuse, ForeignKeyViolation
  <2> QED
    BY <2>4 DEF Promise!Next
<1>7. CASE CommitCreated(r) \/ CommitUnacknowledged(r)
  <2>2. phase[r] = "created" /\ body' = body /\ snapshot' = snapshot /\ bets' = bets \cup {r}
    BY <1>7 DEF CommitCreated, CommitUnacknowledged
  <2>3. body[r].flaw = "none" /\ r \notin bets /\ status[r] = Unanswered
    BY <1>0, <2>2 DEF IInv, WellFormed, Unanswered
  <2>4. ASSUME NEW o \in bets
        PROVE  ~ SameKey(body[r], body[o]) /\ ~ SamePair(body[r], body[o])
    BY <2>2, <2>3 DEF IInv, TypeOK, KeysClaimedOnce, PairsClaimedOnce, HoldsKey, HoldsPair
  <2>5. Promise!Decide(r, Promise!Answer(201, r)) \/ Promise!Decide(r, Promise!Answer(500, Null))
    <3>1. CASE CommitCreated(r)
      <4>1. Answers' = [Answers EXCEPT ![r] = [status |-> 201, bet_id |-> r]]
        BY <3>1, AnswerShows DEF CommitCreated, IInv, TypeOK, WellFormed, Statuses, Unanswered
      <4> QED
        BY <2>3, <4>1, SameWords DEF Promise!Decide, Promise!Answer, Answers
    <3>2. CASE CommitUnacknowledged(r)
      <4>1. Answers' = [Answers EXCEPT ![r] = [status |-> 500, bet_id |-> Null]]
        BY <3>2, AnswerShows DEF CommitUnacknowledged, IInv, TypeOK, Statuses, Unanswered
      <4> QED
        BY <2>3, <4>1, SameWords DEF Promise!Decide, Promise!Answer, Answers
    <3> QED
      BY <1>7, <3>1, <3>2
  <2>6. Promise!Create(r)
    <3>1. \A o \in bets : ~ Promise!SameKey(body[r], body[o]) /\ ~ Promise!SamePair(body[r], body[o])
      BY <2>4, SameWords
    <3> QED
      BY <2>2, <2>3, <2>5, <3>1 DEF Promise!Create
  <2> QED
    BY <2>6 DEF Promise!Next
<1>8. CASE CommitSkipped(r)
  <2>1. CASE body[r].writer # "insert_bet_idempotent"
    <3>1. Answers' = Answers
      BY <1>8, <2>1, OtherStepsHide DEF CommitSkipped, IInv, TypeOK
    <3> QED
      BY <1>8, <2>1, <3>1 DEF CommitSkipped, Promise!vars, Answers
  <2>2. CASE body[r].writer = "insert_bet_idempotent"
    <3>1. Answers' = [Answers EXCEPT ![r] = [status |-> 200, bet_id |-> bet_id[r]]]
      BY <1>8, <2>2, AnswerShows DEF CommitSkipped, IInv, TypeOK, Statuses, Unanswered
    <3>2. Known(r, bets) # {} /\ bet_id[r] \in Known(r, bets) \cup {Null}
      BY <1>8 DEF CommitSkipped, IInv, TypeOK, WellFormed
    <3>3. bet_id[r] = Null => Known(r, snapshot[r]) = {}
      BY <1>8, <2>2, PayloadsAssumption
         DEF CommitSkipped, IInv, TypeOK, WellFormed, ReplayIsForeseen, Known
    <3>4. CASE bet_id[r] = Null
      <4>1. status[r] = Unanswered /\ UNCHANGED <<body, snapshot, bets>>
        BY <1>0, <1>8 DEF CommitSkipped
      <4>2. Promise!Decide(r, Promise!Answer(200, Null))
        BY <3>1, <3>4, <4>1, SameWords DEF Promise!Decide, Promise!Answer, Answers
      <4>3. Promise!Known(r, bets) # {} /\ Promise!Known(r, snapshot[r]) = {}
        BY <3>2, <3>3, <3>4, SameWords
      <4>4. Promise!BlindReplay(r)
        BY <4>1, <4>2, <4>3 DEF Promise!BlindReplay
      <4> QED
        BY <4>4 DEF Promise!Next
    <3>5. CASE bet_id[r] \in Known(r, bets)
      <4>1. PICK b \in Known(r, bets) : bet_id[r] = b
        BY <3>5
      <4>2. status[r] = Unanswered
        BY <1>0, <1>8 DEF CommitSkipped
      <4>3. Promise!Decide(r, Promise!Answer(200, b))
        BY <3>1, <4>1, <4>2, SameWords DEF Promise!Decide, Promise!Answer, Answers
      <4>4. Promise!Replay(r)
        BY <1>8, <4>1, <4>3, SameWords DEF Promise!Replay, CommitSkipped
      <4> QED
        BY <4>4 DEF Promise!Next
    <3> QED
      BY <3>2, <3>4, <3>5
  <2> QED
    BY <2>1, <2>2
<1>9. CASE Lookup(r)
  <2>1. PICK b \in Known(r, bets) : bet_id' = [bet_id EXCEPT ![r] = b]
    <3>1. Known(r, bets) # {}
      BY <1>9 DEF Lookup, IInv, TypeOK, WellFormed
    <3>2. FirstOf(Known(r, bets)) = Known(r, bets)
      BY <3>1 DEF FirstOf
    <3> QED
      BY <1>9, <3>2, Zenon DEF Lookup
  <2>2. Answers' = [Answers EXCEPT ![r] = [status |-> 200, bet_id |-> b]]
    BY <1>9, <2>1, AnswerShows DEF Lookup, IInv, TypeOK, Statuses, Unanswered
  <2>3. Promise!Decide(r, Promise!Answer(200, b))
    <3>1. status[r] = Unanswered
      BY <1>0, <1>9 DEF Lookup
    <3> QED
      BY <3>1, <2>2, SameWords DEF Promise!Decide, Promise!Answer, Answers
  <2>4. Promise!Replay(r)
    BY <1>9, <2>1, <2>3, SameWords DEF Promise!Replay, Lookup
  <2> QED
    BY <2>4 DEF Promise!Next
<1>10. CASE Fail(r)
  <2>1. Answers' = [Answers EXCEPT ![r] = [status |-> 500, bet_id |-> Null]]
    BY <1>10, AnswerShows DEF Fail, IInv, TypeOK, Statuses, Unanswered
  <2>2. Promise!Decide(r, Promise!Answer(500, Null))
    <3>1. status[r] = Unanswered
      BY <1>0, <1>10 DEF Fail
    <3> QED
      BY <3>1, <2>1, SameWords DEF Promise!Decide, Promise!Answer, Answers
  <2>3. Promise!Refuse(r)
    BY <1>10, <2>2 DEF Promise!Refuse, Fail
  <2> QED
    BY <2>3 DEF Promise!Next
<1> QED
  BY <1>1, <1>2, <1>3, <1>4, <1>5, <1>6, <1>7, <1>8, <1>9, <1>10 DEF Step

(* Bets implements IdempotentBets: each request takes effect in one atomic *)
(* step, whatever the interleaving of the transactions behind it.          *)
THEOREM Refinement == Spec => KeepsPromise
<1>1. Init => Promise!Init
  BY SameWords DEF Init, Promise!Init, Promise!Answer
<1>2. IInv /\ TypeOK' /\ [Next]_vars => [Promise!Next]_(Promise!vars)
  <2> SUFFICES ASSUME IInv, TypeOK', [Next]_vars
               PROVE  Promise!Next \/ UNCHANGED Promise!vars
    OBVIOUS
  <2>1. CASE UNCHANGED vars
    BY <2>1 DEF vars, Promise!vars
  <2>2. CASE \E r \in Requests :
               Execute(r) \/ Step(r) \/ Fail(r) \/ CommitUnacknowledged(r)
    BY <2>2, StepRefines
  <2> QED
    BY <2>1, <2>2 DEF Next, Quiescent
<1>3. QED
  BY <1>1, <1>2, InductiveInvariant, TypeInvariant, PTL DEF Spec, KeepsPromise, Promise!Spec

=============================================================================
