---------------------------- MODULE BatchPayloads ----------------------------
(***************************************************************************)
(* The bodies of POST /odds and POST /predictions, reduced to what decides *)
(* their outcome: which unique keys the rows have, which row is newer, and *)
(* what a row that passed validation can still break.                      *)
(***************************************************************************)
EXTENDS Naturals, Sequences, FiniteSets

CONSTANTS
  Requests,   \* the deliveries of the two endpoints
  Keys,       \* values of the unique keys uq_odds_snapshot, uq_predictions_key
  Workloads   \* the bodies clients send, one for each delivery

Endpoints == {"odds", "predictions"}

(*   "reference" its bookmaker, model or selection does not exist          *)
(*   "check"     a CHECK fails (price 1.00001 is stored as 1.0000)         *)
(*   "data"      a value its column cannot hold (a price of 7 digits)      *)
Flaws == {"none", "reference", "check", "data"}

(* at: the predicted_at of a row; aware: it came with a time zone.  Of     *)
(* odds, captured_at is part of the key and these two say nothing.         *)
Rows == [key : Keys, at : Nat, aware : BOOLEAN, flaw : Flaws]

Batches == [endpoint : Endpoints, items : Seq(Rows)]

(* The two tables have no key in common, so one map holds the rows of both *)
(* as long as a workload does not use a key for both.                      *)
ASSUME BatchesAssumption ==
  /\ IsFiniteSet(Keys)
  /\ Workloads \subseteq [Requests -> Batches]
  /\ \A w \in Workloads : \A r, s \in Requests :
       w[r].endpoint # w[s].endpoint =>
         \A i \in DOMAIN w[r].items, j \in DOMAIN w[s].items :
           w[r].items[i].key # w[s].items[j].key

Mentioned(b) == {b.items[i].key : i \in DOMAIN b.items}

=============================================================================
