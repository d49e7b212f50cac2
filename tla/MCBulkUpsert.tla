----------------------------- MODULE MCBulkUpsert -----------------------------
(***************************************************************************)
(* A small instance of BulkUpsert.                                         *)
(*                                                                         *)
(* Three batches are needed for a cycle of waits that no two of them form. *)
(* The batches name keys in both orders and in rings, and repeat them with *)
(* older, equal and newer times; an older row that is dropped may have     *)
(* been one that the table would refuse.                                   *)
(***************************************************************************)
EXTENDS BulkUpsert

CONSTANTS a, b, c

Row(k, t) == [key |-> k, at |-> t, aware |-> TRUE, flaw |-> "none"]
Naive(k, t) == [Row(k, t) EXCEPT !.aware = FALSE]
Flawed(k, f) == [Row(k, 2) EXCEPT !.flaw = f]

MCKeys == {a, b, c}
MCRequests == 1 .. 3

PredictionItems ==
  << <<>>,
     <<Row(a, 1), Row(b, 1)>>,
     <<Row(b, 2), Row(a, 1)>>,
     <<Row(a, 1), Row(b, 2), Row(a, 2)>>,
     <<Row(b, 2), Row(a, 2), Row(b, 1), Row(a, 2)>>,
     <<Row(a, 1), Naive(a, 2)>>,
     <<Row(b, 1), Row(a, 1), Flawed(a, "check")>>,
     <<Row(a, 1), Flawed(b, "data")>>,
     <<Flawed(a, "data"), Row(b, 1), Row(a, 2)>>,
     <<Row(a, 1), Flawed(b, "reference")>> >>

(* Batches that form cycles of three, and one that repeats a key.          *)
OddsItems ==
  << <<Row(a, 1), Row(b, 1)>>,
     <<Row(b, 1), Row(c, 1)>>,
     <<Row(c, 1), Row(a, 1)>>,
     <<Row(a, 1), Row(c, 1), Row(a, 2)>>,
     <<Row(b, 1), Flawed(c, "check")>> >>

(* Requests of one endpoint.  Nothing else tells requests apart: a bag of  *)
(* bodies need be handed out to them in one way only.                      *)
Handed(endpoint, items) ==
  {[r \in MCRequests |-> [endpoint |-> endpoint, items |-> items[f[r]]]] :
     f \in {g \in [MCRequests -> DOMAIN items] : \A r \in 1 .. 2 : g[r] <= g[r + 1]}}

OddsWorkloads == Handed("odds", OddsItems)

MCWorkloads == OddsWorkloads \cup Handed("predictions", PredictionItems)

=============================================================================
