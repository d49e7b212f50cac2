----------------------------- MODULE BetPayloads -----------------------------
(***************************************************************************)
(* The bodies of POST /bets, reduced to what decides the outcome of the    *)
(* request: the two unique indexes of core.bets and the constraints a      *)
(* validated body can still break.                                         *)
(*                                                                         *)
(* A key or an external id is a non-empty string, so a model value here;   *)
(* NoKey stands for an absent idempotency_key, NoPair for a body whose     *)
(* external_id or user_ref is absent: NULLs never collide in an index.     *)
(***************************************************************************)

CONSTANTS
  Requests,   \* the deliveries of POST /bets; a client's retry is another one
  Keys,       \* values of idempotency_key
  Pairs,      \* values of (user_ref, external_id)
  NoKey,
  NoPair,
  Null,       \* "no bet": bet_id null
  Payloads    \* the bodies clients send, and who serves them

(* What the database finds wrong with a body that passed validation.       *)
(*   "data"  a value its column cannot hold (stake of 13 digits)           *)
(*   "check" a CHECK fails (stake 0.001 is stored as 0.00)                 *)
(*   "fk"    the bookmaker or the selection does not exist                 *)
Flaws == {"none", "data", "check", "fk"}

(* The status of a request before its response.                            *)
Unanswered == 0

(* The two writers of crud/bets.py: while a release is rolled out, workers *)
(* of the one before still serve requests with the writer it replaced.     *)
Writers == {"insert_bet_idempotent", "create_bet"}

ASSUME PayloadsAssumption ==
  /\ Payloads \subseteq [key : Keys \cup {NoKey},
                         pair : Pairs \cup {NoPair},
                         flaw : Flaws,
                         writer : Writers]
  /\ Null \notin Requests

(* Rows that collide in uq_bets_idempotency_key.                           *)
SameKey(p, q) == p.key # NoKey /\ p.key = q.key

(* Rows that collide in uq_bets_user_external_id.                          *)
SamePair(p, q) == p.pair # NoPair /\ p.pair = q.pair

(* The pair index arbitrates only for create_bet, and only without a key.  *)
PairArbitrates(p) == p.writer = "create_bet" /\ p.key = NoKey

(* A stored row q that ON CONFLICT DO NOTHING takes for row p.             *)
SameBet(p, q) == SameKey(p, q) \/ (PairArbitrates(p) /\ SamePair(p, q))

=============================================================================
