-------------------------------- MODULE MCBets --------------------------------
(***************************************************************************)
(* Small instances of Bets.                                                *)
(*                                                                         *)
(* Three deliveries are the creator, a replay that races it and one that   *)
(* clashes with either.  The bodies are chosen so that every flaw occurs,  *)
(* so that the same key comes with different external ids and the same     *)
(* external id with different keys and with none, and so that the two      *)
(* writers meet.                                                           *)
(***************************************************************************)
EXTENDS Bets

CONSTANTS k1, k2, x1, x2

Row(k, x, f) == [key |-> k, pair |-> x, flaw |-> f, writer |-> "insert_bet_idempotent"]
Older(k, x, f) == [Row(k, x, f) EXCEPT !.writer = "create_bet"]

MCKeys == {k1, k2}
MCPairs == {x1, x2}

MCPayloads == {Row(k1, x1, "none"), Row(k1, x2, "none"), Row(k2, x1, "none"),
               Row(NoKey, x1, "none"), Row(k1, x1, "fk"),
               Row(k1, NoPair, "check"), Row(NoKey, NoPair, "data"),
               Older(k1, x1, "none"), Older(NoKey, x1, "none"), Older(NoKey, x1, "fk")}

(* Only the writer of today.                                               *)
MCNewPayloads == {p \in MCPayloads : p.writer = "insert_bet_idempotent"}

=============================================================================
