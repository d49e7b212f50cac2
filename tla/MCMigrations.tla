------------------------------ MODULE MCMigrations ------------------------------
(***************************************************************************)
(* Small instances of Migrations.                                          *)
(***************************************************************************)
EXTENDS Migrations

CONSTANTS m1, m2, m3, o1, q1, b1, b2, p1

(* A batch of odds, one of predictions, and bets that race each other.     *)
MCWrites ==
  [w \in Writers |-> CASE w = o1 -> "odds" [] w = q1 -> "predictions" [] OTHER -> "bets"]

(* A downgrade between two upgrades, or two downgrades.                    *)
MCDirections ==
  [m \in Runs |-> CASE m = m1 -> {"upgrade"} [] m = m2 -> {"downgrade"}
                    [] OTHER  -> {"upgrade", "downgrade"}]

MCOrigins == {"empty", "duplicates"} \cup {Revisions[i] : i \in DOMAIN Revisions}

=============================================================================
