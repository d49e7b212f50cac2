------------------------------ MODULE SchemaProofs ------------------------------
(***************************************************************************)
(* Proofs about Migrations, continued: the committed schema is what the    *)
(* revision in alembic_version stands for, a database that /readyz has     *)
(* vouched for has the arbiters of the writers, a run fails only with a    *)
(* cause, and what a writer has looked up is there until it is done.       *)
(***************************************************************************)
EXTENDS MigrationsProofs

-----------------------------------------------------------------------------
(* THE SCRIPTS                                                             *)

(* Tail under a name of its own, which the provers leave alone.            *)
Rest(script) == Tail(script)

(* What is left of a script when k of its first three steps are done.      *)
Remainder(script, k) ==
  CASE k = 0 -> script
    [] k = 1 -> Rest(script)
    [] k = 2 -> Rest(Rest(script))
    [] k = 3 -> Rest(Rest(Rest(script)))

(* What is left of upgrade head when k statements of revision j are done,  *)
(* and what is left of the downgrade from revision j (nothing, from the    *)
(* base) when k of its statements are done.                                *)
RestOfUpgrade(j, k) == Remainder(Plan("upgrade", j - 1), k)
RestOfDowngrade(j, k) == Remainder(Plan("downgrade", j), k)

(* What the revisions leave behind, spelled out.                           *)
LEMMA Catalogue ==
  /\ ObjectsOf(0) = {}
  /\ ObjectsOf(1) = {"tables", "readiness"}
  /\ ObjectsOf(2) = {"tables", "readiness", "uq_odds_snapshot", "idx_bets_open_only"}
  /\ ObjectsOf(3) = Objects
<1> DEFINE Name(p) == Upgrade(p[1])[p[2]].object
<1>1. HeadRevision = 3
  BY DEF HeadRevision, Revisions
<1>2. ASSUME NEW i \in 0..3
      PROVE  ObjectsOf(i) = {Name(<<a, b>>) : a \in 1..i, b \in {1, 2}}
  <2>1. ObjectsOf(i) \subseteq {Name(<<a, b>>) : a \in 1..i, b \in {1, 2}}
    <3> SUFFICES ASSUME NEW p \in (1..3) \X {1, 2}, p[1] <= i
                 PROVE  Name(p) \in {Name(<<a, b>>) : a \in 1..i, b \in {1, 2}}
      BY <1>1 DEF ObjectsOf
    <3>1. p = <<p[1], p[2]>> /\ p[1] \in 1..i /\ p[2] \in {1, 2}
      OBVIOUS
    <3> QED
      BY <3>1
  <2>2. {Name(<<a, b>>) : a \in 1..i, b \in {1, 2}} \subseteq ObjectsOf(i)
    <3> SUFFICES ASSUME NEW a \in 1..i, NEW b \in {1, 2}
                 PROVE  Name(<<a, b>>) \in ObjectsOf(i)
      OBVIOUS
    <3>1. <<a, b>> \in (1..3) \X {1, 2} /\ <<a, b>>[1] <= i
      OBVIOUS
    <3> QED
      BY <1>1, <3>1 DEF ObjectsOf
  <2> QED
    BY <2>1, <2>2
<1>3. /\ Name(<<1, 1>>) = "tables" /\ Name(<<1, 2>>) = "readiness"
      /\ Name(<<2, 1>>) = "uq_odds_snapshot" /\ Name(<<2, 2>>) = "idx_bets_open_only"
      /\ Name(<<3, 1>>) = "uq_bets_user_external_id" /\ Name(<<3, 2>>) = "idx_bets_placed_at"
  BY DEF Upgrade, Statement
<1> HIDE DEF Name
<1>4. ObjectsOf(0) = {}
  BY <1>2
<1>5. ObjectsOf(1) = {"tables", "readiness"}
  BY <1>2, <1>3
<1>6. ObjectsOf(2) = {"tables", "readiness", "uq_odds_snapshot", "idx_bets_open_only"}
  <2>1. 1..2 = {1, 2}
    OBVIOUS
  <2> QED
    BY <1>2, <1>3, <2>1
<1>7. ObjectsOf(3) = Objects
  <2>1. 1..3 = {1, 2, 3}
    OBVIOUS
  <2> QED
    BY <1>2, <1>3, <2>1 DEF Objects
<1> QED
  BY <1>4, <1>5, <1>6, <1>7

(* A script of three steps, then others.                                   *)
Script(x, y, z, others) == Append(<<x, y>>, z) \o others

(* The script p gives up x, y and z one after the other, then the others.  *)
Unrolls(p, x, y, z, others) ==
  /\ \A k \in 0..2 : Remainder(p, k) # << >>
  /\ Head(Remainder(p, 0)) = x /\ Head(Remainder(p, 1)) = y
  /\ Head(Remainder(p, 2)) = z
  /\ \A k \in 0..2 : Tail(Remainder(p, k)) = Remainder(p, k + 1)
  /\ Remainder(p, 0) = p /\ Remainder(p, 3) = others

(* A script of three steps does that.                                      *)
LEMMA ThreeSteps ==
  ASSUME NEW x \in Statements, NEW y \in Statements, NEW z \in Statements,
         NEW q \in Seq(Statements)
  PROVE  Unrolls(Script(x, y, z, q), x, y, z, q)
<1> DEFINE p == Script(x, y, z, q)
<1> DEFINE r == Append(<<x, y>>, z)
<1>1. r \in Seq(Statements) /\ Len(r) = 3 /\ r[1] = x /\ r[2] = y /\ r[3] = z
  OBVIOUS
<1>2. p = r \o q
  BY DEF Script
<1> HIDE DEF r, p
<1>3. Len(q) \in Nat
  BY LenProperties
<1>4. /\ p \in Seq(Statements) /\ Len(p) = 3 + Len(q)
      /\ \A i \in 1..3 + Len(q) : p[i] = IF i <= 3 THEN r[i] ELSE q[i - 3]
  <2>1. /\ r \o q \in Seq(Statements) /\ Len(r \o q) = Len(r) + Len(q)
        /\ \A i \in 1..Len(r) + Len(q) : (r \o q)[i] = IF i <= Len(r) THEN r[i] ELSE q[i - Len(r)]
    BY <1>1, ConcatProperties
  <2> QED
    BY <1>1, <1>2, <2>1
<1> DEFINE t == Tail(p)
           u == Tail(t)
           v == Tail(u)
<1>5. p # << >>
  BY <1>3, <1>4
<1>6. /\ t \in Seq(Statements) /\ Len(t) = 2 + Len(q) /\ Head(p) = p[1]
      /\ \A i \in 1..2 + Len(q) : t[i] = p[i + 1]
  BY <1>3, <1>4, <1>5, HeadTailProperties
<1> HIDE DEF t
<1>7. t # << >>
  BY <1>3, <1>6
<1>8. /\ u \in Seq(Statements) /\ Len(u) = 1 + Len(q) /\ Head(t) = t[1]
      /\ \A i \in 1..1 + Len(q) : u[i] = t[i + 1]
  BY <1>3, <1>6, <1>7, HeadTailProperties
<1> HIDE DEF u
<1>9. u # << >>
  BY <1>3, <1>8
<1>10. /\ v \in Seq(Statements) /\ Len(v) = Len(q) /\ Head(u) = u[1]
       /\ \A i \in 1..Len(q) : v[i] = u[i + 1]
  BY <1>3, <1>8, <1>9, HeadTailProperties
<1> HIDE DEF v
<1>11. \A i \in 1..Len(q) : v[i] = q[i]
  <2> SUFFICES ASSUME NEW i \in 1..Len(q) PROVE v[i] = q[i]
    OBVIOUS
  <2>1. i + 1 \in 1..1 + Len(q) /\ i + 2 \in 1..2 + Len(q) /\ i + 3 \in 1..3 + Len(q)
    BY <1>3
  <2>2. v[i] = u[i + 1]
    BY <1>10
  <2>3. u[i + 1] = t[i + 2]
    BY <1>8, <2>1
  <2>4. t[i + 2] = p[i + 3]
    BY <1>6, <2>1
  <2>5. p[i + 3] = q[i]
    <3>1. ~(i + 3 <= 3) /\ i + 3 - 3 = i
      BY <1>3
    <3> QED
      BY <1>4, <2>1, <3>1
  <2> QED
    BY <2>2, <2>3, <2>4, <2>5
<1>12. v = q
  BY <1>10, <1>11, SeqEqual
<1>13. Head(p) = x /\ Head(t) = y /\ Head(u) = z
  <2>1. t[1] = p[2] /\ u[1] = p[3]
    <3>1. 1 \in 1..1 + Len(q) /\ 1 \in 1..2 + Len(q) /\ 2 \in 1..2 + Len(q)
      BY <1>3
    <3> QED
      BY <1>6, <1>8, <3>1
  <2>2. p[1] = r[1] /\ p[2] = r[2] /\ p[3] = r[3]
    <3>1. {1, 2, 3} \subseteq 1..3 + Len(q)
      BY <1>3
    <3> QED
      BY <1>4, <3>1
  <2> QED
    BY <1>1, <1>6, <1>8, <1>10, <2>1, <2>2
<1>14. /\ Remainder(p, 0) = p /\ Remainder(p, 1) = Rest(p)
       /\ Remainder(p, 2) = Rest(Rest(p)) /\ Remainder(p, 3) = Rest(Rest(Rest(p)))
  BY DEF Remainder
<1>15. Tail(p) = t /\ Tail(t) = u /\ Tail(u) = v /\ Rest(p) = t /\ Rest(t) = u /\ Rest(u) = v
  BY Zenon DEF Rest, t, u, v
<1>16. /\ Remainder(p, 0) = p /\ Remainder(p, 1) = t
       /\ Remainder(p, 2) = u /\ Remainder(p, 3) = v
  BY <1>14, <1>15, Zenon
<1>17. ASSUME NEW k \in 0..2
       PROVE  Remainder(p, k) # << >> /\ Tail(Remainder(p, k)) = Remainder(p, k + 1)
  <2>1. /\ Remainder(p, 0) # << >> /\ Tail(Remainder(p, 0)) = Remainder(p, 1)
        /\ Remainder(p, 1) # << >> /\ Tail(Remainder(p, 1)) = Remainder(p, 2)
        /\ Remainder(p, 2) # << >> /\ Tail(Remainder(p, 2)) = Remainder(p, 3)
    BY <1>5, <1>7, <1>9, <1>15, <1>16, Zenon
  <2>2. k = 0 \/ k = 1 \/ k = 2
    OBVIOUS
  <2>3. 0 + 1 = 1 /\ 1 + 1 = 2 /\ 2 + 1 = 3
    OBVIOUS
  <2> QED
    BY <2>1, <2>2, <2>3, Zenon
<1> QED
  BY <1>12, <1>13, <1>16, <1>17, Zenon DEF Unrolls, p

(* The statements of a revision.                                           *)
LEMMA TwoStatements ==
  ASSUME NEW j \in 1..3
  PROVE  /\ Upgrade(j) = <<Upgrade(j)[1], Upgrade(j)[2]>>
         /\ Downgrade(j) = <<Downgrade(j)[1], Downgrade(j)[2]>>
         /\ \A k \in {1, 2} : Upgrade(j)[k] \in Statements /\ Downgrade(j)[k] \in Statements
<1>1. PICK x, y, v, w : Upgrade(j) = <<x, y>> /\ Downgrade(j) = <<v, w>>
  BY DEF Upgrade, Downgrade
<1>2. \A k \in {1, 2} : <<j, k>> \in Steps
  BY DEF Steps
<1>3. \A k \in {1, 2} : Upgrade(j)[k] \in Statements /\ Downgrade(j)[k] \in Statements
  BY <1>2 DEF Statements
<1> QED
  BY <1>1, <1>3

(* The next statement of an upgrade, and what is left after it.            *)
LEMMA UpgradeScript ==
  /\ \A j \in 1..4 : Plan("upgrade", j - 1) = RestOfUpgrade(j, 0)
  /\ RestOfUpgrade(4, 0) = << >>
  /\ \A j \in 1..3, k \in 0..2 :
       /\ RestOfUpgrade(j, k) # << >>
       /\ Head(RestOfUpgrade(j, k)) = IF k < 2 THEN Upgrade(j)[k + 1] ELSE Stamp(j)
       /\ Tail(RestOfUpgrade(j, k))
            = IF k < 2 THEN RestOfUpgrade(j, k + 1) ELSE RestOfUpgrade(j + 1, 0)
<1> DEFINE Part(j) == Append(Upgrade(j), Stamp(j))
           none == << >>
<1>1. /\ Plan("upgrade", 0) = Part(1) \o Part(2) \o Part(3)
      /\ Plan("upgrade", 1) = none \o Part(2) \o Part(3)
      /\ Plan("upgrade", 2) = none \o none \o Part(3)
      /\ Plan("upgrade", 3) = none \o none \o none
  BY DEF Plan
<1>2. \A j \in 1..3 : Part(j) \in Seq(Statements)
  <2> SUFFICES ASSUME NEW j \in 1..3 PROVE Part(j) \in Seq(Statements)
    OBVIOUS
  <2>1. Upgrade(j) \in Seq(Statements)
    <3>1. \A x, y \in Statements : <<x, y>> \in Seq(Statements)
      OBVIOUS
    <3> QED
      BY <3>1, TwoStatements
  <2>2. Stamp(j) \in Statements
    BY DEF Statements
  <2> QED
    BY <2>1, <2>2
<1>3. \A j \in 1..3 : Part(j) = Append(<<Upgrade(j)[1], Upgrade(j)[2]>>, Stamp(j))
  BY TwoStatements
<1>4. none \in Seq(Statements)
  OBVIOUS
<1> HIDE DEF Part
<1>5. ASSUME NEW s \in Seq(Statements)
      PROVE  none \o s = s /\ s \o none = s
  BY ConcatEmptySeq
<1> HIDE DEF none
<1>6. /\ Plan("upgrade", 3) = none
      /\ Plan("upgrade", 2) = Part(3) \o Plan("upgrade", 3)
      /\ Plan("upgrade", 1) = Part(2) \o Plan("upgrade", 2)
      /\ Plan("upgrade", 0) = Part(1) \o Plan("upgrade", 1)
  <2>1. none \o none = none /\ none \o Part(2) = Part(2) /\ none \o Part(3) = Part(3)
        /\ Part(3) \o none = Part(3)
    <3>1. Part(2) \in Seq(Statements) /\ Part(3) \in Seq(Statements)
      BY <1>2
    <3> QED
      BY <1>4, <1>5, <3>1
  <2>2. (Part(1) \o Part(2)) \o Part(3) = Part(1) \o (Part(2) \o Part(3))
    <3>1. Part(1) \in Seq(Statements) /\ Part(2) \in Seq(Statements) /\ Part(3) \in Seq(Statements)
      BY <1>2
    <3> QED
      BY <3>1, ConcatAssociative
  <2> QED
    BY <1>1, <2>1, <2>2, Zenon
<1>7. \A j \in 1..3 : Plan("upgrade", j) \in Seq(Statements)
  BY PlanTypes
<1>8. ASSUME NEW j \in 1..3
      PROVE  Plan("upgrade", j - 1)
               = Script(Upgrade(j)[1], Upgrade(j)[2], Stamp(j), Plan("upgrade", j))
  <2>1. Plan("upgrade", j - 1) = Part(j) \o Plan("upgrade", j)
    <3>1. CASE j = 1
      <4>1. j - 1 = 0
        BY <3>1
      <4> QED
        BY <1>6, <3>1, <4>1, Zenon
    <3>2. CASE j = 2
      <4>1. j - 1 = 1
        BY <3>2
      <4> QED
        BY <1>6, <3>2, <4>1, Zenon
    <3>3. CASE j = 3
      <4>1. j - 1 = 2
        BY <3>3
      <4> QED
        BY <1>6, <3>3, <4>1, Zenon
    <3> QED
      BY <3>1, <3>2, <3>3
  <2> QED
    BY <1>3, <2>1, Zenon DEF Script
<1>9. \A j \in 1..4 : Plan("upgrade", j - 1) = RestOfUpgrade(j, 0)
  BY DEF RestOfUpgrade, Remainder
<1>10. ASSUME NEW j \in 1..3, NEW k \in 0..2
       PROVE  /\ RestOfUpgrade(j, k) # << >>
              /\ Head(RestOfUpgrade(j, k)) = IF k < 2 THEN Upgrade(j)[k + 1] ELSE Stamp(j)
              /\ Tail(RestOfUpgrade(j, k))
                   = IF k < 2 THEN RestOfUpgrade(j, k + 1) ELSE RestOfUpgrade(j + 1, 0)
  <2>1. Upgrade(j)[1] \in Statements /\ Upgrade(j)[2] \in Statements /\ Stamp(j) \in Statements
    BY TwoStatements DEF Statements
  <2> DEFINE p == Plan("upgrade", j - 1)
  <2>2. /\ Remainder(p, k) # << >>
        /\ Head(Remainder(p, 0)) = Upgrade(j)[1] /\ Head(Remainder(p, 1)) = Upgrade(j)[2]
        /\ Head(Remainder(p, 2)) = Stamp(j)
        /\ Tail(Remainder(p, k)) = Remainder(p, k + 1)
        /\ Remainder(p, 3) = Plan("upgrade", j)
    <3>1. p = Script(Upgrade(j)[1], Upgrade(j)[2], Stamp(j), Plan("upgrade", j))
          /\ Plan("upgrade", j) \in Seq(Statements)
      BY <1>7, <1>8
    <3>2. Unrolls(p, Upgrade(j)[1], Upgrade(j)[2], Stamp(j), Plan("upgrade", j))
      BY <2>1, <3>1, ThreeSteps
    <3> HIDE DEF p
    <3> QED
      BY <3>2 DEF Unrolls
  <2>3. \A i : RestOfUpgrade(j, i) = Remainder(p, i)
    BY DEF RestOfUpgrade
  <2> HIDE DEF p
  <2>4. RestOfUpgrade(j + 1, 0) = Plan("upgrade", j)
    <3>1. j + 1 \in 1..4 /\ j + 1 - 1 = j
      OBVIOUS
    <3> QED
      BY <1>9, <3>1
  <2>5. k = 0 \/ k = 1 \/ k = 2
    OBVIOUS
  <2> QED
    BY <2>2, <2>3, <2>4, <2>5
<1>11. RestOfUpgrade(4, 0) = << >>
  <2>1. 4 \in 1..4 /\ 4 - 1 = 3
    OBVIOUS
  <2> QED
    BY <1>6, <1>9, <2>1 DEF none
<1> QED
  BY <1>9, <1>10, <1>11

(* The next statement of a downgrade, and what is left after it.           *)
LEMMA DowngradeScript ==
  /\ \A j \in 0..3 : Plan("downgrade", j) = RestOfDowngrade(j, 0)
  /\ RestOfDowngrade(0, 0) = << >>
  /\ \A j \in 1..3 : RestOfDowngrade(j, 3) = << >>
  /\ \A j \in 1..3, k \in 0..2 :
       /\ RestOfDowngrade(j, k) # << >>
       /\ Head(RestOfDowngrade(j, k)) = IF k < 2 THEN Downgrade(j)[k + 1] ELSE Stamp(j - 1)
       /\ Tail(RestOfDowngrade(j, k)) = RestOfDowngrade(j, k + 1)
<1>1. \A j \in 0..3 : Plan("downgrade", j) = RestOfDowngrade(j, 0)
  BY DEF RestOfDowngrade, Remainder
<1>2. Plan("downgrade", 0) = << >>
  BY DEF Plan
<1> DEFINE none == << >>
<1>3. none \in Seq(Statements)
  OBVIOUS
<1> HIDE DEF none
<1>4. ASSUME NEW j \in 1..3
      PROVE  Plan("downgrade", j)
               = Script(Downgrade(j)[1], Downgrade(j)[2], Stamp(j - 1), none)
             /\ Stamp(j - 1) \in Statements
  <2> DEFINE q == Append(<<Downgrade(j)[1], Downgrade(j)[2]>>, Stamp(j - 1))
  <2>1. Downgrade(j)[1] \in Statements /\ Downgrade(j)[2] \in Statements
    BY TwoStatements
  <2>2. Stamp(j - 1) \in Statements
    <3>1. j - 1 \in 0..3
      OBVIOUS
    <3> QED
      BY <3>1 DEF Statements
  <2>3. q \in Seq(Statements)
    BY <2>1, <2>2
  <2>4. Plan("downgrade", j) = Append(Downgrade(j), Stamp(j - 1))
    BY DEF Plan
  <2>5. Plan("downgrade", j) = q
    BY <2>4, TwoStatements, Zenon
  <2> HIDE DEF q
  <2>6. q \o none = q
    BY <2>3, ConcatEmptySeq DEF none
  <2> QED
    BY <2>2, <2>5, <2>6, Zenon DEF q, Script
<1>5. ASSUME NEW j \in 1..3, NEW k \in 0..2
      PROVE  /\ RestOfDowngrade(j, k) # << >>
             /\ Head(RestOfDowngrade(j, k)) = IF k < 2 THEN Downgrade(j)[k + 1] ELSE Stamp(j - 1)
             /\ Tail(RestOfDowngrade(j, k)) = RestOfDowngrade(j, k + 1)
             /\ RestOfDowngrade(j, 3) = none
  <2>1. Downgrade(j)[1] \in Statements /\ Downgrade(j)[2] \in Statements
    BY TwoStatements
  <2> DEFINE p == Plan("downgrade", j)
  <2>2. /\ Remainder(p, k) # << >>
        /\ Head(Remainder(p, 0)) = Downgrade(j)[1] /\ Head(Remainder(p, 1)) = Downgrade(j)[2]
        /\ Head(Remainder(p, 2)) = Stamp(j - 1)
        /\ Tail(Remainder(p, k)) = Remainder(p, k + 1)
        /\ Remainder(p, 3) = none
    <3>1. /\ p = Script(Downgrade(j)[1], Downgrade(j)[2], Stamp(j - 1), none)
          /\ Stamp(j - 1) \in Statements
      BY <1>4
    <3>2. Unrolls(p, Downgrade(j)[1], Downgrade(j)[2], Stamp(j - 1), none)
      BY <1>3, <2>1, <3>1, ThreeSteps
    <3> HIDE DEF p
    <3> QED
      BY <3>2 DEF Unrolls
  <2>3. \A i : RestOfDowngrade(j, i) = Remainder(p, i)
    BY DEF RestOfDowngrade
  <2> HIDE DEF p
  <2>4. k = 0 \/ k = 1 \/ k = 2
    OBVIOUS
  <2> QED
    BY <2>2, <2>3, <2>4
<1>6. \A j \in 1..3 : RestOfDowngrade(j, 3) = none
  <2>1. 0 \in 0..2
    OBVIOUS
  <2> QED
    BY <1>5, <2>1
<1>7. RestOfDowngrade(0, 0) = << >>
  <2>1. 0 \in 0..3
    OBVIOUS
  <2> QED
    BY <1>1, <1>2, <2>1
<1>8. \A j \in 1..3 : RestOfDowngrade(j, 3) = << >>
  BY <1>6 DEF none
<1> QED
  BY <1>1, <1>5, <1>7, <1>8

-----------------------------------------------------------------------------
(* THE INVARIANT                                                           *)

(* Databases that alembic has known from the start.                        *)
KnownFromTheStart == "V1" \notin Origins

(* What a downgrade that has lost a race leaves behind.                    *)
Extras == ObjectsOf(3) \ ObjectsOf(2)

(* What k statements of the upgrade to revision j make, and of the         *)
(* downgrade from it drop.                                                 *)
Made(j, k) == {Upgrade(j)[i].object : i \in 1..k}
Gone(j, k) == {Downgrade(j)[i].object : i \in {1, 2} \cap (1..k)}

(* An upgrade has made k objects of revision j.  Until its first stamp     *)
(* nothing vouches for the revisions below but that it has read them, and  *)
(* after it the row of alembic_version is its own.                         *)
Upgrading(m, j, k) ==
  /\ j = 4 => k = 0
  /\ run[m].plan = RestOfUpgrade(j, k)
  /\ run[m].version = j - 1
  /\ run[m].dropped = {}
  /\ run[m].created \subseteq ObjectsOf(j - 1) \cup Made(j, k)
  /\ Made(j, k) \subseteq run[m].created \cup objects
  /\ j < 3 => Made(j, k) \subseteq run[m].created
  /\ run[m].stamped => /\ Current < j - 1
                       /\ ObjectsOf(j - 1) \subseteq run[m].created \cup objects
  /\ ~run[m].stamped => /\ run[m].created \subseteq Made(j, k)
                        /\ k = 0 => run[m].locks = {}
                        /\ k > 0 /\ j = 3 => <<"bets", "share">> \in run[m].locks
                        /\ m \notin overtaken => Current = j - 1

(* A downgrade has dropped k objects of revision j (3: and has stamped),   *)
(* but for those that it had not to find.                                  *)
Downgrading(m, j, k) ==
  /\ j = 0 => k = 0
  /\ run[m].plan = RestOfDowngrade(j, k)
  /\ run[m].version = IF k = 3 THEN j - 1 ELSE j
  /\ run[m].stamped <=> k = 3
  /\ run[m].created = {}
  /\ k = 3 \/ m \notin overtaken => Current = j
  /\ k = 0 => run[m].dropped = {} /\ run[m].locks = {}
  /\ j > 1 => run[m].dropped \subseteq Gone(j, k)
  /\ j = 2 => Gone(j, k) \subseteq run[m].dropped
  /\ j = 1 /\ k < 2 => run[m].dropped \subseteq {"readiness"}
  /\ j = 1 /\ k > 1 => "tables" \in run[m].dropped
  /\ run[m].locks # {} => <<"bets", "exclusive">> \in run[m].locks
  /\ m \notin overtaken /\ k > 0 => Gone(j, k) \cap Seen(m) = {}

(* A running run is somewhere in the script of its direction.              *)
Underway(m) ==
  \/ /\ run[m].direction = "upgrade"
     /\ \E j \in 1..4, k \in 0..2 : Upgrading(m, j, k)
  \/ /\ run[m].direction = "downgrade"
     /\ \E j \in 0..3, k \in 0..3 : Downgrading(m, j, k)

(* A run that does not run holds nothing.                                  *)
Ended(m) ==
  run[m].locks = {} /\ run[m].created = {} /\ run[m].dropped = {} /\ ~run[m].stamped

(* The indexes and constraints of the later revisions, and the table of    *)
(* each.                                                                   *)
Indexes == ObjectsOf(3) \ ObjectsOf(1)
TableOf(o) == IF o = "uq_odds_snapshot" THEN "odds" ELSE "bets"

(* Uncommitted changes are covered by locks, and by names of the catalog.  *)
Covered(m) ==
  /\ \A o \in Indexes :
       /\ o \in run[m].created =>
            \E mode \in {"share", "exclusive"} : <<TableOf(o), mode>> \in run[m].locks
       /\ o \in run[m].dropped => <<TableOf(o), "exclusive">> \in run[m].locks
  /\ "uq_odds_snapshot" \in run[m].created => <<"odds", "exclusive">> \in run[m].locks
  /\ "tables" \in run[m].dropped =>
       /\ \A t \in Lockable : <<t, "exclusive">> \in run[m].locks
       /\ "tables" \in objects /\ objects \subseteq run[m].dropped
  /\ run[m].created \cap objects = {}
  /\ "readiness" \in run[m].created => "tables" \in run[m].created

(* Two runs hold no locks that exclude each other, create no object both,  *)
(* and do not both change the row of alembic_version.                      *)
Apart(m, n) ==
  /\ \A t \in Lockable, mode \in {"share", "exclusive"} :
       <<t, "exclusive">> \in run[m].locks => <<t, mode>> \notin run[n].locks
  /\ run[m].created \cap run[n].created = {}
  /\ ~(run[m].stamped /\ run[n].stamped)

(* What the runs are doing, each on its own and any two of them.           *)
RunsInv ==
  \A m \in Runs :
    /\ IF Running(m) THEN Underway(m) ELSE Ended(m)
    /\ Covered(m)
    /\ \A n \in Others(m) : Apart(m, n)

(* What the revision promises is there; no more is there, unless a         *)
(* downgrade has lost a race.                                              *)
LostRace == \E m \in overtaken : run[m].phase = "done"
SchemaInv ==
  /\ overtaken \subseteq Runs
  /\ ObjectsOf(Current) \subseteq objects
  /\ KnownFromTheStart =>
       /\ objects \subseteq ObjectsOf(Current) \cup Extras
       /\ objects = ObjectsOf(Current) \/ LostRace

(* READYZ_STRICT_MIGRATIONS, and the head revision to expect.              *)
HeadIsExpected == Expected = HeadRevision /\ Strict

(* What an open transaction of a writer has locked is there.               *)
HeldIsThere ==
  \A w \in Writers : Held(w) # {} => "tables" \in objects

WholeInv ==
  /\ IInv /\ RunsInv /\ SchemaInv /\ HeldIsThere
  /\ HeadIsExpected => ReadyMeansArbiters

-----------------------------------------------------------------------------
(* WHAT STATEMENTS DO                                                      *)

(* Made and Gone, spelled out.                                             *)
LEMMA MadeAndGone ==
  /\ \A j : Made(j, 0) = {} /\ Gone(j, 0) = {} /\ Gone(j, 3) = Gone(j, 2)
  /\ \A j : /\ Made(j, 1) = {Upgrade(j)[1].object}
            /\ Made(j, 2) = {Upgrade(j)[1].object, Upgrade(j)[2].object}
            /\ Gone(j, 1) = {Downgrade(j)[1].object}
            /\ Gone(j, 2) = {Downgrade(j)[1].object, Downgrade(j)[2].object}
<1>1. /\ 1..0 = {} /\ 1..1 = {1} /\ 1..2 = {1, 2} /\ 1..3 = {1, 2, 3}
  OBVIOUS
<1>2. /\ {1, 2} \cap (1..0) = {} /\ {1, 2} \cap (1..1) = {1}
      /\ {1, 2} \cap (1..2) = {1, 2} /\ {1, 2} \cap (1..3) = {1, 2}
  OBVIOUS
<1> QED
  BY <1>1, <1>2 DEF Made, Gone

(* What the statements of the upgrades create, and under which lock.       *)
LEMMA UpgradeStatements ==
  /\ \A j \in 1..3, i \in {1, 2} :
       LET s == Upgrade(j)[i]
       IN /\ s.does = "create" /\ (s.lenient <=> j = 3)
          /\ s.object \in Objects \ ObjectsOf(j - 1)
          /\ s.object \notin ObjectsOf(2) => j = 3
          /\ s.object \in ObjectsOf(2) => j < 3
          /\ j = 3 => s.tables = {"bets"} /\ s.lock = "share"
          /\ j > 1 => /\ s.tables = {TableOf(s.object)} /\ s.object \in Indexes
                      /\ s.lock \in {"share", "exclusive"}
          /\ j = 1 => s.tables = {} /\ s.object \notin Indexes
          /\ s.object = "uq_odds_snapshot" => s.lock = "exclusive"
          /\ s.object = "readiness" => j = 1 /\ i = 2
  /\ \A j \in 1..3 : ObjectsOf(j) = ObjectsOf(j - 1) \cup Made(j, 2)
  /\ /\ Upgrade(1)[1].object = "tables" /\ Upgrade(1)[2].object = "readiness"
     /\ Upgrade(2)[1].object = "uq_odds_snapshot" /\ Upgrade(2)[2].object = "idx_bets_open_only"
     /\ Upgrade(3)[1].object = "uq_bets_user_external_id"
     /\ Upgrade(3)[2].object = "idx_bets_placed_at"
<1>22. /\ Upgrade(1)[1].does = "create" /\ Upgrade(1)[1].object = "tables"
       /\ Upgrade(1)[1].lock = "none" /\ Upgrade(1)[1].tables = {} /\ ~Upgrade(1)[1].lenient
  BY DEF Upgrade, Statement
<1>23. /\ Upgrade(1)[2].does = "create" /\ Upgrade(1)[2].object = "readiness"
       /\ Upgrade(1)[2].lock = "none" /\ Upgrade(1)[2].tables = {} /\ ~Upgrade(1)[2].lenient
  BY DEF Upgrade, Statement
<1>24. /\ Upgrade(2)[1].does = "create" /\ Upgrade(2)[1].object = "uq_odds_snapshot"
       /\ Upgrade(2)[1].lock = "exclusive" /\ Upgrade(2)[1].tables = {"odds"}
       /\ ~Upgrade(2)[1].lenient
  BY DEF Upgrade, Statement
<1>25. /\ Upgrade(2)[2].does = "create" /\ Upgrade(2)[2].object = "idx_bets_open_only"
       /\ Upgrade(2)[2].lock = "share" /\ Upgrade(2)[2].tables = {"bets"}
       /\ ~Upgrade(2)[2].lenient
  BY DEF Upgrade, Statement
<1>26. /\ Upgrade(3)[1].does = "create" /\ Upgrade(3)[1].object = "uq_bets_user_external_id"
       /\ Upgrade(3)[1].lock = "share" /\ Upgrade(3)[1].tables = {"bets"}
       /\ Upgrade(3)[1].lenient
  BY DEF Upgrade, Statement
<1>27. /\ Upgrade(3)[2].does = "create" /\ Upgrade(3)[2].object = "idx_bets_placed_at"
       /\ Upgrade(3)[2].lock = "share" /\ Upgrade(3)[2].tables = {"bets"}
       /\ Upgrade(3)[2].lenient
  BY DEF Upgrade, Statement
<1>3. \A j \in 1..3, i \in {1, 2} :
        (j = 1 \/ j = 2 \/ j = 3) /\ (i = 1 \/ i = 2)
  OBVIOUS
<1>4. 1 - 1 = 0 /\ 2 - 1 = 1 /\ 3 - 1 = 2
  OBVIOUS
<1>5. \A j \in 1..3, i \in {1, 2} :
       LET s == Upgrade(j)[i]
       IN /\ s.does = "create" /\ (s.lenient <=> j = 3)
          /\ s.object \in Objects \ ObjectsOf(j - 1)
          /\ s.object \notin ObjectsOf(2) => j = 3
          /\ s.object \in ObjectsOf(2) => j < 3
          /\ j = 3 => s.tables = {"bets"} /\ s.lock = "share"
          /\ j > 1 => /\ s.tables = {TableOf(s.object)} /\ s.object \in Indexes
                      /\ s.lock \in {"share", "exclusive"}
          /\ j = 1 => s.tables = {} /\ s.object \notin Indexes
          /\ s.object = "uq_odds_snapshot" => s.lock = "exclusive"
          /\ s.object = "readiness" => j = 1 /\ i = 2
  <2> SUFFICES ASSUME NEW j \in 1..3, NEW i \in {1, 2}
               PROVE  LET s == Upgrade(j)[i]
       IN /\ s.does = "create" /\ (s.lenient <=> j = 3)
          /\ s.object \in Objects \ ObjectsOf(j - 1)
          /\ s.object \notin ObjectsOf(2) => j = 3
          /\ s.object \in ObjectsOf(2) => j < 3
          /\ j = 3 => s.tables = {"bets"} /\ s.lock = "share"
          /\ j > 1 => /\ s.tables = {TableOf(s.object)} /\ s.object \in Indexes
                      /\ s.lock \in {"share", "exclusive"}
          /\ j = 1 => s.tables = {} /\ s.object \notin Indexes
          /\ s.object = "uq_odds_snapshot" => s.lock = "exclusive"
          /\ s.object = "readiness" => j = 1 /\ i = 2
    OBVIOUS
  <2>1. CASE j = 1
    <3>1. CASE i = 1
      BY <1>22, <1>4, <2>1, <3>1, Catalogue DEF TableOf, Indexes, Objects
    <3>2. CASE i = 2
      BY <1>23, <1>4, <2>1, <3>2, Catalogue DEF TableOf, Indexes, Objects
    <3> QED
      BY <3>1, <3>2
  <2>2. CASE j = 2
    <3>1. CASE i = 1
      BY <1>24, <1>4, <2>2, <3>1, Catalogue DEF TableOf, Indexes, Objects
    <3>2. CASE i = 2
      BY <1>25, <1>4, <2>2, <3>2, Catalogue DEF TableOf, Indexes, Objects
    <3> QED
      BY <3>1, <3>2
  <2>3. CASE j = 3
    <3>1. CASE i = 1
      BY <1>26, <1>4, <2>3, <3>1, Catalogue DEF TableOf, Indexes, Objects
    <3>2. CASE i = 2
      BY <1>27, <1>4, <2>3, <3>2, Catalogue DEF TableOf, Indexes, Objects
    <3> QED
      BY <3>1, <3>2
  <2> QED
    BY <1>3, <2>1, <2>2, <2>3
<1>6. /\ Upgrade(1)[1].object = "tables" /\ Upgrade(1)[2].object = "readiness"
      /\ Upgrade(2)[1].object = "uq_odds_snapshot" /\ Upgrade(2)[2].object = "idx_bets_open_only"
      /\ Upgrade(3)[1].object = "uq_bets_user_external_id"
      /\ Upgrade(3)[2].object = "idx_bets_placed_at"
  BY <1>22, <1>23, <1>24, <1>25, <1>26, <1>27
<1>7. \A j \in 1..3 : ObjectsOf(j) = ObjectsOf(j - 1) \cup Made(j, 2)
  <2>1. /\ Made(1, 2) = {"tables", "readiness"}
        /\ Made(2, 2) = {"uq_odds_snapshot", "idx_bets_open_only"}
        /\ Made(3, 2) = {"uq_bets_user_external_id", "idx_bets_placed_at"}
    BY <1>6, MadeAndGone
  <2>2. \A j \in 1..3 : j = 1 \/ j = 2 \/ j = 3
    OBVIOUS
  <2> QED
    BY <1>4, <2>1, <2>2, Catalogue DEF Objects
<1> QED
  BY <1>5, <1>6, <1>7

(* What the statements of the downgrades drop, and under which lock.       *)
LEMMA DowngradeStatements ==
  /\ LET s == Downgrade(1)[1]
     IN s.does = "drop" /\ s.object = "readiness" /\ s.tables = {} /\ s.lenient
  /\ LET s == Downgrade(1)[2]
     IN /\ s.does = "drop" /\ s.object = "tables" /\ s.tables = Lockable /\ ~s.lenient
        /\ s.lock = "exclusive"
  /\ LET s == Downgrade(2)[1]
     IN /\ s.does = "drop" /\ s.object = "idx_bets_open_only" /\ s.tables = {"bets"}
        /\ ~s.lenient /\ s.lock = "exclusive"
  /\ LET s == Downgrade(2)[2]
     IN /\ s.does = "drop" /\ s.object = "uq_odds_snapshot" /\ s.tables = {"odds"}
        /\ ~s.lenient /\ s.lock = "exclusive"
  /\ LET s == Downgrade(3)[1]
     IN /\ s.does = "drop" /\ s.object = "idx_bets_placed_at" /\ s.tables = {"bets"}
        /\ s.lenient /\ s.lock = "exclusive"
  /\ LET s == Downgrade(3)[2]
     IN /\ s.does = "drop" /\ s.object = "uq_bets_user_external_id" /\ s.tables = {"bets"}
        /\ s.lenient /\ s.lock = "exclusive"
<1>1. LET s == Downgrade(1)[1]
      IN s.does = "drop" /\ s.object = "readiness" /\ s.tables = {} /\ s.lenient
  BY DEF Downgrade, Statement
<1>2. LET s == Downgrade(1)[2]
      IN /\ s.does = "drop" /\ s.object = "tables" /\ s.tables = Lockable /\ ~s.lenient
         /\ s.lock = "exclusive"
  BY DEF Downgrade, Statement
<1>3. LET s == Downgrade(2)[1]
      IN /\ s.does = "drop" /\ s.object = "idx_bets_open_only" /\ s.tables = {"bets"}
         /\ ~s.lenient /\ s.lock = "exclusive"
  BY DEF Downgrade, Statement
<1>4. LET s == Downgrade(2)[2]
      IN /\ s.does = "drop" /\ s.object = "uq_odds_snapshot" /\ s.tables = {"odds"}
         /\ ~s.lenient /\ s.lock = "exclusive"
  BY DEF Downgrade, Statement
<1>5. LET s == Downgrade(3)[1]
      IN /\ s.does = "drop" /\ s.object = "idx_bets_placed_at" /\ s.tables = {"bets"}
         /\ s.lenient /\ s.lock = "exclusive"
  BY DEF Downgrade, Statement
<1>6. LET s == Downgrade(3)[2]
      IN /\ s.does = "drop" /\ s.object = "uq_bets_user_external_id" /\ s.tables = {"bets"}
         /\ s.lenient /\ s.lock = "exclusive"
  BY DEF Downgrade, Statement
<1> QED
  BY <1>1, <1>2, <1>3, <1>4, <1>5, <1>6

(* The update of alembic_version locks no table.                           *)
LEMMA StampStatement ==
  ASSUME NEW i
  PROVE  /\ Stamp(i).does = "stamp" /\ Stamp(i).object = i
         /\ Stamp(i).tables = {} /\ Stamp(i).lock = "none"
BY DEF Stamp, Statement

(* The transaction after a statement, field by field.                      *)
LEMMA AfterFields ==
  ASSUME Typed, NEW m \in Runs, Execute(m)
  PROVE  LET s == Wants(m)
         IN /\ run'[m].phase = "running" /\ run'[m].direction = run[m].direction
            /\ run'[m].plan = Tail(run[m].plan)
            /\ run'[m].locks = run[m].locks \cup {<<t, s.lock>> : t \in LockedBy(m, s)}
            /\ s.does = "create" => run'[m].created = run[m].created \cup ({s.object} \ Seen(m))
            /\ s.does # "create" => run'[m].created = run[m].created
            /\ s.does = "drop" => run'[m].dropped = run[m].dropped \cup Dropped(m, s)
            /\ s.does # "drop" => run'[m].dropped = run[m].dropped
            /\ s.does = "stamp" => run'[m].version = s.object /\ run'[m].stamped
            /\ s.does # "stamp" =>
                 run'[m].version = run[m].version /\ (run'[m].stamped <=> run[m].stamped)
            /\ \A n \in Others(m) : run'[n] = run[n]
<1> DEFINE s == Wants(m)
<1>1. run[m] \in Transactions /\ run \in [Runs -> Transactions]
  BY DEF Typed
<1>2. run'[m] = After(m, s)
  BY <1>1 DEF Execute
<1>3. \A n \in Others(m) : run'[n] = run[n]
  BY <1>1 DEF Execute, Others
<1>4. run[m].phase = "running"
  BY DEF Execute, Free, Running
<1> HIDE DEF s
<1>5. run'[m] = [run[m] EXCEPT
        !.plan    = Tail(@),
        !.locks   = @ \cup {<<t, s.lock>> : t \in LockedBy(m, s)},
        !.created = IF s.does = "create" THEN @ \cup ({s.object} \ Seen(m)) ELSE @,
        !.dropped = IF s.does = "drop" THEN @ \cup Dropped(m, s) ELSE @,
        !.version = IF s.does = "stamp" THEN s.object ELSE @,
        !.stamped = @ \/ s.does = "stamp"]
  BY <1>2, Zenon DEF After
<1>6. /\ run'[m].phase = run[m].phase /\ run'[m].direction = run[m].direction
      /\ run'[m].plan = Tail(run[m].plan)
      /\ run'[m].locks = run[m].locks \cup {<<t, s.lock>> : t \in LockedBy(m, s)}
      /\ run'[m].created = IF s.does = "create" THEN run[m].created \cup ({s.object} \ Seen(m))
                           ELSE run[m].created
      /\ run'[m].dropped = IF s.does = "drop" THEN run[m].dropped \cup Dropped(m, s)
                           ELSE run[m].dropped
      /\ run'[m].version = IF s.does = "stamp" THEN s.object ELSE run[m].version
      /\ run'[m].stamped <=> (run[m].stamped \/ s.does = "stamp")
  BY <1>1, <1>5 DEF Transactions
<1> QED
  BY <1>3, <1>4, <1>6 DEF s

(* What the prover of a step may use of its guard.                         *)
LEMMA Granted ==
  ASSUME NEW m \in Runs, Execute(m)
  PROVE  LET s == Wants(m)
         IN /\ run[m].plan # << >> /\ s = Head(run[m].plan)
            /\ Objection(m, s) = "nothing"
            /\ Lockers(m, s) = {} /\ Holders(m, s) = {}
            /\ UNCHANGED <<objects, version, rows, writer, probe, kills, why, overtaken, vouched>>
            /\ Current' = Current
<1>1. Free(m)
  BY DEF Execute
<1> QED
  BY <1>1, FreeRun DEF Execute, Wants, historyVars, Current

(* What a statement that nothing is wrong with has found.                  *)
LEMMA NoObjection ==
  ASSUME NEW m, NEW s, Objection(m, s) = "nothing"
  PROVE  /\ s.does = "create" /\ ~s.lenient => s.object \notin Seen(m)
         /\ s.does = "drop" /\ ~s.lenient => s.object \in Seen(m)
         /\ s.does = "stamp" /\ ~run[m].stamped => run[m].version = Current
BY DEF Objection

-----------------------------------------------------------------------------
(* A STATEMENT IS EXECUTED                                                 *)

(* A statement takes an upgrade to the next place in its script.           *)
LEMMA ExecuteUpgrade ==
  ASSUME Typed, SchemaInv, NEW m \in Runs, Execute(m), NEW j \in 1..4, NEW k \in 0..2,
         run[m].direction = "upgrade", Upgrading(m, j, k)
  PROVE  Underway(m)'
<1> DEFINE s == Wants(m)
<1>1. /\ run[m].plan # << >> /\ s = Head(run[m].plan)
      /\ Objection(m, s) = "nothing"
      /\ objects' = objects /\ overtaken' = overtaken /\ Current' = Current
  BY Granted
<1>2. j \in 1..3
  BY <1>1, UpgradeScript DEF Upgrading
<1>3. Seen(m) = run[m].created \cup objects
  BY DEF Upgrading, Seen
<1>4. run'[m].direction = "upgrade"
  BY AfterFields
<1>5. run[m].plan = RestOfUpgrade(j, k)
  BY DEF Upgrading
<1> HIDE DEF s
<1>6. CASE k < 2
  <2>1. k + 1 \in {1, 2} /\ k + 1 \in 0..2
    BY <1>6
  <2>2. s = Upgrade(j)[k + 1] /\ Tail(run[m].plan) = RestOfUpgrade(j, k + 1)
    BY <1>1, <1>2, <1>5, <1>6, UpgradeScript
  <2>3. /\ s.does = "create" /\ (s.lenient <=> j = 3)
        /\ j = 3 => s.tables = {"bets"} /\ s.lock = "share"
    BY <1>2, <2>1, <2>2, UpgradeStatements
  <2>4. /\ run'[m].plan = RestOfUpgrade(j, k + 1)
        /\ run'[m].locks = run[m].locks \cup {<<t, s.lock>> : t \in LockedBy(m, s)}
        /\ run'[m].created = run[m].created \cup ({s.object} \ Seen(m))
        /\ run'[m].dropped = run[m].dropped
        /\ run'[m].version = run[m].version /\ (run'[m].stamped <=> run[m].stamped)
    BY <2>2, <2>3, AfterFields DEF s
  <2>5. Made(j, k + 1) = Made(j, k) \cup {s.object}
    <3>1. k = 0 \/ k = 1
      BY <1>6
    <3>2. 0 + 1 = 1 /\ 1 + 1 = 2
      OBVIOUS
    <3> QED
      BY <2>2, <3>1, <3>2, MadeAndGone
  <2>6. j < 3 => s.object \notin Seen(m)
    BY <1>1, <2>3, NoObjection
  <2>7. j = 3 => <<"bets", "share">> \in run'[m].locks
    <3>1. j = 3 => LockedBy(m, s) = {"bets"}
      BY <2>3 DEF LockedBy
    <3> QED
      BY <2>3, <2>4, <3>1
  <2>8. Upgrading(m, j, k + 1)'
    <3>1. j # 4 /\ k + 1 # 0
      BY <1>2
    <3> QED
      BY <1>1, <1>3, <2>4, <2>5, <2>6, <2>7, <3>1 DEF Upgrading
  <2> QED
    BY <1>4, <2>1, <2>8 DEF Underway
<1>7. CASE k = 2
  <2>1. s = Stamp(j) /\ Tail(run[m].plan) = RestOfUpgrade(j + 1, 0)
    <3>1. /\ Head(RestOfUpgrade(j, 2)) = IF 2 < 2 THEN Upgrade(j)[2 + 1] ELSE Stamp(j)
          /\ Tail(RestOfUpgrade(j, 2))
               = IF 2 < 2 THEN RestOfUpgrade(j, 2 + 1) ELSE RestOfUpgrade(j + 1, 0)
      BY <1>2, <1>7, UpgradeScript
    <3> QED
      BY <1>1, <1>5, <1>7, <3>1
  <2>2. s.does = "stamp" /\ s.object = j /\ s.tables = {}
    BY <2>1, StampStatement
  <2>3. /\ run'[m].plan = RestOfUpgrade(j + 1, 0)
        /\ run'[m].created = run[m].created
        /\ run'[m].dropped = run[m].dropped
        /\ run'[m].version = j /\ run'[m].stamped
    BY <2>1, <2>2, AfterFields DEF s
  <2>4. ~run[m].stamped => Current = j - 1
    <3>1. ~run[m].stamped => run[m].version = Current
      BY <1>1, <2>2, NoObjection
    <3> QED
      BY <3>1 DEF Upgrading
  <2>5. Current \in Int
    BY DEF Typed, TypeOK, Current, NoTable, HeadRevision, Revisions
  <2>6. Current < j
    <3>1. run[m].stamped => Current < j - 1
      BY DEF Upgrading
    <3> QED
      BY <1>2, <2>4, <2>5, <3>1
  <2>7. ObjectsOf(j) = ObjectsOf(j - 1) \cup Made(j, 2)
    BY <1>2, UpgradeStatements
  <2>8. ObjectsOf(j - 1) \subseteq run[m].created \cup objects
    BY <2>4 DEF Upgrading, SchemaInv
  <2>9. j + 1 - 1 = j /\ Made(j + 1, 0) = {} /\ j + 1 \in 1..4 /\ 0 \in 0..2
    BY <1>2, MadeAndGone
  <2>10. Upgrading(m, j + 1, 0)'
    BY <1>1, <1>7, <2>3, <2>6, <2>7, <2>8, <2>9 DEF Upgrading
  <2> QED
    BY <1>4, <2>9, <2>10 DEF Underway
<1> QED
  BY <1>6, <1>7

(* A statement takes a downgrade to the next place in its script.          *)
LEMMA ExecuteDowngrade ==
  ASSUME Typed, NEW m \in Runs, Execute(m), NEW j \in 0..3, NEW k \in 0..3,
         run[m].direction = "downgrade", Downgrading(m, j, k), Covered(m)
  PROVE  Underway(m)'
<1> DEFINE s == Wants(m)
<1>1. /\ run[m].plan # << >> /\ s = Head(run[m].plan)
      /\ Objection(m, s) = "nothing"
      /\ objects' = objects /\ overtaken' = overtaken /\ Current' = Current
  BY Granted
<1>2. j \in 1..3 /\ k \in 0..2
  <2>1. j # 0
    BY <1>1, DowngradeScript DEF Downgrading
  <2>2. j \in 1..3
    BY <2>1
  <2>3. k # 3
    BY <1>1, <2>2, DowngradeScript DEF Downgrading
  <2> QED
    BY <2>2, <2>3
<1>3. /\ run[m].plan = RestOfDowngrade(j, k)
      /\ run[m].version = j
      /\ ~run[m].stamped
      /\ run[m].created = {}
      /\ m \notin overtaken => Current = j
      /\ k = 0 => run[m].dropped = {} /\ run[m].locks = {}
      /\ j > 1 => run[m].dropped \subseteq Gone(j, k)
      /\ j = 2 => Gone(j, k) \subseteq run[m].dropped
      /\ j = 1 /\ k < 2 => run[m].dropped \subseteq {"readiness"}
      /\ j = 1 /\ k > 1 => "tables" \in run[m].dropped
      /\ run[m].locks # {} => <<"bets", "exclusive">> \in run[m].locks
      /\ m \notin overtaken /\ k > 0 => Gone(j, k) \cap Seen(m) = {}
  BY <1>2 DEF Downgrading
<1>4. run'[m].direction = "downgrade"
  BY AfterFields
<1> HIDE DEF s
<1>5. Tail(run[m].plan) = RestOfDowngrade(j, k + 1) /\ k + 1 \in 0..3 /\ k + 1 > 0
  <2>1. Tail(RestOfDowngrade(j, k)) = RestOfDowngrade(j, k + 1)
    BY <1>2, DowngradeScript
  <2> QED
    BY <1>2, <1>3, <2>1
<1>6. CASE k < 2
  <2>1. k = 0 \/ k = 1
    BY <1>2, <1>6
  <2>2. s = Downgrade(j)[k + 1]
    BY <1>1, <1>2, <1>3, <1>6, DowngradeScript
  <2>3. s.does = "drop"
    <3>1. j = 1 \/ j = 2 \/ j = 3
      BY <1>2
    <3>2. k + 1 = 1 \/ k + 1 = 2
      BY <2>1
    <3> QED
      BY <2>2, <3>1, <3>2, DowngradeStatements
  <2>4. /\ run'[m].plan = RestOfDowngrade(j, k + 1)
        /\ run'[m].locks = run[m].locks \cup {<<t, s.lock>> : t \in LockedBy(m, s)}
        /\ run'[m].created = {}
        /\ run'[m].dropped = run[m].dropped \cup Dropped(m, s)
        /\ run'[m].version = j /\ ~run'[m].stamped
    BY <1>3, <1>5, <2>3, AfterFields DEF s
  <2>5. Gone(j, k + 1) = Gone(j, k) \cup {s.object}
    <3>1. 0 + 1 = 1 /\ 1 + 1 = 2
      OBVIOUS
    <3> QED
      BY <2>1, <2>2, <3>1, MadeAndGone
  <2>6. Seen(m)' = Seen(m) \ Dropped(m, s)
    <3>1. Seen(m) = objects \ run[m].dropped
      BY <1>3 DEF Seen
    <3>2. Seen(m)' = objects \ run'[m].dropped
      BY <1>1, <2>4 DEF Seen
    <3> QED
      BY <2>4, <3>1, <3>2
  <2>7. s.object \notin Seen(m)'
    BY <2>6 DEF Dropped
  <2>8. ~s.lenient => s.object \in Seen(m)
    BY <1>1, <2>3, NoObjection
  <2>9. Downgrading(m, j, k + 1)'
    <3>1. m \notin overtaken => Gone(j, k + 1) \cap Seen(m)' = {}
      <4>1. m \notin overtaken => Gone(j, k) \cap Seen(m) = {}
        BY <1>3, <2>1, MadeAndGone
      <4> QED
        BY <2>5, <2>6, <2>7, <4>1
    <3>2. CASE j = 1 /\ k = 0
      <4>1. s.object = "readiness" /\ s.tables = {}
        BY <2>2, <3>2, DowngradeStatements
      <4>2. LockedBy(m, s) = {}
        BY <4>1 DEF LockedBy
      <4>3. Dropped(m, s) \subseteq {"readiness"}
        BY <4>1 DEF Dropped
      <4> QED
        BY <1>1, <1>3, <1>5, <2>4, <3>1, <3>2, <4>2, <4>3 DEF Downgrading
    <3>3. CASE j = 1 /\ k = 1
      <4>1. s.object = "tables" /\ s.tables = Lockable /\ ~s.lenient /\ s.lock = "exclusive"
        BY <2>2, <3>3, DowngradeStatements
      <4>2. LockedBy(m, s) = Lockable
        BY <2>8, <4>1 DEF LockedBy
      <4>3. "tables" \in Dropped(m, s)
        BY <2>8, <4>1 DEF Dropped
      <4>4. <<"bets", "exclusive">> \in run'[m].locks
        BY <2>4, <4>1, <4>2 DEF Lockable, Tables
      <4> QED
        BY <1>1, <1>3, <1>5, <2>4, <3>1, <3>3, <4>3, <4>4 DEF Downgrading
    <3>4. CASE j > 1
      <4>1. s.object # "tables" /\ s.lock = "exclusive" /\ (j = 2 => ~s.lenient)
        <5>1. j = 2 \/ j = 3
          BY <1>2, <3>4
        <5>2. k + 1 = 1 \/ k + 1 = 2
          BY <2>1
        <5> QED
          BY <2>2, <5>1, <5>2, DowngradeStatements
      <4>2. Dropped(m, s) = {s.object} \cap Seen(m)
        BY <4>1 DEF Dropped
      <4>3. j = 2 => s.object \in Dropped(m, s)
        BY <2>8, <4>1, <4>2
      <4>4. run'[m].locks # {} => <<"bets", "exclusive">> \in run'[m].locks
        <5>1. CASE j = 3 \/ k = 0
          <6>1. s.tables = {"bets"}
            <7>1. j = 2 \/ j = 3
              BY <1>2, <3>4
            <7>2. k = 0 \/ k + 1 = 2
              BY <2>1
            <7> QED
              BY <2>2, <5>1, <7>1, <7>2, DowngradeStatements
          <6>2. LockedBy(m, s) = {} \/ LockedBy(m, s) = {"bets"}
            BY <6>1 DEF LockedBy
          <6> QED
            BY <1>3, <2>4, <4>1, <6>2
        <5>2. CASE j = 2 /\ k = 1
          <6>1. "idx_bets_open_only" \in Gone(2, 1)
            BY MadeAndGone, DowngradeStatements
          <6>2. "idx_bets_open_only" \in run[m].dropped
            BY <1>3, <5>2, <6>1
          <6>3. <<"bets", "exclusive">> \in run[m].locks
            <7>1. "idx_bets_open_only" \in Indexes /\ TableOf("idx_bets_open_only") = "bets"
              BY Catalogue DEF Indexes, Objects, TableOf
            <7> QED
              BY <6>2, <7>1 DEF Covered
          <6> QED
            BY <2>4, <6>3
        <5> QED
          BY <1>2, <2>1, <3>4, <5>1, <5>2
      <4>5. j # 0 /\ j # 1 /\ k + 1 # 3
        BY <1>6, <3>4, <2>1
      <4> QED
        BY <1>1, <1>3, <1>5, <2>4, <2>5, <3>1, <4>2, <4>3, <4>4, <4>5 DEF Downgrading
    <3> QED
      BY <1>2, <2>1, <3>2, <3>3, <3>4
  <2> QED
    BY <1>4, <1>5, <2>9 DEF Underway
<1>7. CASE k = 2
  <2>1. s = Stamp(j - 1)
    <3>1. Head(RestOfDowngrade(j, k)) = IF k < 2 THEN Downgrade(j)[k + 1] ELSE Stamp(j - 1)
      BY <1>2, DowngradeScript
    <3>2. ~(k < 2)
      BY <1>7
    <3>3. s = Head(RestOfDowngrade(j, k))
      BY <1>1, <1>3
    <3> QED
      BY <3>1, <3>2, <3>3
  <2>2. s.does = "stamp" /\ s.object = j - 1 /\ s.tables = {}
    BY <2>1, StampStatement
  <2>3. /\ run'[m].plan = RestOfDowngrade(j, 3)
        /\ run'[m].locks = run[m].locks \cup {<<t, s.lock>> : t \in LockedBy(m, s)}
        /\ run'[m].created = {}
        /\ run'[m].dropped = run[m].dropped
        /\ run'[m].version = j - 1 /\ run'[m].stamped
    <3>1. k + 1 = 3
      BY <1>7
    <3> QED
      BY <1>3, <1>5, <2>2, <3>1, AfterFields DEF s
  <2>4. LockedBy(m, s) = {}
    BY <2>2 DEF LockedBy
  <2>5. Current = j
    BY <1>1, <1>3, <2>2, NoObjection
  <2>6. Gone(j, 3) = Gone(j, 2)
    BY MadeAndGone
  <2>7. Seen(m)' = Seen(m)
    BY <1>1, <1>3, <2>3 DEF Seen
  <2>8. Downgrading(m, j, 3)'
    <3>1. j # 0 /\ 3 \in 0..3
      BY <1>2
    <3> QED
      BY <1>1, <1>3, <1>7, <2>3, <2>4, <2>5, <2>6, <2>7, <3>1 DEF Downgrading
  <2> QED
    BY <1>4, <2>8 DEF Underway
<1> QED
  BY <1>2, <1>6, <1>7

(* The statements that make and drop indexes lock their tables.            *)
LEMMA IndexStatements ==
  ASSUME NEW s \in Statements
  PROVE  /\ s.does \in {"create", "drop", "stamp"}
         /\ s.object \in Indexes /\ s.does # "stamp" =>
              s.tables = {TableOf(s.object)} /\ s.lock \in {"share", "exclusive"}
         /\ s.does = "drop" /\ s.object # "readiness" => s.lock = "exclusive"
         /\ s.does = "drop" /\ s.object = "tables" => s.tables = Lockable /\ ~s.lenient
         /\ s.does = "create" /\ s.object = "uq_odds_snapshot" => s.lock = "exclusive"
<1>1. CASE s \in {Stamp(i) : i \in 0..3}
  <2>1. PICK i \in 0..3 : s = Stamp(i)
    BY <1>1
  <2> QED
    BY <2>1, StampStatement
<1>2. ASSUME NEW p \in Steps, s = Upgrade(p[1])[p[2]]
      PROVE  /\ s.does = "create"
             /\ s.object \in Indexes =>
                  s.tables = {TableOf(s.object)} /\ s.lock \in {"share", "exclusive"}
             /\ s.object = "uq_odds_snapshot" => s.lock = "exclusive"
  <2>1. p[1] \in 1..3 /\ p[2] \in {1, 2}
    BY DEF Steps
  <2>2. p[1] = 1 \/ p[1] > 1
    BY <2>1
  <2> QED
    BY <1>2, <2>1, <2>2, UpgradeStatements
<1>3. ASSUME NEW p \in Steps, s = Downgrade(p[1])[p[2]]
      PROVE  /\ s.does = "drop"
             /\ s.object \in Indexes =>
                  s.tables = {TableOf(s.object)} /\ s.lock \in {"share", "exclusive"}
             /\ s.object # "readiness" => s.lock = "exclusive"
             /\ s.object = "tables" => s.tables = Lockable /\ ~s.lenient
  <2>1. (p[1] = 1 \/ p[1] = 2 \/ p[1] = 3) /\ (p[2] = 1 \/ p[2] = 2)
    BY DEF Steps
  <2>2. Indexes = {"uq_odds_snapshot", "idx_bets_open_only", "uq_bets_user_external_id",
                   "idx_bets_placed_at"}
    BY Catalogue DEF Indexes, Objects
  <2>3. CASE p[1] = 1
    <3>1. s = Downgrade(1)[1] \/ s = Downgrade(1)[2]
      BY <1>3, <2>1, <2>3
    <3> QED
      BY <2>2, <3>1, DowngradeStatements
  <2>4. CASE p[1] = 2
    <3>1. s = Downgrade(2)[1] \/ s = Downgrade(2)[2]
      BY <1>3, <2>1, <2>4
    <3> QED
      BY <2>2, <3>1, DowngradeStatements DEF TableOf
  <2>5. CASE p[1] = 3
    <3>1. s = Downgrade(3)[1] \/ s = Downgrade(3)[2]
      BY <1>3, <2>1, <2>5
    <3> QED
      BY <2>2, <3>1, DowngradeStatements DEF TableOf
  <2> QED
    BY <2>1, <2>3, <2>4, <2>5
<1> QED
  BY <1>1, <1>2, <1>3 DEF Statements

(* Upgrades drop nothing and downgrades make nothing.                      *)
LEMMA OneDirection ==
  ASSUME NEW m \in Runs, Typed, Execute(m), Underway(m)
  PROVE  LET s == Wants(m)
         IN /\ s.does = "create" => run[m].dropped = {}
            /\ s.does = "drop" => run[m].created = {}
            /\ s.does = "create" /\ s.object = "readiness" => "tables" \in run[m].created
<1> DEFINE s == Wants(m)
<1>1. run[m].plan # << >> /\ s = Head(run[m].plan)
  BY Granted
<1> HIDE DEF s
<1>2. ASSUME NEW j \in 1..4, NEW k \in 0..2, Upgrading(m, j, k)
      PROVE  /\ run[m].dropped = {}
             /\ s.does # "drop"
             /\ s.does = "create" /\ s.object = "readiness" => "tables" \in run[m].created
  <2>1. run[m].plan = RestOfUpgrade(j, k) /\ run[m].dropped = {}
        /\ (j < 3 => Made(j, k) \subseteq run[m].created)
    BY <1>2 DEF Upgrading
  <2>2. j \in 1..3
    BY <1>1, <1>2, UpgradeScript DEF Upgrading
  <2>3. s = IF k < 2 THEN Upgrade(j)[k + 1] ELSE Stamp(j)
    BY <1>1, <2>1, <2>2, UpgradeScript
  <2>4. CASE k < 2
    <3>1. k + 1 \in {1, 2}
      BY <2>4
    <3>2. s.does = "create"
      BY <2>2, <2>3, <2>4, <3>1, UpgradeStatements
    <3>3. s.object = "readiness" => j = 1 /\ k = 1
      BY <2>2, <2>3, <2>4, <3>1, UpgradeStatements
    <3>4. Made(1, 1) = {"tables"}
      BY MadeAndGone, UpgradeStatements
    <3> QED
      BY <2>1, <3>2, <3>3, <3>4
  <2>5. CASE k = 2
    BY <2>1, <2>3, <2>5, StampStatement
  <2> QED
    BY <2>4, <2>5
<1>3. ASSUME NEW j \in 0..3, NEW k \in 0..3, Downgrading(m, j, k)
      PROVE  run[m].created = {} /\ s.does # "create"
  <2>1. run[m].plan = RestOfDowngrade(j, k) /\ run[m].created = {} /\ (j = 0 => k = 0)
    BY <1>3 DEF Downgrading
  <2>2. j \in 1..3
    <3>1. j # 0
      BY <1>1, <2>1, DowngradeScript
    <3> QED
      BY <3>1
  <2>3. k \in 0..2
    <3>1. k # 3
      BY <1>1, <2>1, <2>2, DowngradeScript
    <3> QED
      BY <3>1
  <2>4. s = IF k < 2 THEN Downgrade(j)[k + 1] ELSE Stamp(j - 1)
    BY <1>1, <2>1, <2>2, <2>3, DowngradeScript
  <2>5. CASE k < 2
    <3>1. (k + 1 = 1 \/ k + 1 = 2) /\ (j = 1 \/ j = 2 \/ j = 3)
      BY <2>2, <2>3, <2>5
    <3> QED
      BY <2>1, <2>4, <2>5, <3>1, DowngradeStatements
  <2>6. CASE k = 2
    BY <2>1, <2>4, <2>6, StampStatement
  <2> QED
    BY <2>3, <2>5, <2>6
<1> QED
  BY <1>2, <1>3 DEF Underway, s

(* What a statement changes is covered by the lock that it has taken.      *)
LEMMA ExecuteCovered ==
  ASSUME Typed, NEW m \in Runs, Execute(m), Underway(m), Covered(m)
  PROVE  Covered(m)'
<1> DEFINE s == Wants(m)
<1>1. /\ run[m].plan # << >> /\ objects' = objects /\ Objection(m, s) = "nothing"
  BY Granted
<1>2. s \in Statements
  BY <1>1, NextStatement
<1>3. /\ s.does = "create" => run[m].dropped = {}
      /\ s.does = "drop" => run[m].created = {}
      /\ s.does = "create" /\ s.object = "readiness" => "tables" \in run[m].created
  BY OneDirection
<1>4. /\ run'[m].locks = run[m].locks \cup {<<t, s.lock>> : t \in LockedBy(m, s)}
      /\ s.does = "create" => run'[m].created = run[m].created \cup ({s.object} \ Seen(m))
      /\ s.does # "create" => run'[m].created = run[m].created
      /\ s.does = "drop" => run'[m].dropped = run[m].dropped \cup Dropped(m, s)
      /\ s.does # "drop" => run'[m].dropped = run[m].dropped
  BY AfterFields
<1> HIDE DEF s
<1>5. /\ s.object \in Indexes /\ s.does # "stamp" =>
           s.tables = {TableOf(s.object)} /\ s.lock \in {"share", "exclusive"}
      /\ s.does = "drop" /\ s.object # "readiness" => s.lock = "exclusive"
      /\ s.does = "drop" /\ s.object = "tables" => s.tables = Lockable /\ ~s.lenient
      /\ s.does = "create" /\ s.object = "uq_odds_snapshot" => s.lock = "exclusive"
  BY <1>2, IndexStatements
<1>6. \A o : TableOf(o) \in Lockable
  BY DEF TableOf, Lockable, Tables
<1>7. s.does = "drop" /\ s.object = "tables" => "tables" \in Seen(m) /\ LockedBy(m, s) = Lockable
  <2>1. s.does = "drop" /\ s.object = "tables" => "tables" \in Seen(m)
    BY <1>1, <1>5, NoObjection
  <2> QED
    BY <1>5, <2>1 DEF LockedBy
<1>8. ASSUME NEW o \in Indexes
      PROVE  /\ o \in run'[m].created =>
                  \E mode \in {"share", "exclusive"} : <<TableOf(o), mode>> \in run'[m].locks
             /\ o \in run'[m].dropped => <<TableOf(o), "exclusive">> \in run'[m].locks
  <2>1. CASE s.does = "create" /\ s.object = o
    <3>1. LockedBy(m, s) = {TableOf(o)}
      BY <1>5, <2>1 DEF LockedBy
    <3>2. <<TableOf(o), s.lock>> \in run'[m].locks
      BY <1>4, <3>1
    <3> QED
      BY <1>3, <1>4, <1>5, <2>1, <3>2
  <2>2. CASE s.does = "drop" /\ s.object = o
    <3>1. o \in Seen(m) => LockedBy(m, s) = {TableOf(o)} /\ s.lock = "exclusive"
      <4>1. o # "readiness"
        BY Catalogue DEF Indexes
      <4> QED
        BY <1>5, <2>2, <4>1 DEF LockedBy
    <3>2. o \in Seen(m) => <<TableOf(o), "exclusive">> \in run'[m].locks
      BY <1>4, <3>1
    <3>3. o \in Dropped(m, s) => o \in Seen(m)
      BY <2>2 DEF Dropped
    <3> QED
      BY <1>3, <1>4, <2>2, <3>2, <3>3 DEF Covered
  <2>3. CASE s.does = "drop" /\ s.object = "tables"
    <3>1. s.lock = "exclusive"
      BY <1>5, <2>3
    <3>2. <<TableOf(o), "exclusive">> \in run'[m].locks
      BY <1>4, <1>6, <1>7, <2>3, <3>1
    <3> QED
      BY <1>3, <1>4, <2>3, <3>2
  <2>4. CASE s.does = "create" /\ s.object # o
    BY <1>3, <1>4, <2>4 DEF Covered
  <2>5. CASE s.does = "drop" /\ s.object # o /\ s.object # "tables"
    <3>1. o \notin Dropped(m, s)
      BY <2>5 DEF Dropped
    <3> QED
      BY <1>3, <1>4, <2>5, <3>1 DEF Covered
  <2>6. CASE s.does = "stamp"
    BY <1>4, <2>6 DEF Covered
  <2> QED
    BY <1>2, <2>1, <2>2, <2>3, <2>4, <2>5, <2>6, IndexStatements
<1>9. "uq_odds_snapshot" \in run'[m].created => <<"odds", "exclusive">> \in run'[m].locks
  <2>1. CASE s.does = "create" /\ s.object = "uq_odds_snapshot"
    <3>1. "uq_odds_snapshot" \in Indexes /\ TableOf("uq_odds_snapshot") = "odds"
      BY Catalogue DEF Indexes, TableOf, Objects
    <3>2. LockedBy(m, s) = {"odds"} /\ s.lock = "exclusive"
      BY <1>5, <2>1, <3>1 DEF LockedBy
    <3> QED
      BY <1>4, <3>2
  <2>2. CASE ~(s.does = "create" /\ s.object = "uq_odds_snapshot")
    BY <1>4, <2>2 DEF Covered
  <2> QED
    BY <2>1, <2>2
<1>10. "tables" \in run'[m].dropped =>
         /\ \A t \in Lockable : <<t, "exclusive">> \in run'[m].locks
         /\ "tables" \in objects /\ objects \subseteq run'[m].dropped
  <2>1. CASE s.does = "drop" /\ s.object = "tables"
    <3>1. s.lock = "exclusive" /\ run[m].created = {}
      BY <1>3, <1>5, <2>1
    <3>2. \A t \in Lockable : <<t, "exclusive">> \in run'[m].locks
      BY <1>4, <1>7, <2>1, <3>1
    <3>3. Dropped(m, s) = Seen(m) /\ Seen(m) = objects \ run[m].dropped
      BY <2>1, <3>1 DEF Dropped, Seen
    <3> QED
      BY <1>4, <1>7, <2>1, <3>2, <3>3
  <2>2. CASE ~(s.does = "drop" /\ s.object = "tables")
    <3>1. "tables" \in run'[m].dropped => "tables" \in run[m].dropped
      BY <1>4, <2>2 DEF Dropped
    <3>2. run[m].dropped \subseteq run'[m].dropped /\ run[m].locks \subseteq run'[m].locks
      BY <1>4
    <3> QED
      BY <3>1, <3>2 DEF Covered
  <2> QED
    BY <2>1, <2>2
<1>11. run'[m].created \cap objects = {}
  <2>1. s.does = "create" => (s.object \notin Seen(m) => s.object \notin objects)
    BY <1>3 DEF Seen
  <2> QED
    BY <1>4, <2>1 DEF Covered
<1>12. "readiness" \in run'[m].created => "tables" \in run'[m].created
  BY <1>3, <1>4 DEF Covered
<1> QED
  BY <1>1, <1>8, <1>9, <1>10, <1>11, <1>12 DEF Covered

(* Locks that nobody was waited for exclude nobody's.                      *)
LEMMA LocksApart ==
  ASSUME NEW m \in Runs, NEW n \in Others(m), NEW s, Apart(m, n), Apart(n, m),
         Lockers(m, s) = {}, run'[n] = run[n],
         run'[m].locks \subseteq run[m].locks \cup {<<t, s.lock>> : t \in Front(m, s)}
  PROVE  \A t \in Lockable, mode \in {"share", "exclusive"} :
           /\ ~(<<t, "exclusive">> \in run'[m].locks /\ <<t, mode>> \in run'[n].locks)
           /\ ~(<<t, "exclusive">> \in run'[n].locks /\ <<t, mode>> \in run'[m].locks)
<1> SUFFICES ASSUME NEW t \in Lockable, NEW mode \in {"share", "exclusive"}
             PROVE  /\ ~(<<t, "exclusive">> \in run'[m].locks /\ <<t, mode>> \in run'[n].locks)
                    /\ ~(<<t, "exclusive">> \in run'[n].locks /\ <<t, mode>> \in run'[m].locks)
  OBVIOUS
<1>1. t \in Front(m, s) =>
        /\ <<t, "exclusive">> \notin run[n].locks
        /\ s.lock = "exclusive" => <<t, "share">> \notin run[n].locks
  BY DEF Lockers
<1>2. \A x : <<t, x>> \in run'[m].locks =>
        <<t, x>> \in run[m].locks \/ (t \in Front(m, s) /\ x = s.lock)
  OBVIOUS
<1>3. ~(<<t, "exclusive">> \in run'[m].locks /\ <<t, mode>> \in run'[n].locks)
  BY <1>1, <1>2 DEF Apart
<1>4. ~(<<t, "exclusive">> \in run'[n].locks /\ <<t, mode>> \in run'[m].locks)
  BY <1>1, <1>2 DEF Apart
<1> QED
  BY <1>3, <1>4

(* A statement that had nobody to wait for brings its run into conflict    *)
(* with nobody.                                                            *)
LEMMA ExecuteApart ==
  ASSUME Typed, NEW m \in Runs, Execute(m), NEW n \in Others(m), Apart(m, n), Apart(n, m)
  PROVE  Apart(m, n)' /\ Apart(n, m)'
<1> DEFINE s == Wants(m)
<1>1. Objection(m, s) = "nothing" /\ Lockers(m, s) = {} /\ Holders(m, s) = {} /\ Current' = Current
  BY Granted
<1>2. run'[n] = run[n]
  BY AfterFields
<1>3. /\ run'[m].locks = run[m].locks \cup {<<t, s.lock>> : t \in LockedBy(m, s)}
      /\ s.does = "create" => run'[m].created = run[m].created \cup ({s.object} \ Seen(m))
      /\ s.does # "create" => run'[m].created = run[m].created
      /\ s.does # "stamp" => (run'[m].stamped <=> run[m].stamped)
  BY AfterFields
<1>4. \A t \in LockedBy(m, s) : <<t, s.lock>> \in run[m].locks \/ t \in Front(m, s)
  BY DEF Execute, Lacks
<1> HIDE DEF s
<1>5. \A t \in Lockable, mode \in {"share", "exclusive"} :
        /\ ~(<<t, "exclusive">> \in run'[m].locks /\ <<t, mode>> \in run'[n].locks)
        /\ ~(<<t, "exclusive">> \in run'[n].locks /\ <<t, mode>> \in run'[m].locks)
  <2>1. run'[m].locks \subseteq run[m].locks \cup {<<t, s.lock>> : t \in Front(m, s)}
    BY <1>3, <1>4
  <2> QED
    BY <1>1, <1>2, <2>1, LocksApart
<1>6. run'[m].created \cap run'[n].created = {}
  <2>1. s.does = "create" => s.object \notin run[n].created
    BY <1>1 DEF Holders
  <2> QED
    BY <1>2, <1>3, <2>1 DEF Apart
<1>7. ~(run'[m].stamped /\ run'[n].stamped)
  <2>1. CASE s.does = "stamp"
    <3>1. ~run[m].stamped => run[m].version = Current
      BY <1>1, <2>1, NoObjection
    <3>2. ~(run[n].stamped /\ run[m].version = Current)
      BY <1>1, <2>1 DEF Holders
    <3> QED
      BY <1>2, <3>1, <3>2 DEF Apart
  <2>2. CASE s.does # "stamp"
    BY <1>2, <1>3, <2>2 DEF Apart
  <2> QED
    BY <2>1, <2>2
<1> QED
  BY <1>5, <1>6, <1>7 DEF Apart

(* A run that nobody touches stays what it is.                             *)
LEMMA Untouched ==
  ASSUME NEW n \in Runs, run'[n] = run[n], objects' = objects, Current' = Current,
         n \in overtaken' <=> n \in overtaken
  PROVE  /\ Running(n)' <=> Running(n)
         /\ Underway(n) => Underway(n)'
         /\ Ended(n) => Ended(n)'
         /\ Covered(n) => Covered(n)'
<1>1. Seen(n)' = Seen(n)
  BY DEF Seen
<1>2. \A j, k : Upgrading(n, j, k) => Upgrading(n, j, k)'
  BY DEF Upgrading
<1>3. \A j, k : Downgrading(n, j, k) => Downgrading(n, j, k)'
  BY <1>1 DEF Downgrading
<1> QED
  BY <1>2, <1>3 DEF Running, Underway, Ended, Covered

(* A statement keeps what holds of the runs.                               *)
LEMMA ExecuteRuns ==
  ASSUME Typed, RunsInv, SchemaInv, NEW m \in Runs, Execute(m)
  PROVE  RunsInv'
<1>1. /\ objects' = objects /\ overtaken' = overtaken /\ Current' = Current
      /\ \A n \in Others(m) : run'[n] = run[n]
  BY Granted, AfterFields
<1>2. Running(m) /\ Running(m)'
  BY AfterFields DEF Execute, Free, Running
<1>3. Underway(m) /\ Covered(m)
  BY <1>2 DEF RunsInv
<1>4. Underway(m)'
  <2>1. ASSUME run[m].direction = "upgrade", NEW j \in 1..4, NEW k \in 0..2, Upgrading(m, j, k)
        PROVE  Underway(m)'
    BY <2>1, ExecuteUpgrade
  <2>2. ASSUME run[m].direction = "downgrade", NEW j \in 0..3, NEW k \in 0..3, Downgrading(m, j, k)
        PROVE  Underway(m)'
    BY <1>3, <2>2, ExecuteDowngrade
  <2> QED
    BY <1>3, <2>1, <2>2 DEF Underway
<1>5. Covered(m)'
  BY <1>3, ExecuteCovered
<1>6. ASSUME NEW n \in Others(m)
      PROVE  /\ n \in Runs
             /\ IF Running(n) THEN Underway(n) ELSE Ended(n)
             /\ Covered(n) /\ Apart(m, n) /\ Apart(n, m)
             /\ \A o \in Others(n) : Apart(n, o)
  BY DEF RunsInv, Others
<1>7. ASSUME NEW n \in Others(m)
      PROVE  /\ IF Running(n)' THEN Underway(n)' ELSE Ended(n)'
             /\ Covered(n)' /\ Apart(m, n)' /\ Apart(n, m)'
             /\ \A o \in Others(n) : o # m => Apart(n, o)'
  <2>1. /\ IF Running(n)' THEN Underway(n)' ELSE Ended(n)'
        /\ Covered(n)'
    BY <1>1, <1>6, Untouched
  <2>2. Apart(m, n)' /\ Apart(n, m)'
    BY <1>6, ExecuteApart
  <2>3. ASSUME NEW o \in Others(n), o # m PROVE Apart(n, o)'
    <3>1. o \in Others(m) /\ Apart(n, o)
      BY <1>6, <2>3 DEF Others
    <3> QED
      BY <1>1, <3>1 DEF Apart
  <2> QED
    BY <2>1, <2>2, <2>3
<1> QED
  BY <1>2, <1>4, <1>5, <1>7 DEF RunsInv, Others

(* What takes more than one lock is the DROP of the tables.                *)
LEMMA OneTable ==
  ASSUME NEW s \in Statements
  PROVE  \/ \E t : s.tables \subseteq {t} /\ s.tables \subseteq Tables
         \/ s.does = "drop" /\ s.object = "tables"
<1>1. CASE s \in {Stamp(i) : i \in 0..3}
  BY <1>1, StampStatement
<1>2. ASSUME NEW p \in Steps, s = Upgrade(p[1])[p[2]]
      PROVE  \E t : s.tables \subseteq {t} /\ s.tables \subseteq Tables
  <2>1. p[1] \in {1, 2, 3} /\ p[2] \in {1, 2}
    BY DEF Steps
  <2> QED
    BY <1>2, <2>1 DEF Upgrade, Statement, Tables
<1>3. ASSUME NEW p \in Steps, s = Downgrade(p[1])[p[2]]
      PROVE  \/ \E t : s.tables \subseteq {t} /\ s.tables \subseteq Tables
             \/ s.does = "drop" /\ s.object = "tables"
  <2>1. (p[1] = 1 \/ p[1] = 2 \/ p[1] = 3) /\ (p[2] = 1 \/ p[2] = 2)
    BY DEF Steps
  <2> QED
    BY <1>3, <2>1, DowngradeStatements DEF Tables
<1> QED
  BY <1>1, <1>2, <1>3 DEF Statements

(* An upgrade drops nothing.                                               *)
LEMMA UpgradesDropNothing ==
  ASSUME NEW m \in Runs, run[m].plan # << >>, NEW j \in 1..4, NEW k \in 0..2, Upgrading(m, j, k)
  PROVE  Wants(m).does # "drop"
<1> DEFINE s == Wants(m)
<1>1. j \in 1..3 /\ run[m].plan = RestOfUpgrade(j, k)
  BY UpgradeScript DEF Upgrading
<1>2. s = IF k < 2 THEN Upgrade(j)[k + 1] ELSE Stamp(j)
  BY <1>1, UpgradeScript DEF Wants
<1>3. k = 2 => s.does = "stamp"
  BY <1>2, StampStatement
<1>4. k # 2 => s = Upgrade(j)[k + 1] /\ k + 1 \in {1, 2}
  BY <1>2
<1>5. k # 2 => s.does = "create"
  BY <1>1, <1>4, UpgradeStatements
<1> QED
  BY <1>3, <1>5

(* What a downgrade is about to drop.                                      *)
LEMMA NextDrop ==
  ASSUME NEW m \in Runs, run[m].plan # << >>, NEW j \in 0..3, NEW k \in 0..3, Downgrading(m, j, k),
         Wants(m).does = "drop"
  PROVE  /\ j = 1 \/ j = 2 \/ j = 3
         /\ \/ k = 0 /\ Wants(m) = Downgrade(j)[1]
            \/ k = 1 /\ Wants(m) = Downgrade(j)[2]
<1> DEFINE s == Wants(m)
<1>1. j \in 1..3 /\ k \in 0..2 /\ run[m].plan = RestOfDowngrade(j, k)
  <2>1. run[m].plan = RestOfDowngrade(j, k) /\ (j = 0 => k = 0)
    BY DEF Downgrading
  <2>2. j # 0
    BY <2>1, DowngradeScript
  <2>3. j \in 1..3
    BY <2>2
  <2>4. k # 3
    BY <2>1, <2>3, DowngradeScript
  <2> QED
    BY <2>1, <2>3, <2>4
<1>2. s = IF k < 2 THEN Downgrade(j)[k + 1] ELSE Stamp(j - 1)
  <2>1. s = Head(RestOfDowngrade(j, k))
    BY <1>1 DEF Wants
  <2>2. Head(RestOfDowngrade(j, k)) = IF k < 2 THEN Downgrade(j)[k + 1] ELSE Stamp(j - 1)
    BY <1>1, DowngradeScript
  <2> QED
    BY <2>1, <2>2, Zenon
<1>3. k # 2
  <2>1. k = 2 => s.does = "stamp"
    BY <1>2, StampStatement
  <2> QED
    BY <2>1
<1>4. k = 0 \/ k = 1
  BY <1>1, <1>3
<1>5. s = Downgrade(j)[k + 1] /\ 0 + 1 = 1 /\ 1 + 1 = 2
  BY <1>2, <1>4
<1>6. j = 1 \/ j = 2 \/ j = 3
  BY <1>1
<1> QED
  BY <1>4, <1>5, <1>6

(* Who is about to drop the tables reverts the first revision, and has     *)
(* dropped no more than the view.                                          *)
LEMMA DropsTables ==
  ASSUME Typed, RunsInv, NEW m \in Runs, Running(m), run[m].plan # << >>,
         Wants(m).does = "drop", Wants(m).object = "tables"
  PROVE  Reverting(m) /\ run[m].direction = "downgrade" /\ Downgrading(m, 1, 1)
<1>1. Underway(m)
  BY DEF RunsInv
<1>2. ASSUME NEW j \in 1..4, NEW k \in 0..2, Upgrading(m, j, k)
      PROVE  FALSE
  BY <1>2, UpgradesDropNothing
<1>3. ASSUME NEW j \in 0..3, NEW k \in 0..3, Downgrading(m, j, k)
      PROVE  j = 1 /\ k = 1
  BY <1>3, NextDrop, DowngradeStatements
<1>4. run[m].direction = "downgrade" /\ Downgrading(m, 1, 1)
  BY <1>1, <1>2, <1>3 DEF Underway
<1>5. run[m].version = 1
  BY <1>4 DEF Downgrading
<1> QED
  BY <1>4, <1>5 DEF Reverting

(* So does who is about to drop the view.                                  *)
LEMMA DropsView ==
  ASSUME Typed, RunsInv, NEW m \in Runs, Running(m), run[m].plan # << >>,
         Wants(m).does = "drop", Wants(m).object = "readiness"
  PROVE  Reverting(m)
<1>1. Underway(m)
  BY DEF RunsInv
<1>2. ASSUME NEW j \in 1..4, NEW k \in 0..2, Upgrading(m, j, k)
      PROVE  FALSE
  BY <1>2, UpgradesDropNothing
<1>3. ASSUME NEW j \in 0..3, NEW k \in 0..3, Downgrading(m, j, k)
      PROVE  j = 1 /\ k = 0
  BY <1>3, NextDrop, DowngradeStatements
<1>4. run[m].direction = "downgrade" /\ Downgrading(m, 1, 0)
  BY <1>1, <1>2, <1>3 DEF Underway
<1>5. run[m].version = 1
  BY <1>4 DEF Downgrading
<1> QED
  BY <1>5, <1>4 DEF Reverting

(* A run that takes a lock before the last one is about to drop the        *)
(* tables, and bets is the first one that it locks.                        *)
LEMMA LockFields ==
  ASSUME Typed, NEW m \in Runs, Lock(m)
  PROVE  LET s == Wants(m)
         IN /\ Running(m) /\ run[m].plan # << >> /\ Lockers(m, s) = {}
            /\ s.does = "drop" /\ s.object = "tables" /\ s.lock = "exclusive"
            /\ run'[m].locks = run[m].locks \cup {<<t, s.lock>> : t \in Front(m, s)}
            /\ run[m].locks = {} => <<"bets", "exclusive">> \in run'[m].locks
            /\ run'[m].phase = run[m].phase /\ run'[m].direction = run[m].direction
            /\ run'[m].plan = run[m].plan /\ run'[m].created = run[m].created
            /\ run'[m].dropped = run[m].dropped /\ run'[m].version = run[m].version
            /\ run'[m].stamped <=> run[m].stamped
            /\ \A n \in Others(m) : run'[n] = run[n]
            /\ objects' = objects /\ overtaken' = overtaken /\ Current' = Current
<1> DEFINE s == Wants(m)
           fresh == {<<t, s.lock>> : t \in Front(m, s)}
<1>1. Running(m) /\ run[m].plan # << >> /\ Lockers(m, s) = {}
  BY FreeRun DEF Lock
<1>2. s \in Statements
  BY <1>1, NextStatement
<1>3. run[m] \in Transactions /\ run \in [Runs -> Transactions]
  BY DEF Typed
<1>4. run'[m] = [run[m] EXCEPT !.locks = @ \cup fresh]
  BY <1>3 DEF Lock
<1>5. (\A n \in Others(m) : run'[n] = run[n])
      /\ objects' = objects /\ overtaken' = overtaken /\ Current' = Current
  BY <1>3 DEF Lock, Others, historyVars, Current
<1>6. Objection(m, s) = "nothing" /\ ~(Lacks(m, s) \subseteq Front(m, s))
  BY DEF Lock
<1> HIDE DEF s
<1>7. s.does = "drop" /\ s.object = "tables"
  <2> SUFFICES ASSUME NEW t, s.tables \subseteq {t}, s.tables \subseteq Tables PROVE FALSE
    BY <1>2, OneTable
  <2>1. \A u \in Lacks(m, s) : u = t /\ u \in Tables
    BY DEF Lacks, LockedBy
  <2>2. \A u \in Tables : DropRank[u] <= DropRank[u]
    BY DEF Tables, DropRank
  <2> QED
    BY <1>6, <2>1, <2>2 DEF Front
<1>8. s.tables = Lockable /\ s.lock = "exclusive" /\ s.object \in Seen(m)
  BY <1>2, <1>6, <1>7, IndexStatements, NoObjection
<1>9. run[m].locks = {} => <<"bets", "exclusive">> \in fresh
  <2>1. SUFFICES ASSUME run[m].locks = {} PROVE "bets" \in Front(m, s)
    BY <1>8
  <2>2. Lacks(m, s) = Lockable
    BY <1>7, <1>8, <2>1 DEF Lacks, LockedBy
  <2>3. "bets" \in Lockable /\ \A u \in Lockable : DropRank["bets"] <= DropRank[u]
    BY DEF Lockable, Tables, DropRank
  <2> QED
    BY <2>2, <2>3 DEF Front
<1> HIDE DEF fresh
<1>10. /\ run'[m].locks = run[m].locks \cup fresh
       /\ run'[m].phase = run[m].phase /\ run'[m].direction = run[m].direction
       /\ run'[m].plan = run[m].plan /\ run'[m].created = run[m].created
       /\ run'[m].dropped = run[m].dropped /\ run'[m].version = run[m].version
       /\ run'[m].stamped <=> run[m].stamped
  BY <1>3, <1>4 DEF Transactions
<1> QED
  BY <1>1, <1>5, <1>7, <1>8, <1>9, <1>10 DEF s, fresh

LEMMA LockRuns ==
  ASSUME Typed, RunsInv, NEW m \in Runs, Lock(m)
  PROVE  RunsInv'
<1> DEFINE s == Wants(m)
<1>1. /\ Running(m) /\ run[m].plan # << >> /\ Lockers(m, s) = {}
      /\ s.does = "drop" /\ s.object = "tables"
      /\ run'[m].locks = run[m].locks \cup {<<t, s.lock>> : t \in Front(m, s)}
      /\ run[m].locks = {} => <<"bets", "exclusive">> \in run'[m].locks
      /\ run'[m].phase = run[m].phase /\ run'[m].direction = run[m].direction
      /\ run'[m].plan = run[m].plan /\ run'[m].created = run[m].created
      /\ run'[m].dropped = run[m].dropped /\ run'[m].version = run[m].version
      /\ run'[m].stamped <=> run[m].stamped
      /\ \A n \in Others(m) : run'[n] = run[n]
      /\ objects' = objects /\ overtaken' = overtaken /\ Current' = Current
  BY LockFields
<1>2. run[m].direction = "downgrade" /\ Downgrading(m, 1, 1)
  BY <1>1, DropsTables
<1> HIDE DEF s
<1>3. Underway(m)'
  <2>1. Seen(m)' = Seen(m)
    BY <1>1 DEF Seen
  <2>2. Downgrading(m, 1, 1)'
    BY <1>1, <1>2, <2>1 DEF Downgrading
  <2> QED
    BY <1>1, <1>2, <2>2 DEF Underway
<1>4. Covered(m)'
  <2>1. Covered(m)
    BY DEF RunsInv
  <2> QED
    BY <1>1, <2>1 DEF Covered
<1>5. ASSUME NEW n \in Others(m)
      PROVE  /\ IF Running(n)' THEN Underway(n)' ELSE Ended(n)'
             /\ Covered(n)' /\ Apart(m, n)' /\ Apart(n, m)'
             /\ \A o \in Others(n) : o # m => Apart(n, o)'
  <2>1. /\ n \in Runs
        /\ IF Running(n) THEN Underway(n) ELSE Ended(n)
        /\ Covered(n) /\ Apart(m, n) /\ Apart(n, m)
        /\ \A o \in Others(n) : Apart(n, o)
    BY DEF RunsInv, Others
  <2>2. /\ IF Running(n)' THEN Underway(n)' ELSE Ended(n)'
        /\ Covered(n)'
    BY <1>1, <2>1, Untouched
  <2>3. Apart(m, n)' /\ Apart(n, m)'
    <3>1. run'[n] = run[n] /\ Lockers(m, s) = {}
          /\ run'[m].locks \subseteq run[m].locks \cup {<<t, s.lock>> : t \in Front(m, s)}
      BY <1>1
    <3>2. \A t \in Lockable, mode \in {"share", "exclusive"} :
            /\ ~(<<t, "exclusive">> \in run'[m].locks /\ <<t, mode>> \in run'[n].locks)
            /\ ~(<<t, "exclusive">> \in run'[n].locks /\ <<t, mode>> \in run'[m].locks)
      BY <2>1, <3>1, LocksApart
    <3> QED
      BY <1>1, <2>1, <3>1, <3>2 DEF Apart
  <2>4. ASSUME NEW o \in Others(n), o # m PROVE Apart(n, o)'
    <3>1. o \in Others(m) /\ Apart(n, o)
      BY <2>1, <2>4 DEF Others
    <3> QED
      BY <1>1, <3>1 DEF Apart
  <2> QED
    BY <2>2, <2>3, <2>4
<1> QED
  BY <1>1, <1>3, <1>4, <1>5 DEF RunsInv, Others, Running

(* A run that begins, or has given up its transaction.                     *)
LEMMA FreshRun ==
  ASSUME RunsInv, NEW m \in Runs, objects' = objects, version' = version,
         overtaken' = overtaken, \A n \in Others(m) : run'[n] = run[n],
         Ended(m)', Running(m)' => Underway(m)'
  PROVE  RunsInv'
<1>1. Current' = Current
  BY DEF Current
<1>2. Covered(m)'
  BY DEF Covered, Ended
<1>3. ASSUME NEW n \in Others(m)
      PROVE  /\ IF Running(n)' THEN Underway(n)' ELSE Ended(n)'
             /\ Covered(n)' /\ Apart(m, n)' /\ Apart(n, m)'
             /\ \A o \in Others(n) : o # m => Apart(n, o)'
  <2>1. /\ n \in Runs
        /\ IF Running(n) THEN Underway(n) ELSE Ended(n)
        /\ Covered(n)
        /\ \A o \in Others(n) : Apart(n, o)
    BY DEF RunsInv, Others
  <2>2. /\ IF Running(n)' THEN Underway(n)' ELSE Ended(n)'
        /\ Covered(n)'
    BY <1>1, <2>1, Untouched
  <2>3. Apart(m, n)' /\ Apart(n, m)'
    BY DEF Apart, Ended
  <2>4. ASSUME NEW o \in Others(n), o # m PROVE Apart(n, o)'
    <3>1. o \in Others(m) /\ Apart(n, o)
      BY <2>1, <2>4 DEF Others
    <3> QED
      BY <3>1 DEF Apart
  <2> QED
    BY <2>2, <2>3, <2>4
<1> QED
  BY <1>2, <1>3 DEF RunsInv, Others

(* A run that begins starts at the top of its script.                      *)
LEMMA BeginRuns ==
  ASSUME Typed, RunsInv, SchemaInv, NEW m \in Runs, Begin(m)
  PROVE  RunsInv'
<1>1. PICK d \in Directions[m] :
        run' = [run EXCEPT ![m] =
          [Idle EXCEPT !.phase = "running", !.direction = d,
                       !.plan = Plan(d, Current), !.version = Current]]
  BY DEF Begin
<1>2. d \in {"upgrade", "downgrade"}
  BY MigrationsAssumption DEF MigrationsAssumption
<1> DEFINE r == [Idle EXCEPT !.phase = "running", !.direction = d,
                             !.plan = Plan(d, Current), !.version = Current]
<1>3. run'[m] = r /\ \A n \in Others(m) : run'[n] = run[n]
  BY <1>1 DEF Typed, Others
<1>4. /\ r.phase = "running" /\ r.direction = d /\ r.plan = Plan(d, Current) /\ r.version = Current
      /\ r.locks = {} /\ r.created = {} /\ r.dropped = {} /\ ~r.stamped
  BY DEF Idle
<1> HIDE DEF r
<1>5. objects' = objects /\ version' = version /\ overtaken' = overtaken /\ Current' = Current
  BY DEF Begin, historyVars, Current
<1>6. Ended(m)'
  BY <1>3, <1>4 DEF Ended
<1>7. Current \in 0..3
  BY DEF Typed, TypeOK, Current, NoTable, HeadRevision, Revisions
<1>8. Underway(m)'
  <2>1. CASE d = "upgrade"
    <3>1. PICK j \in 1..4 : j - 1 = Current
      <4>1. Current + 1 \in 1..4 /\ (Current + 1) - 1 = Current
        BY <1>7
      <4> QED
        BY <4>1
    <3>2. Plan("upgrade", Current) = RestOfUpgrade(j, 0)
      BY <3>1, UpgradeScript
    <3>3. Made(j, 0) = {}
      BY MadeAndGone
    <3>4. Upgrading(m, j, 0)'
      BY <1>3, <1>4, <1>5, <2>1, <3>1, <3>2, <3>3 DEF Upgrading
    <3> QED
      BY <1>3, <1>4, <2>1, <3>1, <3>4 DEF Underway
  <2>2. CASE d = "downgrade"
    <3>1. PICK j \in 0..3 : j = Current
      BY <1>7
    <3>2. Plan("downgrade", j) = RestOfDowngrade(j, 0)
      BY <3>1, DowngradeScript
    <3>3. Gone(j, 0) = {}
      BY MadeAndGone
    <3>4. Current' = j
      BY <1>5, <3>1
    <3>5. r.plan = RestOfDowngrade(j, 0) /\ r.version = j
      BY <1>4, <2>2, <3>1, <3>2
    <3>6. Downgrading(m, j, 0)'
      BY <1>3, <1>4, <1>5, <2>2, <3>1, <3>3, <3>4, <3>5 DEF Downgrading
    <3> QED
      BY <1>3, <1>4, <2>2, <3>1, <3>6 DEF Underway
  <2> QED
    BY <1>2, <2>1, <2>2
<1> QED
  BY <1>3, <1>5, <1>6, <1>8, FreshRun

(* A run that ends gives up all that it holds.                             *)
LEMMA EndedRun ==
  ASSUME NEW phase, NEW m \in Runs, Typed, run' = [run EXCEPT ![m] = [Idle EXCEPT !.phase = phase]]
  PROVE  /\ run'[m].phase = phase /\ Ended(m)'
         /\ \A n \in Others(m) : run'[n] = run[n]
<1>1. run'[m] = [Idle EXCEPT !.phase = phase] /\ \A n \in Others(m) : run'[n] = run[n]
  BY DEF Typed, Others
<1>2. LET r == [Idle EXCEPT !.phase = phase]
      IN /\ r.phase = phase /\ r.locks = {} /\ r.created = {} /\ r.dropped = {} /\ ~r.stamped
  BY DEF Idle
<1> QED
  BY <1>1, <1>2 DEF Ended

(* A run that fails or is killed disturbs no other.                        *)
LEMMA GiveUpRuns ==
  ASSUME Typed, RunsInv, NEW m \in Runs, Fail(m) \/ Kill(m)
  PROVE  RunsInv' /\ run'[m].phase \in {"failed", "killed"} /\ \A n \in Others(m) : run'[n] = run[n]
<1>1. PICK phase \in {"failed", "killed"} : run' = [run EXCEPT ![m] = [Idle EXCEPT !.phase = phase]]
  BY DEF Fail, Kill, RolledBack
<1>2. /\ run'[m].phase = phase /\ Ended(m)'
      /\ \A n \in Others(m) : run'[n] = run[n]
  BY <1>1, EndedRun
<1>3. objects' = objects /\ version' = version /\ overtaken' = overtaken
  BY DEF Fail, Kill, Unchanged, historyVars
<1>4. ~Running(m)'
  BY <1>2 DEF Running
<1> QED
  BY <1>2, <1>3, <1>4, FreshRun

(* Only a commit changes the schema.                                       *)
LEMMA SchemaKept ==
  ASSUME SchemaInv, objects' = objects, version' = version, overtaken' = overtaken,
         \A n \in Runs : run[n].phase = "done" => run'[n].phase = "done"
  PROVE  SchemaInv'
BY DEF SchemaInv, Current, LostRace

-----------------------------------------------------------------------------
(* A RUN COMMITS                                                           *)

(* A run that is through and has not stamped has changed nothing.          *)
LEMMA NothingDone ==
  ASSUME NEW m \in Runs, Underway(m), run[m].plan = << >>, ~run[m].stamped
  PROVE  run[m].created = {} /\ run[m].dropped = {} /\ run[m].locks = {}
<1>1. ASSUME NEW j \in 1..4, NEW k \in 0..2, Upgrading(m, j, k)
      PROVE  run[m].created = {} /\ run[m].dropped = {} /\ run[m].locks = {}
  <2>1. j = 4 /\ k = 0
    <3>1. j \notin 1..3
      BY <1>1, UpgradeScript DEF Upgrading
    <3> QED
      BY <1>1, <3>1 DEF Upgrading
  <2>2. Made(j, k) = {}
    BY <2>1, MadeAndGone
  <2> QED
    BY <1>1, <2>1, <2>2 DEF Upgrading
<1>2. ASSUME NEW j \in 0..3, NEW k \in 0..3, Downgrading(m, j, k)
      PROVE  run[m].created = {} /\ run[m].dropped = {} /\ run[m].locks = {}
  <2>1. k # 3 /\ run[m].plan = RestOfDowngrade(j, k) /\ (j = 0 => k = 0)
    BY <1>2 DEF Downgrading
  <2>2. k \in 0..2
    BY <2>1
  <2>3. j \notin 1..3
    BY <2>1, <2>2, DowngradeScript
  <2> QED
    BY <1>2, <2>1, <2>3 DEF Downgrading
<1> QED
  BY <1>1, <1>2 DEF Underway

(* What a commit changes.                                                  *)
LEMMA Committed ==
  ASSUME Typed, NEW m \in Runs, Commit(m)
  PROVE  /\ Running(m) /\ run[m].plan = << >>
         /\ objects' = (objects \cup run[m].created) \ run[m].dropped
         /\ run'[m].phase = "done" /\ Ended(m)' /\ ~Running(m)'
         /\ \A n \in Others(m) : run'[n] = run[n]
         /\ run[m].stamped => Current' = run[m].version
         /\ ~run[m].stamped => Current' = Current /\ overtaken' = overtaken
         /\ run[m].stamped => overtaken' = overtaken \cup {n \in Others(m) : Running(n)}
         /\ overtaken \subseteq overtaken' /\ why' = why
         /\ vouched' = (vouched /\ run[m].direction = "upgrade")
<1>1. run' = [run EXCEPT ![m] = [Idle EXCEPT !.phase = "done"]]
  BY DEF Commit
<1>2. /\ run'[m].phase = "done" /\ Ended(m)'
      /\ \A n \in Others(m) : run'[n] = run[n]
  BY <1>1, EndedRun
<1>3. run[m].stamped => Current' = run[m].version
  <2>1. run[m].version \in 0..3
    BY DEF Typed, Transactions
  <2>2. run[m].version # NoTable
    BY <2>1 DEF NoTable
  <2> QED
    BY <2>2 DEF Commit, Current
<1>4. ~run[m].stamped => Current' = Current /\ overtaken' = overtaken
  BY DEF Commit, Current
<1> QED
  BY <1>2, <1>3, <1>4 DEF Commit, Seen, Running

(* A commit overtakes the others: their scripts go on, and their changes   *)
(* stay covered.                                                           *)
LEMMA CommitOthers ==
  ASSUME Typed, RunsInv, NEW m \in Runs, Commit(m), run[m].stamped, NEW n \in Others(m)
  PROVE  /\ IF Running(n)' THEN Underway(n)' ELSE Ended(n)'
         /\ Covered(n)'
<1>1. /\ objects' = (objects \cup run[m].created) \ run[m].dropped
      /\ run'[n] = run[n]
      /\ Running(n) => n \in overtaken'
  BY Committed
<1>2. /\ n \in Runs /\ m \in Others(n)
      /\ IF Running(n) THEN Underway(n) ELSE Ended(n)
      /\ Covered(m) /\ Covered(n) /\ Apart(m, n) /\ Apart(n, m)
  BY DEF RunsInv, Others
<1>3. ~run[n].stamped
  BY <1>2 DEF Apart
<1>4. ASSUME NEW o \in Indexes, o \in run[m].dropped
      PROVE  \A mode \in {"share", "exclusive"} : <<TableOf(o), mode>> \notin run[n].locks
  <2>1. <<TableOf(o), "exclusive">> \in run[m].locks
    BY <1>2, <1>4 DEF Covered
  <2>2. TableOf(o) \in Lockable
    BY DEF TableOf, Lockable, Tables
  <2> QED
    BY <1>2, <2>1, <2>2 DEF Apart
<1>5. ASSUME Running(n), NEW j \in 1..4, NEW k \in 0..2, Upgrading(n, j, k)
      PROVE  Upgrading(n, j, k)'
  <2>1. Made(j, k) \subseteq run[n].created \cup objects'
    <3>1. CASE j < 3
      BY <1>5, <3>1 DEF Upgrading
    <3>2. CASE k = 0
      BY <3>2, MadeAndGone
    <3>3. CASE j = 3 /\ k > 0
      <4>1. <<"bets", "share">> \in run[n].locks
        BY <1>3, <1>5, <3>3 DEF Upgrading
      <4>2. Made(j, k) \subseteq {"uq_bets_user_external_id", "idx_bets_placed_at"}
        <5>1. k = 1 \/ k = 2
          BY <3>3
        <5> QED
          BY <3>3, <5>1, MadeAndGone, UpgradeStatements
      <4>3. \A o \in Made(j, k) : o \in Indexes /\ TableOf(o) = "bets"
        BY <4>2, Catalogue DEF Indexes, Objects, TableOf
      <4>4. \A o \in Made(j, k) : o \notin run[m].dropped
        BY <1>4, <4>1, <4>3
      <4> QED
        BY <1>1, <1>5, <4>4 DEF Upgrading
    <3> QED
      BY <1>5, <3>1, <3>2, <3>3 DEF Upgrading
  <2>2. n \in overtaken'
    BY <1>1, <1>5
  <2> QED
    BY <1>1, <1>3, <1>5, <2>1, <2>2 DEF Upgrading
<1>6. ASSUME Running(n), NEW j \in 0..3, NEW k \in 0..3, Downgrading(n, j, k)
      PROVE  Downgrading(n, j, k)'
  <2>1. k # 3 /\ n \in overtaken'
    BY <1>1, <1>3, <1>6 DEF Downgrading
  <2> QED
    BY <1>1, <1>6, <2>1 DEF Downgrading
<1>7. IF Running(n)' THEN Underway(n)' ELSE Ended(n)'
  BY <1>1, <1>2, <1>5, <1>6 DEF Running, Underway, Ended
<1>8. ASSUME "tables" \in run[n].dropped
      PROVE  "tables" \in objects' /\ objects' \subseteq run[n].dropped
  <2>1. /\ \A t \in Lockable : <<t, "exclusive">> \in run[n].locks
        /\ "tables" \in objects /\ objects \subseteq run[n].dropped
    BY <1>2, <1>8 DEF Covered
  <2>2. \A t \in Lockable, mode \in {"share", "exclusive"} : <<t, mode>> \notin run[m].locks
    BY <1>2, <2>1 DEF Apart
  <2>3. \A o \in Indexes : o \notin run[m].created
    <3>1. \A o : TableOf(o) \in Lockable
      BY DEF TableOf, Lockable, Tables
    <3> QED
      BY <1>2, <2>2, <3>1 DEF Covered
  <2>4. "tables" \notin run[m].created /\ "readiness" \notin run[m].created
    BY <1>2, <2>1 DEF Covered
  <2>5. run[m].created = {}
    <3>1. run[m].created \subseteq Objects
      BY <1>2 DEF Typed, Transactions, Others
    <3>2. Objects = Indexes \cup {"tables", "readiness"}
      BY Catalogue DEF Indexes, Objects
    <3> QED
      BY <2>3, <2>4, <3>1, <3>2
  <2>6. "tables" \notin run[m].dropped
    <3>1. "odds" \in Lockable
      BY DEF Lockable, Tables
    <3> QED
      BY <1>2, <2>2, <3>1 DEF Covered
  <2> QED
    BY <1>1, <2>1, <2>5, <2>6
<1>9. run[n].created \cap objects' = {}
  BY <1>1, <1>2 DEF Apart, Covered
<1>10. Covered(n)'
  BY <1>1, <1>2, <1>8, <1>9 DEF Covered
<1> QED
  BY <1>7, <1>10

(* A commit keeps what holds of the runs.                                  *)
LEMMA CommitRuns ==
  ASSUME Typed, RunsInv, NEW m \in Runs, Commit(m)
  PROVE  RunsInv'
<1>1. /\ run'[m].phase = "done" /\ Ended(m)' /\ ~Running(m)'
      /\ \A n \in Others(m) : run'[n] = run[n]
  BY Committed
<1>2. CASE ~run[m].stamped
  <2>1. run[m].created = {} /\ run[m].dropped = {}
    BY <1>2, Committed, NothingDone DEF RunsInv
  <2>2. objects' = objects /\ version' = version /\ overtaken' = overtaken
    BY <1>2, <2>1, Committed DEF Commit
  <2> QED
    BY <1>1, <2>2, FreshRun
<1>3. CASE run[m].stamped
  <2>1. Covered(m)'
    BY <1>1 DEF Ended, Covered
  <2>2. ASSUME NEW n \in Others(m)
        PROVE  /\ IF Running(n)' THEN Underway(n)' ELSE Ended(n)'
               /\ Covered(n)' /\ Apart(m, n)' /\ Apart(n, m)'
               /\ \A o \in Others(n) : o # m => Apart(n, o)'
    <3>1. /\ IF Running(n)' THEN Underway(n)' ELSE Ended(n)'
          /\ Covered(n)'
      BY <1>3, CommitOthers
    <3>2. Apart(m, n)' /\ Apart(n, m)'
      BY <1>1 DEF Apart, Ended
    <3>3. ASSUME NEW o \in Others(n), o # m PROVE Apart(n, o)'
      <4>1. o \in Others(m) /\ Apart(n, o)
        BY <3>3 DEF Others, RunsInv
      <4> QED
        BY <1>1, <4>1 DEF Apart
    <3> QED
      BY <3>1, <3>2, <3>3
  <2> QED
    BY <1>1, <2>1, <2>2 DEF RunsInv, Others
<1> QED
  BY <1>2, <1>3

(* The schema that a stamped upgrade commits is the head's.                *)
LEMMA CommitUpgradeSchema ==
  ASSUME Typed, NEW m \in Runs, Commit(m), run[m].stamped,
         NEW j \in 1..4, NEW k \in 0..2, Upgrading(m, j, k)
  PROVE  Current' = 3 /\ objects' = ObjectsOf(3)
<1>1. j = 4 /\ k = 0
  <2>1. j \notin 1..3
    BY Committed, UpgradeScript DEF Upgrading
  <2> QED
    BY <2>1 DEF Upgrading
<1>2. 4 - 1 = 3
  OBVIOUS
<1>3. /\ run[m].version = 3 /\ run[m].dropped = {}
      /\ ObjectsOf(3) \subseteq run[m].created \cup objects
  BY <1>1, <1>2 DEF Upgrading
<1>4. run[m].created \cup objects \subseteq ObjectsOf(3)
  BY Catalogue DEF Typed, TypeOK, Transactions
<1> QED
  BY <1>3, <1>4, Committed

(* The schema that a stamped downgrade commits is that of the revision     *)
(* below, unless it has been overtaken.                                    *)
LEMMA CommitDowngradeSchema ==
  ASSUME Typed, SchemaInv, NEW m \in Runs, Covered(m), Commit(m), run[m].stamped,
         NEW j \in 0..3, NEW k \in 0..3, Downgrading(m, j, k)
  PROVE  /\ ObjectsOf(Current)' \subseteq objects'
         /\ KnownFromTheStart =>
              /\ objects' \subseteq ObjectsOf(Current)' \cup Extras
              /\ objects = ObjectsOf(Current) =>
                   objects' = ObjectsOf(Current)' \/ m \in overtaken
<1>1. k = 3 /\ j \in 1..3
  BY DEF Downgrading
<1>2. Current = j /\ run[m].version = j - 1 /\ run[m].created = {}
  BY <1>1 DEF Downgrading
<1>3. Current' = j - 1 /\ objects' = objects \ run[m].dropped
  BY <1>2, Committed
<1>4. ObjectsOf(Current)' = ObjectsOf(j - 1)
  BY <1>3 DEF ObjectsOf
<1>5. objects \subseteq Objects /\ ObjectsOf(j) \subseteq objects
  BY <1>2 DEF Typed, TypeOK, SchemaInv
<1>6. Gone(j, 3) = Gone(j, 2)
  BY MadeAndGone
<1>7. CASE j = 1
  <2>1. objects' = {}
    <3>1. objects \subseteq run[m].dropped
      BY <1>1, <1>7 DEF Downgrading, Covered
    <3> QED
      BY <1>3, <3>1
  <2>2. ObjectsOf(j - 1) = {}
    BY <1>7, Catalogue
  <2> QED
    BY <1>4, <2>1, <2>2
<1>8. CASE j = 2
  <2>1. run[m].dropped = Gone(2, 2)
    <3>1. run[m].dropped \subseteq Gone(2, 3)
      BY <1>8 DEF Downgrading
    <3>2. Gone(2, 3) \subseteq run[m].dropped
      BY <1>1, <1>8 DEF Downgrading
    <3> QED
      BY <1>6, <1>8, <3>1, <3>2
  <2>2. Gone(2, 2) = {"idx_bets_open_only", "uq_odds_snapshot"}
    BY MadeAndGone, DowngradeStatements
  <2>3. ObjectsOf(1) = ObjectsOf(2) \ Gone(2, 2) /\ ObjectsOf(1) \subseteq ObjectsOf(2)
    BY <2>2, Catalogue
  <2>4. KnownFromTheStart => objects \subseteq ObjectsOf(2) \cup Extras
    BY <1>2, <1>8 DEF SchemaInv
  <2>5. ObjectsOf(j - 1) = ObjectsOf(1)
    BY <1>8
  <2> QED
    BY <1>2, <1>3, <1>4, <1>5, <1>8, <2>1, <2>3, <2>4, <2>5
<1>9. CASE j = 3
  <2>1. run[m].dropped \subseteq Gone(3, 2)
    BY <1>1, <1>6, <1>9 DEF Downgrading
  <2>2. Gone(3, 2) = {"idx_bets_placed_at", "uq_bets_user_external_id"}
    BY MadeAndGone, DowngradeStatements
  <2>3. ObjectsOf(2) = ObjectsOf(3) \ Gone(3, 2) /\ ObjectsOf(3) = Objects
        /\ Extras = Gone(3, 2)
    BY <2>2, Catalogue DEF Objects, Extras
  <2>4. m \notin overtaken => Gone(3, 2) \cap objects' = {}
    BY <1>1, <1>2, <1>3, <1>6, <1>9 DEF Downgrading, Seen
  <2>5. ObjectsOf(j - 1) = ObjectsOf(2)
    BY <1>9
  <2> QED
    BY <1>3, <1>4, <1>5, <1>9, <2>1, <2>3, <2>4, <2>5
<1> QED
  BY <1>1, <1>7, <1>8, <1>9

(* A commit keeps the schema and the revision in step.                     *)
LEMMA CommitSchema ==
  ASSUME Typed, RunsInv, SchemaInv, NEW m \in Runs, Commit(m)
  PROVE  SchemaInv'
<1>1. /\ run'[m].phase = "done" /\ Running(m)
      /\ \A n \in Others(m) : run'[n] = run[n]
      /\ overtaken \subseteq overtaken'
  BY Committed
<1>2. \A n \in Runs : run[n].phase = "done" => run'[n].phase = "done"
  BY <1>1 DEF Others
<1>3. overtaken' \subseteq Runs
  BY Committed DEF SchemaInv, Others
<1>4. LostRace => LostRace'
  BY <1>1, <1>2, <1>3 DEF LostRace, SchemaInv
<1>5. m \in overtaken => LostRace'
  BY <1>1 DEF LostRace
<1>6. Underway(m) /\ Covered(m)
  BY <1>1 DEF RunsInv
<1>7. CASE ~run[m].stamped
  <2>1. run[m].created = {} /\ run[m].dropped = {}
    BY <1>6, <1>7, Committed, NothingDone
  <2>2. objects' = objects /\ version' = version /\ overtaken' = overtaken
    BY <1>7, <2>1, Committed DEF Commit
  <2> QED
    BY <1>2, <2>2, SchemaKept
<1>8. CASE run[m].stamped
  <2>1. ASSUME NEW j \in 1..4, NEW k \in 0..2, Upgrading(m, j, k)
        PROVE  SchemaInv'
    <3>1. Current' = 3 /\ objects' = ObjectsOf(3)
      BY <1>8, <2>1, CommitUpgradeSchema
    <3>2. ObjectsOf(Current)' = ObjectsOf(3)
      BY <3>1 DEF ObjectsOf
    <3> QED
      BY <1>3, <3>1, <3>2 DEF SchemaInv
  <2>2. ASSUME NEW j \in 0..3, NEW k \in 0..3, Downgrading(m, j, k)
        PROVE  SchemaInv'
    <3>1. /\ ObjectsOf(Current)' \subseteq objects'
          /\ KnownFromTheStart =>
               /\ objects' \subseteq ObjectsOf(Current)' \cup Extras
               /\ objects = ObjectsOf(Current) =>
                    objects' = ObjectsOf(Current)' \/ m \in overtaken
      BY <1>6, <1>8, <2>2, CommitDowngradeSchema
    <3>2. Extras' = Extras /\ (KnownFromTheStart' <=> KnownFromTheStart)
      BY DEF Extras, ObjectsOf, KnownFromTheStart
    <3> QED
      BY <1>3, <1>4, <1>5, <3>1, <3>2 DEF SchemaInv
  <2> QED
    BY <1>6, <2>1, <2>2 DEF Underway
<1> QED
  BY <1>7, <1>8

-----------------------------------------------------------------------------
(* RUNS AND SCHEMA, STEP BY STEP                                           *)

(* Nobody runs at first, and the origins match their revisions.            *)
LEMMA InitRuns ==
  Init => RunsInv /\ SchemaInv
<1> SUFFICES ASSUME Init PROVE RunsInv /\ SchemaInv
  OBVIOUS
<1>1. \A m \in Runs : run[m] = Idle
  BY DEF Init
<1>2. \A m \in Runs : Ended(m) /\ ~Running(m) /\ Covered(m)
  BY <1>1 DEF Ended, Running, Covered, Idle
<1>3. RunsInv
  BY <1>2 DEF RunsInv, Others, Apart, Ended
<1>4. PICK o \in Origins : objects = OriginOf(o).objects /\ version = OriginOf(o).version
  BY DEF Init
<1>5. /\ ObjectsOf(Current) \subseteq objects
      /\ KnownFromTheStart => objects = ObjectsOf(Current)
  <2>1. CASE o = "empty"
    <3>1. objects = {} /\ version = NoTable
      BY <1>4, <2>1 DEF OriginOf
    <3> QED
      BY <3>1, Catalogue DEF Current
  <2>2. CASE o = "V1"
    <3>1. version = NoTable
      BY <1>4, <2>2 DEF OriginOf
    <3> QED
      BY <2>2, <3>1, Catalogue DEF Current, KnownFromTheStart
  <2>3. CASE o = "duplicates"
    <3>1. objects = ObjectsOf(1) /\ version = 1
      BY <1>4, <2>3 DEF OriginOf
    <3> QED
      BY <3>1 DEF Current, NoTable
  <2>4. CASE o \notin {"empty", "V1", "duplicates"}
    <3> DEFINE i == CHOOSE i \in DOMAIN Revisions : Revisions[i] = o
    <3>1. objects = ObjectsOf(i) /\ version = i
      BY <1>4, <2>4 DEF OriginOf
    <3>2. i \in DOMAIN Revisions
      BY <2>4, MigrationsAssumption
    <3>3. i \in 1..3
      BY <3>2 DEF Revisions
    <3> HIDE DEF i
    <3> QED
      BY <3>1, <3>3 DEF Current, NoTable
  <2> QED
    BY <2>1, <2>2, <2>3, <2>4
<1>6. overtaken = {}
  BY DEF Init
<1> QED
  BY <1>3, <1>5, <1>6 DEF SchemaInv

(* Every step keeps what holds of the runs and of the schema.              *)
LEMMA RunsStep ==
  ASSUME Typed, RunsInv, SchemaInv, [Next]_vars
  PROVE  RunsInv' /\ SchemaInv'
<1>1. ASSUME NEW m \in Runs, Begin(m)
      PROVE  SchemaInv'
  <2>1. run[m].phase # "done" /\ \A n \in Others(m) : run'[n] = run[n]
    BY <1>1 DEF Begin, Others, Typed
  <2> QED
    BY <1>1, <2>1, SchemaKept DEF Begin, Others, historyVars
<1>2. ASSUME NEW m \in Runs, Execute(m)
      PROVE  SchemaInv'
  <2>1. run'[m].phase # "done" /\ run[m].phase # "done" /\ \A n \in Others(m) : run'[n] = run[n]
    BY <1>2, AfterFields DEF Execute, Free, Running
  <2> QED
    BY <1>2, <2>1, SchemaKept, Granted DEF Others
<1>3. ASSUME NEW m \in Runs, Fail(m) \/ Kill(m)
      PROVE  SchemaInv'
  <2>1. \A n \in Others(m) : run'[n] = run[n]
    BY <1>3, GiveUpRuns
  <2>2. Running(m)
    BY <1>3 DEF Fail, Kill, Free, Deadlocked, WaitsFor, RunWaitsFor
  <2>3. objects' = objects /\ version' = version /\ overtaken' = overtaken
    BY <1>3 DEF Fail, Kill, Unchanged, historyVars
  <2> QED
    BY <2>1, <2>2, <2>3, SchemaKept DEF Others, Running
<1>4. ASSUME UNCHANGED <<objects, version, run, overtaken>>
      PROVE  RunsInv' /\ SchemaInv'
  <2>1. SchemaInv'
    BY <1>4, SchemaKept
  <2>2. \A m \in Runs : (IF Running(m) THEN Underway(m) ELSE Ended(m))' /\ Covered(m)'
    BY <1>4, Untouched DEF RunsInv, Current
  <2>3. \A m \in Runs : \A n \in Others(m) : Apart(m, n)'
    BY <1>4 DEF RunsInv, Apart
  <2> QED
    BY <2>1, <2>2, <2>3 DEF RunsInv, Others
<1>5. CASE UNCHANGED vars
  BY <1>4, <1>5 DEF vars, historyVars
<1>6. ASSUME NEW w \in Writers, Write(w)
      PROVE  RunsInv' /\ SchemaInv'
  BY <1>4, <1>6 DEF Write, LookUp, Insert, Abort, CommitWriter, historyVars
<1>7. ASSUME NEW p \in Probes, ReadView(p) \/ ReadRevision(p)
      PROVE  RunsInv' /\ SchemaInv'
  BY <1>4, <1>7 DEF ReadView, ReadRevision, historyVars
<1>8. ASSUME NEW m \in Runs, Lock(m)
      PROVE  SchemaInv'
  <2>1. /\ run'[m].phase # "done" /\ \A n \in Others(m) : run'[n] = run[n]
        /\ objects' = objects /\ overtaken' = overtaken /\ version' = version
    BY <1>8, LockFields DEF Lock, Running
  <2> QED
    BY <1>8, <2>1, SchemaKept, LockFields DEF Others, Running
<1> QED
  BY <1>1, <1>2, <1>3, <1>5, <1>6, <1>7, <1>8, BeginRuns, LockRuns, ExecuteRuns, GiveUpRuns,
     CommitRuns, CommitSchema DEF Next, Goes

-----------------------------------------------------------------------------
(* WHAT /readyz VOUCHES FOR                                                *)

(* The head revision has both arbiters.                                    *)
LEMMA HeadHasArbiters ==
  {Arbiter(t) : t \in Tables} \subseteq ObjectsOf(3)
BY Catalogue DEF Arbiter, Tables, Objects

(* Only a downgrade takes an arbiter away, and it ends what was vouched    *)
(* for.                                                                    *)
LEMMA VouchedStep ==
  ASSUME HeadIsExpected, Typed, RunsInv, SchemaInv, ReadyMeansArbiters, [Next]_vars
  PROVE  ReadyMeansArbiters'
<1>1. ASSUME objects' = objects, vouched' = vouched
      PROVE  ReadyMeansArbiters'
  BY <1>1 DEF ReadyMeansArbiters
<1>2. ASSUME NEW m \in Runs, Commit(m)
      PROVE  ReadyMeansArbiters'
  <2>1. /\ vouched' = (vouched /\ run[m].direction = "upgrade")
        /\ objects' = (objects \cup run[m].created) \ run[m].dropped
        /\ Running(m)
    BY <1>2, Committed
  <2>2. SUFFICES ASSUME vouched' PROVE {Arbiter(t) : t \in Tables} \subseteq objects'
    BY DEF ReadyMeansArbiters
  <2>3. vouched /\ run[m].direction = "upgrade"
    BY <2>1, <2>2
  <2>4. run[m].dropped = {}
    <3>1. Underway(m)
      BY <2>1 DEF RunsInv
    <3> QED
      BY <2>3, <3>1 DEF Underway, Upgrading
  <2> QED
    BY <2>1, <2>3, <2>4 DEF ReadyMeansArbiters
<1>3. ASSUME NEW p \in Probes, ReadRevision(p)
      PROVE  ReadyMeansArbiters'
  <2>1. CASE Ready
    <3>1. version = 3
      <4>1. Expected = 3
        BY DEF HeadIsExpected, HeadRevision, Revisions
      <4>2. Expected # NoRevision
        BY <4>1, MigrationsAssumption
      <4> QED
        BY <2>1, <4>1, <4>2 DEF Ready, HeadIsExpected
    <3>2. ObjectsOf(3) \subseteq objects
      BY <3>1 DEF SchemaInv, Current, NoTable
    <3>3. objects' = objects
      BY <1>3 DEF ReadRevision
    <3> QED
      BY <3>2, <3>3, HeadHasArbiters DEF ReadyMeansArbiters
  <2>2. CASE ~Ready
    BY <1>1, <1>3, <2>2 DEF ReadRevision, ReadyMeansArbiters
  <2> QED
    BY <2>1, <2>2
<1>4. ASSUME NEW m \in Runs, Begin(m) \/ Lock(m) \/ Execute(m) \/ Fail(m) \/ Kill(m)
      PROVE  ReadyMeansArbiters'
  BY <1>1, <1>4 DEF Begin, Lock, Execute, Fail, Kill, Unchanged, historyVars
<1>5. ASSUME NEW w \in Writers, Write(w)
      PROVE  ReadyMeansArbiters'
  BY <1>1, <1>5 DEF Write, LookUp, Insert, Abort, CommitWriter, historyVars
<1>6. ASSUME NEW p \in Probes, ReadView(p)
      PROVE  ReadyMeansArbiters'
  BY <1>1, <1>6 DEF ReadView, historyVars
<1>7. CASE UNCHANGED vars
  BY <1>1, <1>7 DEF vars, historyVars
<1> QED
  BY <1>2, <1>3, <1>4, <1>5, <1>6, <1>7 DEF Next, Goes

-----------------------------------------------------------------------------
(* WHY A RUN FAILS                                                         *)

(* Later revisions have what earlier ones have.                            *)
LEMMA Monotone ==
  ASSUME NEW i \in 0..3, NEW j \in 0..3, i <= j
  PROVE  ObjectsOf(i) \subseteq ObjectsOf(j)
BY Catalogue DEF Objects

(* An upgrade that was not overtaken finds the revision it has read.       *)
LEMMA UpgradeUndisturbed ==
  ASSUME Typed, SchemaInv, KnownFromTheStart, NEW m \in Runs, m \notin overtaken,
         run[m].plan # << >>, NEW j \in 1..4, NEW k \in 0..2, Upgrading(m, j, k)
  PROVE  Objection(m, Wants(m)) \notin {"exists", "missing", "version"}
<1> DEFINE s == Wants(m)
<1>1. j \in 1..3
  BY UpgradeScript DEF Upgrading
<1>2. s = IF k < 2 THEN Upgrade(j)[k + 1] ELSE Stamp(j)
  BY <1>1, UpgradeScript DEF Upgrading, Wants
<1>3. Current \in 0..3 /\ j - 1 \in 0..3 /\ Current <= j - 1
  <2>1. Current \in 0..3
    BY DEF Typed, TypeOK, Current, HeadRevision, Revisions
  <2> QED
    BY <1>1, <2>1 DEF Upgrading
<1>4. objects \subseteq ObjectsOf(j - 1) \cup Extras
  BY <1>3, Monotone DEF SchemaInv
<1>5. ObjectsOf(j - 1) \subseteq Seen(m)
  BY <1>3, Monotone DEF SchemaInv, Upgrading, Seen
<1>6. CASE k = 2
  <2>1. s.does = "stamp"
    BY <1>2, <1>6, StampStatement
  <2>2. ~run[m].stamped => run[m].version = Current
    BY DEF Upgrading
  <2> QED
    BY <2>1, <2>2 DEF Objection
<1>7. CASE k \in {0, 1}
  <2>1. s = Upgrade(j)[k + 1] /\ k + 1 \in {1, 2}
    BY <1>2, <1>7
  <2>2. /\ s.does = "create" /\ (s.lenient <=> j = 3)
        /\ s.object \notin ObjectsOf(j - 1)
        /\ s.object \in ObjectsOf(2) => j < 3
        /\ s.object \notin ObjectsOf(2) => j = 3
        /\ j = 1 => s.tables = {}
    BY <1>1, <2>1, UpgradeStatements
  <2>3. s.object \notin Made(j, k)
    <3>1. CASE k = 0
      BY <3>1, MadeAndGone
    <3>2. CASE k = 1
      <4>1. s = Upgrade(j)[2] /\ Made(j, 1) = {Upgrade(j)[1].object}
        BY <2>1, <3>2, MadeAndGone
      <4>2. Upgrade(j)[1].object # Upgrade(j)[2].object
        BY <1>1, UpgradeStatements
      <4> QED
        BY <3>2, <4>1, <4>2
    <3> QED
      BY <1>7, <3>1, <3>2
  <2>4. j < 3 => s.object \notin Seen(m)
    <3>1. run[m].created \subseteq ObjectsOf(j - 1) \cup Made(j, k)
      BY DEF Upgrading
    <3>2. j < 3 => s.object \notin Extras
      BY <2>2 DEF Extras
    <3> QED
      BY <1>4, <2>2, <2>3, <3>1, <3>2 DEF Seen
  <2>5. j > 1 => "tables" \in Seen(m)
    <3>1. j > 1 => "tables" \in ObjectsOf(j - 1)
      BY <1>1, Catalogue, Monotone
    <3> QED
      BY <1>5, <3>1
  <2> HIDE DEF s
  <2>6. ~(s.does = "create" /\ s.object \in Seen(m) /\ ~s.lenient)
    BY <1>1, <2>2, <2>4
  <2>7. ~(s.does = "create" /\ s.tables # {} /\ "tables" \notin Seen(m))
    BY <1>1, <2>2, <2>5
  <2>8. s.does # "drop" /\ s.does # "stamp"
    BY <2>2
  <2>9. Objection(m, s) \notin {"exists", "missing", "version"}
    BY <2>6, <2>7, <2>8 DEF Objection
  <2> QED
    BY <2>9 DEF s
<1> QED
  BY <1>6, <1>7

(* So does a downgrade.                                                    *)
LEMMA DowngradeUndisturbed ==
  ASSUME Typed, SchemaInv, NEW m \in Runs, m \notin overtaken,
         run[m].plan # << >>, NEW j \in 0..3, NEW k \in 0..3, Downgrading(m, j, k)
  PROVE  Objection(m, Wants(m)) \notin {"exists", "missing", "version"}
<1> DEFINE s == Wants(m)
<1>1. j \in 1..3 /\ k \in 0..2
  <2>1. run[m].plan = RestOfDowngrade(j, k) /\ (j = 0 => k = 0)
    BY DEF Downgrading
  <2>2. RestOfDowngrade(j, k) # << >>
    BY <2>1
  <2>3. j # 0
    BY <2>1, <2>2, DowngradeScript
  <2>4. k # 3
    BY <2>2, <2>3, DowngradeScript
  <2> QED
    BY <2>3, <2>4
<1>2. s = IF k < 2 THEN Downgrade(j)[k + 1] ELSE Stamp(j - 1)
  <2>1. s = Head(RestOfDowngrade(j, k))
    BY DEF Downgrading, Wants
  <2>2. Head(RestOfDowngrade(j, k)) = IF k < 2 THEN Downgrade(j)[k + 1] ELSE Stamp(j - 1)
    BY <1>1, DowngradeScript
  <2> QED
    BY <2>1, <2>2, Zenon
<1>3. Current = j /\ ObjectsOf(j) \subseteq objects /\ run[m].version = j
  BY <1>1 DEF Downgrading, SchemaInv
<1>4. CASE k = 2
  <2>1. s.does = "stamp"
    BY <1>2, <1>4, StampStatement
  <2> QED
    BY <1>3, <2>1 DEF Objection
<1>5. ASSUME s.does = "drop", s.lenient \/ s.object \in Seen(m)
      PROVE  Objection(m, s) \notin {"exists", "missing", "version"}
  BY <1>5 DEF Objection
<1>6. CASE k = 0
  <2>1. s = Downgrade(j)[1]
    BY <1>2, <1>6
  <2>2. j = 2 => "idx_bets_open_only" \in Seen(m)
    BY <1>3, <1>6, Catalogue DEF Downgrading, Seen
  <2> QED
    BY <1>1, <1>5, <2>1, <2>2, DowngradeStatements
<1>7. CASE k = 1
  <2>1. s = Downgrade(j)[2]
    BY <1>2, <1>7
  <2>2. j = 1 => "tables" \in Seen(m)
    BY <1>3, <1>7, Catalogue DEF Downgrading, Seen
  <2>3. j = 2 => "uq_odds_snapshot" \in Seen(m)
    <3>1. Gone(2, 1) = {"idx_bets_open_only"}
      BY MadeAndGone, DowngradeStatements
    <3>2. j = 2 => run[m].dropped \subseteq Gone(2, 1)
      BY <1>7 DEF Downgrading
    <3>3. "uq_odds_snapshot" \in ObjectsOf(2)
      BY Catalogue
    <3> QED
      BY <1>3, <3>1, <3>2, <3>3 DEF Seen
  <2> QED
    BY <1>1, <1>5, <2>1, <2>2, <2>3, DowngradeStatements
<1> QED
  BY <1>1, <1>4, <1>6, <1>7

(* A run that may make others wait: while nobody has been overtaken, and   *)
(* the first revision is not being reverted, there is one of them at most. *)
Strong(m) == run[m].locks # {} \/ "tables" \in run[m].created

(* What tells a strong run at each revision of the committed schema.       *)
Signature(m) ==
  \/ Current = 0 /\ "tables" \in run[m].created
  \/ Current = 1 /\ <<"odds", "exclusive">> \in run[m].locks
  \/ Current \in {2, 3} /\ <<"bets", "exclusive">> \in run[m].locks
  \/ /\ Current = 2 /\ "uq_bets_user_external_id" \in run[m].created
     /\ \E mode \in {"share", "exclusive"} : <<"bets", mode>> \in run[m].locks

(* The signature of a strong upgrade.                                      *)
LEMMA StrongUpgrade ==
  ASSUME Typed, NEW m \in Runs, m \notin overtaken, objects = ObjectsOf(Current),
         Covered(m), Strong(m), NEW j \in 1..4, NEW k \in 0..2, Upgrading(m, j, k)
  PROVE  Signature(m)
<1>1. Current \in 0..3
  BY DEF Typed, TypeOK, Current, HeadRevision, Revisions
<1>2. CASE run[m].stamped
  <2>1. Current < j - 1 /\ ObjectsOf(j - 1) \subseteq run[m].created \cup objects
    BY <1>2 DEF Upgrading
  <2>2. Current + 1 \in 0..3 /\ j - 1 \in 0..3 /\ Current + 1 <= j - 1
    BY <1>1, <2>1
  <2>3. ObjectsOf(Current + 1) \subseteq run[m].created \cup ObjectsOf(Current)
    BY <2>1, <2>2, Monotone
  <2>4. CASE Current = 0
    <3>1. ObjectsOf(1) \subseteq run[m].created \cup ObjectsOf(0)
      BY <2>3, <2>4
    <3> QED
      BY <2>4, <3>1, Catalogue DEF Signature
  <2>5. CASE Current = 1
    <3>1. ObjectsOf(2) \subseteq run[m].created \cup ObjectsOf(1)
      BY <2>3, <2>5
    <3>2. "uq_odds_snapshot" \in run[m].created
      BY <3>1, Catalogue
    <3> QED
      BY <2>5, <3>2 DEF Signature, Covered
  <2>6. CASE Current = 2
    <3>1. ObjectsOf(3) \subseteq run[m].created \cup ObjectsOf(2)
      BY <2>3, <2>6
    <3>2. "uq_bets_user_external_id" \in run[m].created
      BY <3>1, Catalogue DEF Objects
    <3>3. "uq_bets_user_external_id" \in Indexes /\ TableOf("uq_bets_user_external_id") = "bets"
      BY Catalogue DEF Indexes, Objects, TableOf
    <3> QED
      BY <2>6, <3>2, <3>3 DEF Signature, Covered
  <2>7. Current # 3
    BY <2>1
  <2> QED
    BY <1>1, <2>4, <2>5, <2>6, <2>7
<1>3. CASE ~run[m].stamped
  <2>1. Current = j - 1 /\ run[m].created \subseteq Made(j, k)
    BY <1>3 DEF Upgrading
  <2>2. k # 0
    <3>1. k = 0 => run[m].created = {} /\ run[m].locks = {}
      BY <1>3, <2>1, MadeAndGone DEF Upgrading
    <3> QED
      BY <3>1 DEF Strong
  <2>3. j \in 1..3 /\ Upgrade(j)[1].object \in Made(j, k)
    <3>1. k = 1 \/ k = 2
      BY <2>2
    <3> QED
      BY <2>2, <3>1, MadeAndGone DEF Upgrading
  <2>4. Made(j, k) \subseteq run[m].created \cup ObjectsOf(j - 1)
    BY <2>1 DEF Upgrading
  <2>5. Upgrade(j)[1].object \in run[m].created
    BY <2>3, <2>4, UpgradeStatements
  <2>6. CASE j = 1
    <3>1. Current = 0
      BY <2>1, <2>6
    <3> QED
      BY <2>5, <2>6, <3>1, UpgradeStatements DEF Signature
  <2>7. CASE j = 2
    <3>1. Current = 1
      BY <2>1, <2>7
    <3> QED
      BY <2>5, <2>7, <3>1, UpgradeStatements DEF Signature, Covered
  <2>8. CASE j = 3
    <3>1. Current = 2
      BY <2>1, <2>8
    <3>2. <<"bets", "share">> \in run[m].locks
      BY <1>3, <2>2, <2>8 DEF Upgrading
    <3> QED
      BY <2>5, <2>8, <3>1, <3>2, UpgradeStatements DEF Signature
  <2> QED
    BY <2>3, <2>6, <2>7, <2>8
<1> QED
  BY <1>2, <1>3

(* The signature of a strong downgrade.                                    *)
LEMMA StrongDowngrade ==
  ASSUME NEW m \in Runs, m \notin overtaken, Covered(m), Strong(m),
         Running(m), run[m].direction = "downgrade", ~Reverting(m),
         NEW j \in 0..3, NEW k \in 0..3, Downgrading(m, j, k)
  PROVE  Signature(m)
<1>1. Current = j /\ run[m].locks # {} /\ k # 0
  BY DEF Downgrading, Strong
<1>2. <<"bets", "exclusive">> \in run[m].locks
  BY <1>1 DEF Downgrading
<1>3. j = 1 => <<"odds", "exclusive">> \in run[m].locks
  <2>1. j = 1 => k > 1
    <3>1. SUFFICES ASSUME j = 1, k \in 0..2 PROVE FALSE
      OBVIOUS
    <3>2. run[m].version = 1 /\ run[m].plan # << >>
      BY <3>1, DowngradeScript DEF Downgrading
    <3> QED
      BY <3>2 DEF Reverting
  <2>2. j = 1 => "tables" \in run[m].dropped
    BY <2>1 DEF Downgrading
  <2> QED
    BY <2>2 DEF Covered, Lockable, Tables
<1>4. j # 0
  BY <1>1 DEF Downgrading
<1>5. j = 1 \/ j = 2 \/ j = 3
  BY <1>4
<1> QED
  BY <1>1, <1>2, <1>3, <1>5 DEF Signature

NobodyReverts == \A m \in Runs : ~Reverting(m)

(* No two runs can both have the signature of the same revision.           *)
LEMMA OnlyOneStrong ==
  ASSUME Typed, RunsInv, SchemaInv, KnownFromTheStart, overtaken = {}, NobodyReverts,
         NEW m \in Runs, NEW n \in Others(m), Strong(m)
  PROVE  ~Strong(n)
<1>1. objects = ObjectsOf(Current)
  BY DEF SchemaInv, LostRace
<1>2. ASSUME NEW o \in Runs, Strong(o) PROVE Signature(o)
  <2>1. Running(o) /\ Underway(o) /\ Covered(o) /\ ~Reverting(o)
    BY <1>2 DEF RunsInv, Ended, Strong, NobodyReverts
  <2> QED
    BY <1>1, <1>2, <2>1, StrongUpgrade, StrongDowngrade DEF Underway
<1>3. n \in Runs /\ Apart(m, n) /\ Apart(n, m)
  BY DEF RunsInv, Others
<1>4. SUFFICES ASSUME Signature(m), Signature(n) PROVE FALSE
  BY <1>2, <1>3
<1> QED
  BY <1>3, <1>4 DEF Signature, Apart, Lockable, Tables

(* Whoever has created something is strong, or has dropped an index.       *)
LEMMA ChangesAreStrong ==
  ASSUME NEW n \in Runs, Typed, Covered(n)
  PROVE  /\ run[n].created # {} => Strong(n)
         /\ run[n].dropped \subseteq {"readiness"} \/ Strong(n)
<1>1. run[n].created \subseteq Objects /\ run[n].dropped \subseteq Objects
  BY DEF Typed, TypeOK
<1>2. Objects = Indexes \cup {"tables", "readiness"}
  BY Catalogue DEF Indexes, Objects
<1>3. ASSUME NEW o \in Indexes, o \in run[n].created \cup run[n].dropped
      PROVE  Strong(n)
  BY <1>3 DEF Covered, Strong
<1>4. "tables" \in run[n].dropped => Strong(n)
  BY DEF Covered, Strong, Lockable
<1>5. {"tables", "readiness"} \cap run[n].created # {} => Strong(n)
  BY DEF Covered, Strong
<1> QED
  BY <1>1, <1>2, <1>3, <1>4, <1>5

(* A run that has stamped has changed something, and is strong.            *)
LEMMA StampedIsStrong ==
  ASSUME Typed, NEW n \in Runs, n \notin overtaken, objects = ObjectsOf(Current),
         Underway(n), Covered(n), run[n].stamped
  PROVE  Strong(n)
<1>1. ASSUME NEW j \in 1..4, NEW k \in 0..2, Upgrading(n, j, k)
      PROVE  run[n].created # {}
  <2>1. Current < j - 1 /\ ObjectsOf(j - 1) \subseteq run[n].created \cup objects
    BY <1>1 DEF Upgrading
  <2>2. Current \in 0..3
    BY DEF Typed, TypeOK, Current, HeadRevision, Revisions
  <2>3. Current + 1 \in 1..3 /\ j - 1 \in 0..3 /\ Current + 1 <= j - 1
    BY <2>1, <2>2
  <2>4. ObjectsOf(Current + 1) \subseteq run[n].created \cup ObjectsOf(Current)
    BY <2>1, <2>3, Monotone
  <2>5. \E o \in ObjectsOf(Current + 1) : o \notin ObjectsOf(Current)
    <3>1. CASE Current = 0
      <4>1. ObjectsOf(Current + 1) = ObjectsOf(1) /\ ObjectsOf(Current) = ObjectsOf(0)
        BY <3>1
      <4> QED
        BY <4>1, Catalogue
    <3>2. CASE Current = 1
      <4>1. ObjectsOf(Current + 1) = ObjectsOf(2) /\ ObjectsOf(Current) = ObjectsOf(1)
        BY <3>2
      <4> QED
        BY <4>1, Catalogue
    <3>3. CASE Current = 2
      <4>1. ObjectsOf(Current + 1) = ObjectsOf(3) /\ ObjectsOf(Current) = ObjectsOf(2)
        BY <3>3
      <4> QED
        BY <4>1, Catalogue DEF Objects
    <3> QED
      BY <2>2, <2>3, <3>1, <3>2, <3>3
  <2> QED
    BY <2>4, <2>5
<1>2. ASSUME NEW j \in 0..3, NEW k \in 0..3, Downgrading(n, j, k)
      PROVE  ~(run[n].dropped \subseteq {"readiness"})
  <2>1. k = 3 /\ Current = j /\ j \in 1..3 /\ run[n].created = {}
    BY <1>2 DEF Downgrading
  <2>2. CASE j = 1
    BY <1>2, <2>1, <2>2 DEF Downgrading
  <2>3. CASE j = 2
    <3>1. Gone(2, 3) \subseteq run[n].dropped
      BY <1>2, <2>1, <2>3 DEF Downgrading
    <3>2. "idx_bets_open_only" \in Gone(2, 3)
      BY MadeAndGone, DowngradeStatements
    <3> QED
      BY <3>1, <3>2
  <2>4. CASE j = 3
    <3>1. Gone(3, 3) \cap Seen(n) = {}
      BY <1>2, <2>1, <2>4 DEF Downgrading
    <3>2. "uq_bets_user_external_id" \in Gone(3, 3)
      BY MadeAndGone, DowngradeStatements
    <3>3. "uq_bets_user_external_id" \in objects
      <4>1. objects = ObjectsOf(3)
        BY <2>1, <2>4
      <4> QED
        BY <4>1, Catalogue DEF Objects
    <3>4. "uq_bets_user_external_id" \in run[n].dropped
      BY <3>1, <3>2, <3>3 DEF Seen
    <3> QED
      BY <3>4
  <2> QED
    BY <2>1, <2>2, <2>3, <2>4
<1> QED
  BY <1>1, <1>2, ChangesAreStrong DEF Underway

(* A run that is waited for, while the first revision is not being         *)
(* reverted, is strong.                                                    *)
LEMMA WaitedForIsStrong ==
  ASSUME Typed, RunsInv, SchemaInv, KnownFromTheStart, overtaken = {}, NobodyReverts,
         NEW m \in Runs, NEW n \in Runs, n \in WaitsFor(m)
  PROVE  n \in Others(m) /\ Strong(n)
<1> DEFINE s == Wants(m)
<1>1. Running(m) /\ run[m].plan # << >> /\ n \in Lockers(m, s) \cup Holders(m, s)
  <2>1. n \notin Writers
    BY MigrationsAssumption DEF MigrationsAssumption
  <2> QED
    BY <2>1 DEF WaitsFor, RunWaitsFor, WritersInWay
<1>2. n \in Others(m) /\ Underway(m)
  BY <1>1 DEF Lockers, Holders, RunsInv
<1>3. Covered(n)
  BY DEF RunsInv
<1>4. s \in Statements
  BY <1>1, NextStatement
<1>5. s.does \in {"create", "drop", "stamp"}
  BY <1>4, IndexStatements
<1>6. CASE n \in Lockers(m, s)
  BY <1>6 DEF Lockers, Strong
<1>7. CASE n \in Holders(m, s) /\ s.does = "create"
  <2>1. s.object \in run[n].created
    BY <1>7 DEF Holders
  <2> QED
    BY <1>2, <1>3, <2>1, ChangesAreStrong
<1>8. CASE n \in Holders(m, s) /\ s.does = "stamp"
  <2>1. run[n].stamped
    BY <1>8 DEF Holders
  <2>2. Underway(n)
    BY <2>1 DEF RunsInv, Ended
  <2>3. objects = ObjectsOf(Current)
    BY DEF SchemaInv, LostRace
  <2> QED
    BY <1>2, <1>3, <2>1, <2>2, <2>3, StampedIsStrong
<1>9. CASE n \in Holders(m, s) /\ s.does = "drop"
  <2>1. s.object \in run[n].dropped
    BY <1>9 DEF Holders
  <2>2. Strong(n) \/ s.object = "readiness"
    BY <1>3, <2>1, ChangesAreStrong
  <2>3. s.object # "readiness"
    BY <1>1, <1>9, DropsView DEF NobodyReverts
  <2> QED
    BY <1>2, <2>2, <2>3
<1> QED
  BY <1>1, <1>2, <1>5, <1>6, <1>7, <1>8, <1>9

(* What a writer locks is one of the tables that may be dropped.           *)
LEMMA HeldTypes ==
  ASSUME NEW w \in Writers
  PROVE  Held(w) \subseteq Lockable
<1>1. Writes[w] \in Lockable
  BY MigrationsAssumption DEF MigrationsAssumption, Lockable
<1>2. \A t : References(t)[1] \in Lockable /\ References(t)[2] \in Lockable
  BY DEF References, Lockable
<1> QED
  BY <1>1, <1>2 DEF Held

(* A writer that a run waits for, while the first revision is not being    *)
(* reverted, has written, and waits for nobody.                            *)
LEMMA WaitedForHasWritten ==
  ASSUME Typed, RunsInv, NEW m \in Runs, ~Reverting(m), NEW w \in Writers, w \in WaitsFor(m)
  PROVE  writer[w] \in {"inserted", "updated"} /\ WaitsFor(w) = {}
<1> DEFINE s == Wants(m)
<1>1. w \notin Runs
  BY MigrationsAssumption DEF MigrationsAssumption
<1>2. Running(m) /\ run[m].plan # << >> /\ w \in WritersInWay(m, s)
  BY <1>1 DEF WaitsFor, RunWaitsFor, Lockers, Holders, Others
<1>3. s \in Statements
  BY <1>2, NextStatement
<1>4. ~(s.does = "drop" /\ s.object = "tables")
  BY <1>2, DropsTables
<1> HIDE DEF s
<1>5. Front(m, s) \subseteq Tables
  <2>1. s.tables \subseteq Tables
    BY <1>3, <1>4, OneTable
  <2> QED
    BY <2>1 DEF Front, Lacks, LockedBy
<1>6. Held(w) \cap Tables # {}
  BY <1>2, <1>5 DEF WritersInWay
<1>7. \A t : References(t)[1] \notin Tables /\ References(t)[2] \notin Tables
  BY DEF References, Tables
<1>8. writer[w] \in {"inserted", "updated"}
  BY <1>6, <1>7 DEF Held
<1>9. Asks(w) = {}
  BY <1>8 DEF Asks
<1> QED
  BY <1>1, <1>8, <1>9 DEF WaitsFor, WriterWaitsFor

(* While nobody has been overtaken, and the first revision is not being    *)
(* reverted, nobody is in a deadlock: no writer is, since it has written   *)
(* if a run waits for it, and no two runs.                                 *)
LEMMA NoDeadlock ==
  ASSUME Typed, RunsInv, SchemaInv, KnownFromTheStart, overtaken = {}, NobodyReverts, NEW m \in Runs
  PROVE  ~Deadlocked(m)
<1> SUFFICES ASSUME NEW circle \in SUBSET Waiting, m \in circle,
                    \A q \in circle : /\ WaitsFor(q) \cap circle # {}
                                      /\ \E r \in circle : q \in WaitsFor(r)
             PROVE  FALSE
  BY DEF Deadlocked
<1>1. circle \subseteq Runs \cup Writers /\ \A q \in circle : WaitsFor(q) # {}
  BY DEF Waiting
<1>2. ASSUME NEW w \in circle PROVE w \notin Writers
  <2>1. SUFFICES ASSUME w \in Writers PROVE FALSE
    OBVIOUS
  <2>2. PICK r \in circle : w \in WaitsFor(r)
    OBVIOUS
  <2>3. CASE r \in Runs
    BY <1>1, <2>1, <2>2, <2>3, WaitedForHasWritten DEF NobodyReverts
  <2>4. CASE r \notin Runs
    <3>1. w \in Runs
      BY <2>2, <2>4 DEF WaitsFor, WriterWaitsFor
    <3> QED
      BY <2>1, <3>1, MigrationsAssumption DEF MigrationsAssumption
  <2> QED
    BY <2>3, <2>4
<1>3. circle \subseteq Runs
  BY <1>1, <1>2
<1>4. ASSUME NEW n \in circle PROVE Strong(n)
  <2>1. PICK r \in circle : n \in WaitsFor(r)
    OBVIOUS
  <2>2. n \in Runs /\ r \in Runs
    BY <1>3
  <2> QED
    BY <2>1, <2>2, WaitedForIsStrong
<1>5. PICK o \in circle : o \in WaitsFor(m)
  OBVIOUS
<1>6. o \in Others(m)
  BY <1>3, <1>5, WaitedForIsStrong
<1> QED
  BY <1>4, <1>5, <1>6, OnlyOneStrong

(* What makes a statement fail, where nobody else is to blame.             *)
LEMMA ErrorHasCause ==
  ASSUME Typed, RunsInv, SchemaInv, KnownFromTheStart, NEW m \in Runs, Fail(m),
         m \notin overtaken
  PROVE  \/ why'[m] = "duplicates"
         \/ why'[m] = "deadlock" /\ (overtaken # {} \/ ~NobodyReverts)
<1>1. why \in [Runs -> {"nothing", "exists", "missing", "duplicates", "version", "deadlock"}]
  BY DEF Typed, TypeOK
<1>2. CASE /\ Free(m) /\ Objection(m, Wants(m)) # "nothing"
           /\ why' = [why EXCEPT ![m] = Objection(m, Wants(m))]
  <2>1. Running(m) /\ run[m].plan # << >>
    BY <1>2 DEF Free
  <2>2. Underway(m)
    BY <2>1 DEF RunsInv
  <2>3. Objection(m, Wants(m)) \notin {"exists", "missing", "version"}
    BY <2>1, <2>2, UpgradeUndisturbed, DowngradeUndisturbed DEF Underway
  <2>4. Objection(m, Wants(m)) \in {"exists", "missing", "duplicates", "version", "nothing"}
    BY DEF Objection
  <2> QED
    BY <1>1, <1>2, <2>3, <2>4
<1>3. CASE WaitedInVain(m)
  BY <1>3 DEF WaitedInVain
<1>4. CASE Deadlocked(m) /\ why' = [why EXCEPT ![m] = "deadlock"]
  BY <1>1, <1>4, NoDeadlock
<1> QED
  BY <1>2, <1>3, <1>4 DEF Fail

(* A run that was running has failed by its own step.                      *)
LEMMA FailedByItself ==
  ASSUME Typed, [Next]_vars, NEW m \in Runs, Running(m), run'[m].phase = "failed"
  PROVE  Fail(m)
<1>1. run[m].phase = "running" /\ run'[m] # run[m]
  BY DEF Running
<1>2. ASSUME NEW n \in Runs, Fail(n) \/ Kill(n) \/ Commit(n)
      PROVE  \E phase \in {"failed", "killed", "done"} :
               run' = [run EXCEPT ![n] = [Idle EXCEPT !.phase = phase]] /\ (phase = "failed" => Fail(n))
  BY <1>2 DEF Fail, Kill, Commit, RolledBack
<1>3. ASSUME NEW n \in Runs, Fail(n) \/ Kill(n) \/ Commit(n)
      PROVE  Fail(m)
  <2>1. PICK phase \in {"failed", "killed", "done"} :
          run' = [run EXCEPT ![n] = [Idle EXCEPT !.phase = phase]] /\ (phase = "failed" => Fail(n))
    BY <1>2, <1>3
  <2>2. run'[n].phase = phase /\ \A o \in Others(n) : run'[o] = run[o]
    BY <2>1, EndedRun
  <2>3. m = n
    BY <1>1, <2>2 DEF Others
  <2> QED
    BY <2>1, <2>2, <2>3
<1>4. ASSUME NEW n \in Runs, Begin(n) PROVE FALSE
  <2>1. run[n].phase = "idle" /\ \A o \in Others(n) : run'[o] = run[o]
    BY <1>4 DEF Begin, Others, Typed
  <2> QED
    BY <1>1, <2>1 DEF Others
<1>5. ASSUME NEW n \in Runs, Lock(n) PROVE FALSE
  <2>1. run'[n].phase = "running" /\ \A o \in Others(n) : run'[o] = run[o]
    BY <1>5, LockFields DEF Running
  <2> QED
    BY <1>1, <2>1 DEF Others
<1>6. ASSUME NEW n \in Runs, Execute(n) PROVE FALSE
  <2>1. run'[n].phase = "running" /\ \A o \in Others(n) : run'[o] = run[o]
    BY <1>6, AfterFields
  <2> QED
    BY <1>1, <2>1 DEF Others
<1>7. ASSUME NEW w \in Writers, Write(w) PROVE FALSE
  BY <1>1, <1>7 DEF Write, LookUp, Insert, Abort, CommitWriter
<1>8. ASSUME NEW p \in Probes, ReadView(p) \/ ReadRevision(p) PROVE FALSE
  BY <1>1, <1>8 DEF ReadView, ReadRevision
<1>9. ~(UNCHANGED vars)
  BY <1>1 DEF vars
<1> QED
  BY <1>3, <1>4, <1>5, <1>6, <1>7, <1>8, <1>9 DEF Next, Goes

-----------------------------------------------------------------------------
(* WHAT A WRITER HAS LOCKED                                                *)

(* A run that commits that it has dropped the tables keeps all writers out. *)
LEMMA HeldStep ==
  ASSUME IInv, RunsInv, HeldIsThere, [Next]_vars
  PROVE  HeldIsThere'
<1>0. Typed
  BY DEF IInv
<1>1. ASSUME writer' = writer, objects' = objects
      PROVE  HeldIsThere'
  <2>1. \A w \in Writers : Held(w)' = Held(w)
    BY <1>1 DEF Held
  <2> QED
    BY <1>1, <2>1 DEF HeldIsThere
<1>2. ASSUME NEW m \in Runs, Commit(m)
      PROVE  HeldIsThere'
  <2>1. /\ Covered(m)
        /\ objects' = (objects \cup run[m].created) \ run[m].dropped
        /\ writer' = writer
    BY <1>0, <1>2, Committed DEF RunsInv, Commit
  <2>2. \A w \in Writers : Held(w)' = Held(w)
    BY <2>1 DEF Held
  <2>3. CASE "tables" \notin run[m].dropped
    BY <2>1, <2>2, <2>3 DEF HeldIsThere
  <2>4. CASE "tables" \in run[m].dropped
    <3>1. \A t \in Lockable : <<t, "exclusive">> \in run[m].locks
      BY <2>1, <2>4 DEF Covered
    <3>2. \A w \in Writers : Held(w) \subseteq Lockable
      BY HeldTypes
    <3>3. \A w \in Writers : Held(w) = {}
      BY <3>1, <3>2 DEF IInv, WritersKeptOut
    <3> QED
      BY <2>2, <3>3 DEF HeldIsThere
  <2> QED
    BY <2>3, <2>4
<1>3. ASSUME NEW w \in Writers, objects' = objects,
             "tables" \in objects \/ writer'[w] \in {"failed", "done"},
             \A v \in Writers : v # w => writer'[v] = writer[v]
      PROVE  HeldIsThere'
  <2>1. \A v \in Writers : v # w => Held(v)' = Held(v)
    BY <1>3 DEF Held
  <2>2. writer'[w] \in {"failed", "done"} => Held(w)' = {}
    BY DEF Held
  <2> QED
    BY <1>3, <2>1, <2>2 DEF HeldIsThere
<1>4. ASSUME NEW w \in Writers, Write(w)
      PROVE  HeldIsThere'
  <2>1. writer \in [Writers -> WriterStates]
    BY <1>0 DEF Typed, TypeOK, WriterStates
  <2>2. objects' = objects /\ \A v \in Writers : v # w => writer'[v] = writer[v]
    BY <1>4, <2>1 DEF Write, LookUp, Insert, Abort, CommitWriter
  <2>3. "tables" \in objects \/ writer'[w] \in {"failed", "done"}
    BY <1>4, <2>1 DEF Write, LookUp, Insert, Abort, CommitWriter, WriterGoes
  <2> QED
    BY <1>3, <2>2, <2>3
<1>5. ASSUME NEW m \in Runs, Begin(m) \/ Lock(m) \/ Execute(m) \/ Fail(m) \/ Kill(m)
      PROVE  HeldIsThere'
  BY <1>1, <1>5 DEF Begin, Lock, Execute, Fail, Kill, Unchanged, historyVars
<1>6. ASSUME NEW p \in Probes, ReadView(p) \/ ReadRevision(p)
      PROVE  HeldIsThere'
  BY <1>1, <1>6 DEF ReadView, ReadRevision, historyVars
<1>7. CASE UNCHANGED vars
  BY <1>1, <1>7 DEF vars, historyVars
<1> QED
  BY <1>2, <1>4, <1>5, <1>6, <1>7 DEF Next, Goes

(* A writer that has looked something up finds the tables, and only who    *)
(* is about to drop them waits for it.                                     *)
LEMMA LookupFails ==
  ASSUME IInv, RunsInv, HeldIsThere, [Next]_vars, NEW w \in Writers,
         writer[w] \in {"looking", "looked_up"}, writer'[w] = "failed"
  PROVE  ~NobodyReverts
<1>0. Typed /\ writer \in [Writers -> WriterStates]
  BY DEF IInv, Typed, TypeOK, WriterStates
<1>1. "tables" \in objects
  <2>1. Held(w) # {}
    BY DEF Held
  <2> QED
    BY <2>1 DEF HeldIsThere
<1>2. ASSUME NEW v \in Writers, Write(v)
      PROVE  v = w
  BY <1>0, <1>2 DEF Write, LookUp, Insert, Abort, CommitWriter
<1>3. \E v \in Writers : Write(v)
  <2>1. writer' # writer
    OBVIOUS
  <2> QED
    BY <2>1 DEF Next, Begin, Goes, Lock, Execute, Fail, Commit, Kill, ReadView, ReadRevision,
                vars, historyVars
<1>4. Abort(w)
  <2>1. ~LookUp(w)
    BY <1>0, <1>1 DEF LookUp
  <2>2. ~Insert(w)
    <3>1. WriterGoes(w, Writes[w]) # "failed"
      <4>1. Writes[w] \in {"odds", "bets", "predictions"}
        BY MigrationsAssumption DEF MigrationsAssumption, Tables
      <4> QED
        BY <1>1, <4>1 DEF WriterGoes
    <3> QED
      BY <1>0, <3>1 DEF Insert
  <2>3. ~CommitWriter(w)
    BY DEF CommitWriter
  <2> QED
    BY <1>2, <1>3, <2>1, <2>2, <2>3 DEF Write
<1>5. PICK r : r \in Waiting /\ w \in WaitsFor(r)
  BY <1>4 DEF Abort, Deadlocked
<1>6. r \in Runs
  <2>1. r \notin Runs => w \in Runs
    BY <1>5 DEF WaitsFor, WriterWaitsFor
  <2> QED
    BY <2>1, MigrationsAssumption DEF MigrationsAssumption
<1>7. Reverting(r)
  BY <1>0, <1>5, <1>6, WaitedForHasWritten
<1> QED
  BY <1>6, <1>7 DEF NobodyReverts

-----------------------------------------------------------------------------
(* THE THEOREMS                                                            *)

(* The invariant holds at first ...                                        *)
LEMMA InitWhole ==
  Init => WholeInv
<1> SUFFICES ASSUME Init PROVE WholeInv
  OBVIOUS
<1>1. ReadyMeansArbiters
  BY DEF Init, ReadyMeansArbiters
<1>2. HeldIsThere
  BY DEF Init, HeldIsThere, Held
<1> QED
  BY <1>1, <1>2, InitIInv, InitRuns DEF WholeInv

(* ... and every step keeps it.                                            *)
LEMMA NextWhole ==
  ASSUME WholeInv, [Next]_vars
  PROVE  WholeInv'
<1>1. IInv /\ Typed /\ RunsInv /\ SchemaInv
  BY DEF WholeInv, IInv
<1>2. IInv' /\ RunsInv' /\ SchemaInv'
  BY <1>1, NextIInv, RunsStep
<1>3. HeadIsExpected => ReadyMeansArbiters'
  BY <1>1, VouchedStep DEF WholeInv
<1>4. HeldIsThere'
  BY <1>1, HeldStep DEF WholeInv
<1> QED
  BY <1>2, <1>3, <1>4 DEF WholeInv, HeadIsExpected

(* However many runs overlap, fail or are killed: each is where its script *)
(* says with what it has made and dropped so far, its uncommitted changes  *)
(* are covered by locks that keep the others away, one at most has         *)
(* changed alembic_version, and the committed schema is what the revision  *)
(* stands for (env.py, one transaction).                                   *)
THEOREM SchemaInvariant == Spec => []WholeInv
<1>1. Init => WholeInv
  BY InitWhole
<1>2. WholeInv /\ [Next]_vars => WholeInv'
  BY NextWhole
<1> QED
  BY <1>1, <1>2, PTL DEF Spec

(* If alembic has known the database from the start, the committed schema  *)
(* is that of the revision in alembic_version, but for the two indexes     *)
(* that a downgrade may leave behind when it has lost a race.              *)
THEOREM SchemaFollowsRevision == KnownFromTheStart => (Spec => []SchemaMatchesRevision)
<1>1. KnownFromTheStart /\ WholeInv => SchemaMatchesRevision
  <2> SUFFICES ASSUME KnownFromTheStart, WholeInv PROVE SchemaMatchesRevision
    OBVIOUS
  <2>1. (IF version = NoTable THEN {} ELSE ObjectsOf(version)) = ObjectsOf(Current)
    BY Catalogue DEF Current
  <2>2. SchemaInv
    BY DEF WholeInv
  <2> QED
    BY <2>1, <2>2 DEF SchemaInv, LostRace, Extras, SchemaMatchesRevision
<1>2. CASE KnownFromTheStart
  <2>1. WholeInv => SchemaMatchesRevision
    BY <1>1, <1>2
  <2> QED
    BY <2>1, SchemaInvariant, PTL
<1> QED
  BY <1>2

(* If /readyz compares the revision with the head, and insists, it vouches *)
(* for the arbiters of both writers until somebody reverts a revision      *)
(* (readiness.py 59-71).                                                   *)
THEOREM ReadinessCoversArbiters == HeadIsExpected => (Spec => []ReadyMeansArbiters)
<1>1. CASE HeadIsExpected
  <2>1. WholeInv => ReadyMeansArbiters
    BY <1>1 DEF WholeInv
  <2> QED
    BY <2>1, SchemaInvariant, PTL
<1> QED
  BY <1>1

(* If alembic has known the database from the start, no run fails but for  *)
(* keys that were written twice, or because another run committed while it *)
(* was running, or as the victim of a deadlock; and without such a commit  *)
(* there is a deadlock only while the first revision is being reverted.    *)
THEOREM FailuresHaveCauses == KnownFromTheStart => (Spec => FailureHasCause)
<1>1. ASSUME KnownFromTheStart, WholeInv, [Next]_vars, NEW m \in Runs,
             Running(m), run'[m].phase = "failed"
      PROVE  \/ m \in overtaken
             \/ why'[m] = "duplicates"
             \/ why'[m] = "deadlock" /\ (overtaken # {} \/ \E n \in Runs : Reverting(n))
  <2>1. Typed /\ RunsInv /\ SchemaInv
    BY <1>1 DEF WholeInv, IInv
  <2>2. Fail(m)
    BY <1>1, <2>1, FailedByItself
  <2> QED
    BY <1>1, <2>1, <2>2, ErrorHasCause DEF NobodyReverts
<1>2. CASE KnownFromTheStart
  <2>1. WholeInv /\ [Next]_vars =>
          [\A m \in Runs :
             Running(m) /\ run'[m].phase = "failed"
               => \/ m \in overtaken
                  \/ why'[m] = "duplicates"
                  \/ why'[m] = "deadlock" /\ (overtaken # {} \/ \E n \in Runs : Reverting(n))]_vars
    BY <1>1, <1>2
  <2> QED
    BY <2>1, SchemaInvariant, PTL DEF Spec, FailureHasCause
<1> QED
  BY <1>2

(* A writer that has looked a reference up does not fail after that, but   *)
(* as the victim of a deadlock with a run that reverts the first revision. *)
THEOREM ReferencesLast == Spec => LookupsLast
<1>1. WholeInv /\ [Next]_vars =>
        [\A w \in Writers :
           writer[w] \in {"looking", "looked_up"} /\ writer'[w] = "failed"
             => \E m \in Runs : Reverting(m)]_vars
  BY LookupFails DEF WholeInv, NobodyReverts
<1> QED
  BY <1>1, SchemaInvariant, PTL DEF Spec, LookupsLast

=============================================================================
