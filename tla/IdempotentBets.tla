---------------------------- MODULE IdempotentBets ----------------------------
(***************************************************************************)
(* What POST /bets promises, with no transaction, index or lock in sight:  *)
(* a delivery is submitted and later decided in ONE atomic step, which     *)
(* either stores its bet, or answers with a bet that is already stored, or *)
(* stores nothing.  Module Bets is shown to implement this specification.  *)
(*                                                                         *)
(* The one weakness the code has is part of the promise: a replay may be   *)
(* answered without a bet id, but only if it raced the creation.           *)
(***************************************************************************)
EXTENDS BetPayloads

VARIABLES
  body,     \* body[r]: the body delivered by r
  seen,     \* seen[r]: the bets stored when r was submitted
  stored,   \* the bets stored; a bet is named by the delivery that stored it
  answer    \* answer[r]: [status, bet_id]

vars == <<body, seen, stored, answer>>

Answer(s, b) == [status |-> s, bet_id |-> b]

Known(r, S) == {o \in S : SameBet(body[r], body[o])}

Init ==
  /\ body \in [Requests -> Payloads]
  /\ seen = [r \in Requests |-> {}]
  /\ stored = {}
  /\ answer = [r \in Requests |-> Answer(Unanswered, Null)]

Submit(r) ==
  /\ answer[r].status = Unanswered
  /\ seen' = [seen EXCEPT ![r] = stored]
  /\ UNCHANGED <<body, stored, answer>>

Decide(r, a) ==
  /\ answer[r].status = Unanswered
  /\ answer' = [answer EXCEPT ![r] = a]

(* The bet is new; the caller may never learn that it was stored.          *)
Create(r) ==
  /\ body[r].flaw = "none"
  /\ \A o \in stored : ~ SameKey(body[r], body[o]) /\ ~ SamePair(body[r], body[o])
  /\ Decide(r, Answer(201, r)) \/ Decide(r, Answer(500, Null))
  /\ stored' = stored \cup {r}
  /\ UNCHANGED <<body, seen>>

(* The bet is already there: its id is the answer.                         *)
Replay(r) ==
  /\ \E o \in Known(r, stored) : Decide(r, Answer(200, o))
  /\ UNCHANGED <<body, seen, stored>>

(* The bet is there, but was not when r was submitted.                     *)
BlindReplay(r) ==
  /\ Known(r, stored) # {}
  /\ Known(r, seen[r]) = {}
  /\ Decide(r, Answer(200, Null))
  /\ UNCHANGED <<body, seen, stored>>

(* Another bet has the external id.  A replay never gets this answer for a *)
(* bet that was stored when it was submitted.                              *)
Conflict(r) ==
  /\ \E o \in stored : SamePair(body[r], body[o])
  /\ Known(r, seen[r]) = {}
  /\ Decide(r, Answer(409, Null))
  /\ UNCHANGED <<body, seen, stored>>

Refuse(r) ==
  /\ \/ body[r].flaw = "check" /\ Decide(r, Answer(400, Null))
     \/ body[r].flaw = "fk" /\ Known(r, seen[r]) = {} /\ Decide(r, Answer(404, Null))
     \/ Decide(r, Answer(500, Null))
  /\ UNCHANGED <<body, seen, stored>>

Next == \E r \in Requests :
  \/ Submit(r) \/ Create(r)
  \/ Replay(r) \/ BlindReplay(r)
  \/ Conflict(r) \/ Refuse(r)

Spec == Init /\ [][Next]_vars

=============================================================================
