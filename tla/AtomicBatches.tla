---------------------------- MODULE AtomicBatches ----------------------------
(***************************************************************************)
(* What POST /odds and POST /predictions promise, with no statement, lock  *)
(* or transaction in sight: a delivery is decided in ONE atomic step, that *)
(* stores the newest row of every key it names and counts the keys that    *)
(* are new, or stores nothing.  Module BulkUpsert is shown to implement    *)
(* this specification.                                                     *)
(***************************************************************************)
EXTENDS BatchPayloads, FiniteSets

VARIABLES
  sent,     \* sent[r]: the body delivered by r
  table,    \* table[k]: the row of key k: who stored it, and which of its items
  answer    \* answer[r]: [status, inserted]

vars == <<sent, table, answer>>

NoRow == <<>>
Unanswered == 0

Answer(status, inserted) == [status |-> status, inserted |-> inserted]

Init ==
  /\ sent \in Workloads
  /\ table = [k \in Keys |-> NoRow]
  /\ answer = [r \in Requests |-> Answer(Unanswered, 0)]

Decide(r, a) ==
  /\ answer[r].status = Unanswered
  /\ answer' = [answer EXCEPT ![r] = a]

Items(r) == sent[r].items
Unknown(r) == \E i \in DOMAIN Items(r) : Items(r)[i].flaw = "reference"

(* The item of r that k is left with: the newest, the later one of equals. *)
Newest(r, k) ==
  CHOOSE i \in DOMAIN Items(r) :
    /\ Items(r)[i].key = k
    /\ \A j \in DOMAIN Items(r) \ {i} :
         Items(r)[j].key = k =>
           \/ Items(r)[j].at < Items(r)[i].at
           \/ Items(r)[j].at = Items(r)[i].at /\ j < i

(* The items that reach the table's constraints: of predictions, an older  *)
(* row of a key does not.                                                  *)
Used(r) ==
  IF sent[r].endpoint = "odds" THEN DOMAIN Items(r)
  ELSE {Newest(r, k) : k \in Mentioned(sent[r])}

Refused(r, flaw) == \E i \in Used(r) : Items(r)[i].flaw = flaw

NewKeys(r) == {k \in Mentioned(sent[r]) : table[k] = NoRow}

(* All the keys at once; the caller may never learn of it.                 *)
Accept(r) ==
  /\ ~ Unknown(r) /\ ~ \E flaw \in Flaws \ {"none"} : Refused(r, flaw)
  /\ Decide(r, Answer(200, Cardinality(NewKeys(r)))) \/ Decide(r, Answer(500, 0))
  /\ table' = [k \in Keys |-> IF k \in Mentioned(sent[r]) THEN <<r, Newest(r, k)>>
                                                          ELSE table[k]]
  /\ UNCHANGED sent

(* A row is at fault, or the server is.                                    *)
Refuse(r) ==
  /\ \/ Unknown(r) /\ Decide(r, Answer(404, 0))
     \/ Refused(r, "check") /\ Decide(r, Answer(400, 0))
     \/ Decide(r, Answer(500, 0))
  /\ UNCHANGED <<sent, table>>

Next == \E r \in Requests : Accept(r) \/ Refuse(r)

Spec == Init /\ [][Next]_vars

=============================================================================
