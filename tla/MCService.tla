------------------------------- MODULE MCService -------------------------------
(***************************************************************************)
(* Small instances of Service.                                             *)
(***************************************************************************)
EXTENDS Service, TLC

CONSTANTS r1, r2, r3, writer, reader

(* The default of API_KEYS, with a first entry that a later one replaces.  *)
MCApiKeys ==
  << [key |-> reader, scopes |-> {"read", "odds:write"}],
     [key |-> writer, scopes |-> Scopes],
     [key |-> reader, scopes |-> {"read"}] >>

Call(k, key, b) == [kind |-> k, key |-> key, body |-> b]

(* Every kind of call, and everything that can be wrong with one: scopes,  *)
(* body, references, cursor.                                               *)
AnyCall ==
  {Call("odds", writer, b) : b \in Bodies}
  \cup {Call("bets", writer, b) : b \in {"fine", "refused"}}
  \cup {Call("odds", reader, "fine"), Call("predictions", NoKey, "fine")}
  \cup {Call("list", reader, b) : b \in {"refused", "raising"}}
  \cup {Call(k, NoKey, "fine") : k \in {"readyz", "healthz", "boom"}}

(* Two more that can hold every connection between them.                   *)
MCCalls ==
  r1 :> {Call("list", reader, "fine")}
  @@ r2 :> {Call("list", reader, "fine"), Call("bets", writer, "fine")}
  @@ r3 :> AnyCall

=============================================================================
