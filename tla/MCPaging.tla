------------------------------- MODULE MCPaging -------------------------------
(***************************************************************************)
(* A small instance of Paging: every table of three rows.  Two times for   *)
(* three ids make ties; the third time lies outside the window of the      *)
(* client, where it gives one.                                             *)
(***************************************************************************)
EXTENDS Paging

ThreeIds == 1 .. 3
ThreeTimes == 1 .. 3

Query(resource, mode, sort, limit, window) ==
  [resource |-> resource, mode |-> mode, sort |-> sort, limit |-> limit, window |-> window]

(* Both directions, pages of one and of two rows, all resources.           *)
MCQueries ==
  {Query("odds", "cursor", "asc", 2, 1 .. 2),
   Query("odds", "cursor", "desc", 1, 1 .. 3),
   Query("predictions", "cursor", "asc", 1, 1 .. 2),
   Query("predictions", "cursor", "desc", 2, 1 .. 2),
   Query("odds", "offset", "asc", 1, 1 .. 2),
   Query("predictions", "offset", "asc", 2, 1 .. 3),
   Query("bets", "offset", "desc", 1, 1 .. 3),
   Query("bets", "offset", "desc", 2, 1 .. 3)}

CursorQueries == {q \in MCQueries : q.mode = "cursor"}

=============================================================================
