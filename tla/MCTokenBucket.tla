----------------------------- MODULE MCTokenBucket -----------------------------
(***************************************************************************)
(* Small instances of TokenBucket.                                         *)
(***************************************************************************)
EXTENDS TokenBucket, TLC

CONSTANTS r1, r2, r3, r4, keyA, glob

(* One client: its bucket and the global one.                              *)
OneKey    == [r \in Requests |-> keyA]
MCBuckets == {keyA, glob}
MCRefill  == keyA :> 1 @@ glob :> 1

(* With a third of a token a tick, TTL and Retry-After are rounded.        *)
SlowCapacity == keyA :> 2 @@ glob :> 1

(* One bucket that matters: a token a second.                              *)
TightCapacity == keyA :> 1 @@ glob :> 4

(* Deliveries with the same API key are interchangeable.                   *)
Symmetry == Permutations(Requests)

=============================================================================
