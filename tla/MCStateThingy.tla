---------------------------- MODULE MCStateThingy ----------------------------
(* Small instances of StateThingy for TLC. *)
EXTENDS StateThingy, TLC

Sym == Permutations(Ids) \union Permutations(Pictures)

(* In the past, none, below and above the cap, and nothing usable.         *)
MCRetryAfter == {Past, 0, 1, 3, NoRetryAfter}
=============================================================================
