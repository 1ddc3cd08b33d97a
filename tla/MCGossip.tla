------------------------------- MODULE MCGossip -------------------------------
(* TLC instances of Gossip. *)
EXTENDS Gossip, TLC

CONSTANTS a, b

\* Two observers that nobody follows are interchangeable.
Observers == Permutations({a, b})
=============================================================================
