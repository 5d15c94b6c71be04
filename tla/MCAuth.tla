------------------------------- MODULE MCAuth -------------------------------
(***************************************************************************)
(* Two requests at a time, two owners, two nonces and two bearers, and     *)
(* lifetimes short enough to pass within the clock's bound.                *)
(***************************************************************************)
EXTENDS Auth, TLC

CONSTANTS h1, h2, alice, bob, n1, n2, b1, b2

Symmetry == Permutations(Handlers) \cup Permutations(Owners)
            \cup Permutations(Nonces) \cup Permutations(Bearers)
=============================================================================
