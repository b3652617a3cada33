--------------------------- MODULE MCDistribution ---------------------------
(* Small instances of Distribution for TLC. *)
EXTENDS Distribution, TLC

CONSTANTS a, b, c

\* Three investors in two batches of two; then a has sold to c.
Ledgers == <<<<a, b, c>>, <<b, c>>>>

Symmetry == Permutations(Passes) \union Permutations(Runs)
=============================================================================
