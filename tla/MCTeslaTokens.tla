--------------------------- MODULE MCTeslaTokens ---------------------------
(* TeslaTokens with its interchangeable threads and clients permuted.       *)
EXTENDS TeslaTokens, TLC

Symmetry == Permutations(Callers) \union Permutations(Callbacks)
            \union Permutations(Clients)
=============================================================================
