----------------------------- MODULE MCService -----------------------------
(* Small instance of Service for TLC.                                      *)
EXTENDS Service, TLC

CONSTANTS ann, secret, guess, small, large, t1, t2, k1, k2

NoneConfigured == <<>>

\* The default: no model with vectors as long as the lexical ones, two models alike.
Lengths == [m \in Models |-> IF m = Lexical THEN 1 ELSE 2]

Symmetric == Permutations(Threads) \cup Permutations(Tokens)

=============================================================================
