----------------------------- MODULE MCSessions -----------------------------
EXTENDS Sessions, TLC

\* Tokens, and likewise the requests of each kind, are interchangeable.
Interchangeable ==
    Permutations(Tokens) \cup Permutations(Refreshers) \cup Permutations(Setters)
=============================================================================
