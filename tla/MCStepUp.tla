------------------------------ MODULE MCStepUp ------------------------------
EXTENDS StepUp, TLC

\* Requests are interchangeable, and so are codes.
Symmetry == Permutations(Requests) \cup Permutations(Codes)
=============================================================================
