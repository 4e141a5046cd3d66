----------------------------- MODULE MCPayments -----------------------------
EXTENDS Payments, TLC

\* Clients are interchangeable: no property or action names one.
ClientSymmetry == Permutations(Clients)
=============================================================================
