------------------------------ MODULE MCStream ------------------------------
(* A small instance of Stream for TLC; clients are interchangeable.        *)
EXTENDS Stream, TLC

Symmetry == Permutations(Clients)
=============================================================================
