---------------------------- MODULE MCAudioFramer ----------------------------
(* A small instance of AudioFramer for TLC; lambdas are interchangeable.   *)
EXTENDS AudioFramer, TLC

Symmetry == Permutations(Lambdas)
=============================================================================
