----------------------------- MODULE MCEncoderCQ -----------------------------
(* Small instances of EncoderCQ for TLC.  Threads of one role are          *)
(* interchangeable, so the safety runs use their permutations.             *)
EXTENDS EncoderCQ, TLC

Symmetry == Permutations(Producers) \cup Permutations(Consumers)
                \cup Permutations(Controllers)
=============================================================================
