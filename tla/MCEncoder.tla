------------------------------ MODULE MCEncoder ------------------------------
(* Small instances of Encoder for TLC.  The slots of a kind are            *)
(* interchangeable.                                                        *)
EXTENDS Encoder, TLC

Symmetry == Permutations(VideoLoops) \cup Permutations(AudioLoops)
                \cup Permutations(Lambdas)
=============================================================================
