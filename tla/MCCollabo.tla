------------------------------ MODULE MCCollabo ------------------------------
(* Small instances of Collabo for TLC.  Connections are interchangeable,   *)
(* and so are member codes: the table they index starts out arbitrary.     *)
EXTENDS Collabo, TLC

Symmetry == Permutations(Ws) \cup Permutations(Mcodes)
=============================================================================
