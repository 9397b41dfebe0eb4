------------------------------ MODULE MCLnTrade ------------------------------
(* Two people may claim; they are interchangeable.                          *)
EXTENDS LnTrade, TLC

Symmetry == Permutations(Sponsors)
===============================================================================
