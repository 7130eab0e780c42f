----------------------------- MODULE MCBuffers -----------------------------
(* One letter is enough: what no write has reached holds a NUL or junk.     *)
EXTENDS Buffers, TLC

CONSTANTS n1, n2

MCName == {n1, n2}
Symmetry == Permutations(MCName)
=============================================================================
