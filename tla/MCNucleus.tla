---- MODULE MCNucleus ----
EXTENDS Nucleus, TLC
Symmetry == Permutations(Pcb)
====
