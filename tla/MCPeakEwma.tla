----------------------------- MODULE MCPeakEwma -----------------------------
(* Finite instances of PeakEwma: a cost is halved with every tick.         *)
EXTENDS PeakEwma, TLC

Halved(c, t) == c \div 2^t

Symmetry == Permutations(Thread)

=============================================================================
