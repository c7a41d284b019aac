------------------------- MODULE MCMediaIngestion --------------------------
EXTENDS MediaIngestion, TLC

Symmetry == Permutations(Tasks) \cup Permutations(Workers)
              \cup Permutations(Assets) \cup Permutations(Authors)
=============================================================================
