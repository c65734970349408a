-------------------------------- MODULE MCBalanceCache --------------------------------
EXTENDS BalanceCache, TLC

OneToken == [n \in Networks |-> {"POL"}]
Symmetry == Permutations(Wallets) \cup Permutations(Calls)
=======================================================================================
